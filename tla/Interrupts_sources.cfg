SPECIFICATION Spec
CONSTANTS
    Fitted <- FourSources
    Lines = {"INT0"}
    IEWrites <- SomeIE
    IPWrites <- SomeIP
    Liberties = {"stray_returns"}
INVARIANTS
    TypeOK
    NestingInv
    PowerMirror
    ContextInv
PROPERTIES
    PromptService
    PowerDownFreezes
    EdgeDetection
    ServesBest
    WakesFromIdle
    ImplementsServiceLevels
