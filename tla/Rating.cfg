SPECIFICATION RatingSpec

CONSTANTS
    Catalogues <- Catalogues_MC
    Quotes <- Quotes_MC
    CalculationRequests <- CalculationRequests_MC
    Tariffs <- Tariffs_MC
    FreeTimeRules <- FreeTimeRules_MC
    FreeTimeRequests <- FreeTimeRequests_MC
    NoValue = NoValue

INVARIANTS
    AllocationsAddUp
    DaysChargedOnce
    PercentagesOfChargedSteps
    MarginKept
    WinnersUnbeaten

CHECK_DEADLOCK FALSE
