SPECIFICATION Spec
CONSTANTS
    Routes <- MCRoutes
    Asked <- MCAsked
    Clients <- MCClients
    Nodes <- MCNodes
    Base <- MCBase
    Names <- MCNames
    Invalid <- MCInvalid
    Configs <- MCConfigs
    MaxReloads = 1
INVARIANTS OnlyAdmittedCount SentOnce TargetIsEmbedded LoggedExitUsed SameQuestionPlain
