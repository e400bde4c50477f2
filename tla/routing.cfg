SPECIFICATION RoutingSpec
CONSTANTS
    Plans <- MCPlans
    Hosts <- MCHosts
    Asked <- MCAsked
    MaxRoutes = 3
    Tables <- MCTables
INVARIANTS MostSpecific TiesByPriorityThenHost
PROPERTIES OthersDoNotMatter
