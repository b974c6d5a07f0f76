SPECIFICATION RoutingSpec
CONSTANTS
    visa = visa
    mc = mc
    crdb = crdb
    NoRoute = NoRoute
    Digits = {1, 4}
    Routes = {visa, mc, crdb}
    Pans <- SomePans
    Payloads <- ThreeTables
    Handlers = {h1, h2}
    Workers = {w1}
INVARIANT LookupExact
