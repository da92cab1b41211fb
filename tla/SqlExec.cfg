CONSTANTS
    MaxInt = 3
    MaxRows = 2
    MaxStatements = 3
    Tables <- MCTables
    Views <- MCViews
    Sessions <- MCSessions
    Statements <- MCStatements
    Probes <- MCProbes
    Predicates <- MCPredicates
SPECIFICATION Spec
INVARIANTS ConstraintsHold WritesPermitted HiddenRowsDoNotCount PathsAgree RelationalLaws
