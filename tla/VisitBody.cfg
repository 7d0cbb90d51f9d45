SPECIFICATION LookSpec
CONSTANTS
    Kinds = {"If", "ConstexprIf", "While", "Try", "Switch", "Conditional", "Call",
             "Return", "CoYield", "Lambda"}
    MaxNodes = 4
    MaxLambdas = 2
INVARIANTS ContextFollowsWalk BracedElseIsMarked EachMessageInOnePlace
PROPERTIES ImplementsSequenceModel
CHECK_DEADLOCK FALSE
