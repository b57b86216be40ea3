SPECIFICATION Spec
CONSTANTS
    Descriptors <- MCDescriptors
    Output = "document"
    Input = "document"
    Masks <- MCMasks
    Pins <- MCPins
    Requests <- MCRequests
    Answers <- MCAnswers
    Shapes <- TreeShapes
    Members <- TreeMembers
    Containers = {"tree"}
    Title <- TreeTitle
    Inline = {}
    Undescribed = {}
    Documented <- TreeDocumented
INVARIANT SelfReferencesTerminate
