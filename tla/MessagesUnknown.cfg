SPECIFICATION Spec
CONSTANTS
    Descriptors <- MCDescriptors
    Output = "document"
    Input = "document"
    Masks <- MCMasks
    Pins <- MCPins
    Requests <- MCRequests
    Answers <- MCAnswers
    Shapes <- MCShapes
    Members <- MCMembers
    Containers <- MCContainers
    Title <- MCTitle
    Inline = {"time"}
    Undescribed = {"anonymous"}
    Documented <- MCDocumented
INVARIANT NewFieldsAreDropped
