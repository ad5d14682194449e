SPECIFICATION Spec
CONSTANTS
    cam1 = cam1
    cam2 = cam2
    in1 = in1
    in2 = in2
    aux = aux
    b1 = b1
    h1 = h1
    one = one
    t1 = t1
    Example <- ExampleBound
    Cameras <- MCCameras
    Inputs <- MCInputs
    DeckExtras = {aux}
    Buttons = {b1}
    Hosts = {h1}
    Presets = {one}
    Imports <- NoDocuments
    HandWritten <- NoDocuments
    EditDuringApply = FALSE
    Tabs = {t1}
    MaxWrites = 2
INVARIANT SavedConfigLoads
