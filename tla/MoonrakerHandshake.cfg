SPECIFICATION MoonrakerSpec
CONSTANTS
    UpdatesCap = 1
    MaxID = 3
PROPERTY
    Subscribes
