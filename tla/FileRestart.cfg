SPECIFICATION Spec
CONSTANTS
    Writers = {g1, g2}
    MaxLines = 2
    MaxNum = 2
    DaysInMonth = 2
    MaxMsgs = 3
    MaxDate = 1
    MaxFaults = 1
    MaxRestarts = 1
PROPERTY RestartsLogger
