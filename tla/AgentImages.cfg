SPECIFICATION ImagesSpec
CONSTANTS
    u1 = u1
    u2 = u2
    u3 = u3
    u4 = u4
    Uploads = {u1, u2, u3, u4}
    Name <- MCName
    Size <- MCSize
    Nobody = nobody
    MaxFaults = 2
INVARIANTS UploadedIsWhole CountIsExact
CHECK_DEADLOCK FALSE
