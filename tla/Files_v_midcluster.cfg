SPECIFICATION Spec
CONSTANTS
    BLKSEC = 2
    SECBYTES = 2
    FATPERSEC = 4
    MaxWalk = 3
    NFD = 4
    ReadClus = {0, 1}
    ReadOdd = {0, 1}
    Upper <- upper
    Volumes <- volumes
    Paths <- paths
INVARIANT
    ReadsTheFile
