SPECIFICATION Spec
CONSTANTS
    BLKSEC = 2
    SECBYTES = 2
    FATPERSEC = 4
    MaxWalk = 3
    NFD = 4
    ReadClus = {1, 2}
    ReadOdd = {0}
    Upper <- upper
    Volumes <- volumes
    Paths <- paths
INVARIANTS
    TypeOK
    
    ReadsTheFile
    OpensWhatIsNamed
    PathsLeadBack
    ListsEachOnce
