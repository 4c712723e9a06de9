\* The log thread keeps up, and the disk may fail.
CONSTANTS
    bytes_buf = 7
    max_bytes_msg = 0
    bytes_file = 2
    bytes_fflush = 2
    Header = 1
    Mark = 1
    Size = {1, 2}
    Overruns = FALSE
    MaxRecords = 4
    MaxFlush = 1
    MaxFiles = 2
    DiskFails = TRUE
SPECIFICATION Spec
INVARIANTS TypeOK ClosedBeforeJoin
PROPERTIES KeepsStream WriteUndisturbed BacklogWritten
