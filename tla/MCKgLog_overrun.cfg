\* Records may come faster than they are written, and the disk may fail.  They
\* are large for the buffer: the first one may wrap it onto its dirty bytes,
\* and the fourth then leaves it.
CONSTANTS
    bytes_buf = 10
    max_bytes_msg = 1
    bytes_file = 4
    bytes_fflush = 3
    Header = 4
    Mark = 1
    Size = {2, 3, 5}
    Overruns = TRUE
    MaxRecords = 4
    MaxFlush = 0
    MaxFiles = 1
    DiskFails = TRUE
SPECIFICATION Spec
INVARIANT InBuffer
PROPERTIES StopEnds ErrorEnds
