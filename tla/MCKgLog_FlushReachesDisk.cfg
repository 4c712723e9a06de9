\* Two records and one call of Flush.
CONSTANTS
    bytes_buf = 7
    max_bytes_msg = 0
    bytes_file = 2
    bytes_fflush = 2
    Header = 1
    Mark = 1
    Size = {1, 2}
    Overruns = FALSE
    MaxRecords = 2
    MaxFlush = 1
    MaxFiles = 1
    DiskFails = FALSE
SPECIFICATION Spec
PROPERTY FlushReachesDisk
