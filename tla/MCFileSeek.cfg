\* lseek() beyond the end of a file.
CONSTANTS
    p = p  q = q  f1 = f1  f2 = f2  A = A  B = B
    Proc = {p, q}
    Inode = {A, B}
    File = {f1, f2}
    BSIZE = 2
    NDIRECT = 1
    NINDIRECT = 1
    NBlock = 3
    MaxChunk = 2
    PGSIZE = 3
    Byte = {0, 1}
    Sizes = {1, 3}
    Offsets = {0, 3}
    Seekers = {p}
    Shapes <- MCShapes
SPECIFICATION Spec
PROPERTIES
    SeekKeepsBytes
