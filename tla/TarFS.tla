-------------------------------- MODULE TarFS --------------------------------
(***************************************************************************)
(* The read-only file system (sys/tarfs.c) and the cat system call of      *)
(* sys/idt.c: init_tarfs walks over the headers of the archive linked into *)
(* the kernel, open looks a name up in the table it has built, read_file   *)
(* copies from the position bytesdone, which is one variable for all open  *)
(* files, and close resets it.                                             *)
(*                                                                         *)
(* A byte of a file is told apart by its position in the file.  A system   *)
(* call runs with interrupts off; cat is one step per turn of its loop,    *)
(* since whether the loop ends is a question of its own.                   *)
(***************************************************************************)
EXTENDS Integers, Sequences

CONSTANTS
    Block,      \* skip_size: bytes of a header, unit of the archive (512)
    Chunk,      \* bytes that cat reads at a time (60)
    Archives,   \* the archives considered
    ReadSizes   \* sizes that programs pass to read_file

\* Sizes of up to nine octal digits (8^9): read as decimal ones they fit into
\* the int of atoi.  No archive that fits into memory has a larger file.
SizeLimit == 8 * 8 * 8 * 8 * 8 * 8 * 8 * 8 * 8

\* An entry of an archive has a type, a size, and bytes that are 0.  Names are
\* unique in an archive, so the place of an entry stands for its name.  No file
\* begins with a 0 byte: the archive of the build holds programs, which begin
\* with 7F, and directories; a text holds no 0 byte at all.
ASSUME TarFSAssumption ==
    /\ Block \in Nat \ {0} /\ Chunk \in Nat \ {0}
    /\ ReadSizes \subseteq Nat \ {0}
    /\ \A a \in Archives : Len(a) \in Nat /\ DOMAIN a = 1 .. Len(a)
    /\ \A a \in Archives : \A k \in DOMAIN a :
        /\ a[k].type \in {"dir", "file"} /\ a[k].size \in Nat /\ a[k].size < SizeLimit
        /\ a[k].nul \subseteq 1 .. a[k].size - 1
        /\ a[k].type = "dir" => a[k].size = 0

VARIABLES
    archive,     \* the archive in use
    tarfs_list,  \* the table, up to tarf_idx; addr tells which header it is of
    temp_ptr,    \* the walk of init_tarfs
    phase,       \* "init", "user" or, inside the cat system call, "cat"
    fd,          \* the open file: which entry, and its size
    bytesdone,
    size,        \* history: the size of the file opened last,
    text,        \* whether it has no 0 byte, and of what its reader
    reached,     \* got: the position behind the last byte,
    skipped,     \* whether a read left a gap,
    repeated,    \* or gave a byte again,
    strayed,     \* or gave one that is not in the file,
    whole        \* and whether cat has shown the file and returned

fsVars   == <<archive, tarfs_list, temp_ptr>>
histVars == <<size, text, reached, skipped, repeated, strayed, whole>>
vars     == <<fsVars, phase, fd, bytesdone, histVars>>

Closed == [of |-> 0, size |-> 0]

\* A file without a 0 byte
IsText(k) == archive[k].nul = {}

-----------------------------------------------------------------------------
(* The archive as tar writes it. *)

\* The size field: eleven octal digits, most significant first
OctalField(n) ==
    LET rest[k \in 1 .. 11] == IF k = 11 THEN n ELSE rest[k + 1] \div 8
    IN  [k \in 1 .. 11 |-> rest[k] % 8]

\* Where each header starts; the last place is that of the empty one.
Layout(a) ==
    LET at[k \in 1 .. Len(a) + 1] ==
            IF k = 1 THEN 0
            ELSE at[k - 1] + Block * (1 + (a[k - 1].size + Block - 1) \div Block)
    IN  at

-----------------------------------------------------------------------------
(* init_tarfs *)

\* atoi of a field without a sign
Atoi(ds) ==
    LET res[k \in 0 .. Len(ds)] == IF k = 0 THEN 0 ELSE res[k - 1] * 10 + ds[k]
    IN  res[Len(ds)]

\* octTodec, with its pow
OctTodec(octal) ==
    LET sum[n \in 0 .. octal] == IF n = 0 THEN 0 ELSE (n % 10) + 8 * sum[n \div 10]
    IN  sum[octal]

\* Mutant: a file that ends with a block is not a case of its own.
StrideAlwaysPadded(n) ==
    IF n = 0 THEN Block ELSE n + (Block - (n % Block)) + Block

\* From one header to the next
Stride(n) ==
    IF n = 0 THEN Block
    ELSE IF n % Block = 0 THEN n + Block
    ELSE n + (Block - (n % Block)) + Block

\* One turn of the loop.  If temp_ptr is not at a header, what it finds is
\* arbitrary, and the walk ends here in the model.
InitEntry ==
    /\ phase = "init"
    /\ \E k \in 1 .. Len(archive) :
        LET entry_size == OctTodec(Atoi(OctalField(archive[k].size))) IN
        /\ temp_ptr = Layout(archive)[k]
        /\ tarfs_list' = Append(tarfs_list,
              [size |-> entry_size, type |-> archive[k].type, addr |-> k])
        /\ temp_ptr' = temp_ptr + Stride(entry_size)
    /\ UNCHANGED <<archive, phase, fd, bytesdone, histVars>>

\* The empty header
InitDone ==
    /\ phase = "init" /\ temp_ptr = Layout(archive)[Len(archive) + 1]
    /\ phase' = "user"
    /\ UNCHANGED <<fsVars, fd, bytesdone, histVars>>

-----------------------------------------------------------------------------
(* open, read_file, close *)

\* The programs keep one file open at a time, cat included.  No shipped
\* program but cat opens a file to read.
MayOpen == phase = "user" /\ fd = Closed

\* open finds a file.  A directory or a name that is not there changes nothing
\* but the memory kmalloc has given for the descriptor.
Open(k) ==
    /\ k \in DOMAIN tarfs_list /\ tarfs_list[k].type = "file"
    /\ fd' = [of |-> tarfs_list[k].addr, size |-> tarfs_list[k].size]
    /\ size' = fd'.size /\ text' = IsText(fd'.of) /\ reached' = 0 /\ whole' = FALSE
    /\ skipped' = FALSE /\ repeated' = FALSE /\ strayed' = FALSE

\* Mutant: what is left of the file does not limit a read.
BytesToReadUnlimited(n) == n

\* bytestoRead: the smaller of n and what is left, compared as unsigned
\* numbers, so that a negative rest is no limit.
BytesToRead(n) ==
    LET left == fd.size - bytesdone
    IN  IF left < 0 \/ n < left THEN n ELSE left

\* str_len of the buffer after c bytes have been copied to it
Length(c) ==
    LET zero == {j \in 0 .. c - 1 : bytesdone + j \in archive[fd.of].nul}
    IN  IF zero = {} THEN c ELSE CHOOSE j \in zero : \A m \in zero : j <= m

\* Mutant: the position is not moved.
AdvancedNot(len) == bytesdone

Advanced(len) == bytesdone + (len - 1)

\* The caller gets the c bytes from bytesdone on.
Gets(c) ==
    /\ reached' = IF c = 0 THEN reached ELSE bytesdone + c
    /\ skipped' = (skipped \/ (c > 0 /\ bytesdone > reached))
    /\ repeated' = (repeated \/ (c > 0 /\ bytesdone < reached))
    /\ strayed' = (strayed \/ (c > 0 /\ (bytesdone < 0 \/ bytesdone + c > fd.size)))
    /\ UNCHANGED <<size, text>>

\* read_file, with a size of n, of a file that is not empty
ReadFile(n) == bytesdone' = Advanced(Length(BytesToRead(n)))

\* Mutant: the position is not reset.
CloseStaying == fd' = Closed /\ UNCHANGED bytesdone

Close == fd' = Closed /\ bytesdone' = 0

-----------------------------------------------------------------------------
(* Programs that use the system calls 34, 36 and 38 *)

UserOpen ==
    /\ MayOpen
    /\ \E k \in DOMAIN tarfs_list : Open(k)
    /\ UNCHANGED <<fsVars, phase, bytesdone>>

UserRead(n) ==
    /\ phase = "user" /\ fd.size # 0
    /\ ReadFile(n)
    /\ Gets(BytesToRead(n))
    /\ UNCHANGED <<fsVars, phase, fd, whole>>

UserClose ==
    /\ phase = "user" /\ fd # Closed
    /\ Close
    /\ UNCHANGED <<fsVars, phase, histVars>>

(* The cat system call *)

CatOpen ==
    /\ MayOpen
    /\ \E k \in DOMAIN tarfs_list : Open(k)
    /\ phase' = "cat"
    /\ UNCHANGED <<fsVars, bytesdone>>

\* A turn of the loop that does not end it
CatMore ==
    /\ phase = "cat" /\ fd.size # 0 /\ BytesToRead(Chunk) >= Chunk
    /\ ReadFile(Chunk)
    /\ Gets(Length(Chunk))
    /\ UNCHANGED <<fsVars, phase, fd, whole>>

\* The last turn, and close
CatLast ==
    /\ phase = "cat" /\ fd.size # 0 /\ BytesToRead(Chunk) < Chunk
    /\ Gets(Length(BytesToRead(Chunk)))
    /\ Close
    /\ phase' = "user" /\ whole' = TRUE
    /\ UNCHANGED fsVars

\* An empty file: read_file leaves the buffer as it was, uninitialized, and it
\* is printed all the same.
CatEmpty ==
    /\ phase = "cat" /\ fd.size = 0
    /\ strayed' \in BOOLEAN
    /\ Close
    /\ phase' = "user" /\ whole' = TRUE
    /\ UNCHANGED <<fsVars, size, text, reached, skipped, repeated>>

-----------------------------------------------------------------------------

Init ==
    /\ archive \in Archives
    /\ tarfs_list = <<>> /\ temp_ptr = 0 /\ phase = "init"
    /\ fd = Closed /\ bytesdone = 0
    /\ size = 0 /\ text = TRUE /\ reached = 0 /\ whole = FALSE
    /\ skipped = FALSE /\ repeated = FALSE /\ strayed = FALSE

Kernel == InitEntry \/ InitDone \/ CatMore \/ CatLast \/ CatEmpty

User == UserOpen \/ UserClose \/ CatOpen \/ \E n \in ReadSizes : UserRead(n)

Next == Kernel \/ User

\* The kernel goes on with what it has begun; no program has to ask for more.
Spec == Init /\ [][Next]_vars /\ WF_vars(Kernel)

-----------------------------------------------------------------------------
(* Properties *)

\* The variables have the types of their declarations; the position is never
\* before the start of the file, where an int could take it.
TypeOK ==
    /\ archive \in Archives /\ temp_ptr \in Nat
    /\ phase \in {"init", "user", "cat"}
    /\ tarfs_list \in Seq([size : Nat, type : {"dir", "file"}, addr : DOMAIN archive])
    /\ fd \in [of : DOMAIN archive \cup {0}, size : Nat]
    /\ bytesdone \in Nat
    /\ size \in Nat /\ reached \in Nat
    /\ {text, skipped, repeated, strayed, whole} \subseteq BOOLEAN

\* init_tarfs finds every header of the archive, and nothing else: sizes
\* survive their octal notation, and no file, whether empty, ending with a
\* block or not, throws the walk off.
TableMatches ==
    /\ \A k \in DOMAIN tarfs_list :
        tarfs_list[k] = [size |-> archive[k].size, type |-> archive[k].type, addr |-> k]
    /\ temp_ptr = Layout(archive)[Len(tarfs_list) + 1]
    /\ phase # "init" => Len(tarfs_list) = Len(archive)

\* Nothing is read from outside of the open file, be it a text or a program,
\* though the position is shared by all files, each read starts where the last
\* one left it, and read_file moves it by the length of a string.
StaysInFile == strayed => size = 0

\* No byte is passed over, whatever the sizes of the reads: each begins no later
\* than one behind the last byte read_file has given; and if the file is a text,
\* cat goes on up to its last byte.
SkipsNothing == ~skipped /\ (whole /\ text => reached = size)

\* cat of a text file returns from the kernel, where interrupts are off.  It need
\* not return for a file with a 0 byte, such as every program in the archive: the
\* position stops before that byte, and read_file returns full buffers for ever.
CatReturns == (phase = "cat" /\ IsText(fd.of)) ~> phase = "user"

\* README: "cat - displays the content of the file (passed as argument)": once
\* cat has returned, each byte of the file has been shown, once and in order.
CatExact == whole => reached = size /\ ~skipped /\ ~repeated /\ ~strayed

=============================================================================
