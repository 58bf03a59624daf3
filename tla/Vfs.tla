-------------------------------- MODULE Vfs --------------------------------
(***************************************************************************)
(* Files: the tar archive the boot loader passes (tar.c), the kernel's     *)
(* table of opened files (vfs.c), the tables of handles of the processes   *)
(* (resource_handling.c) and the system calls that use them (syscall.c).   *)
(*                                                                         *)
(* A path is the sequence of its characters behind the leading '/', which  *)
(* vfs_open skips.  The archive is the sequence of its members, each with  *)
(* the name and the size its header gives; what a file holds is told apart *)
(* by the position only.  vfs_init mounts the archive on "/", and nobody   *)
(* mounts or unmounts anything else.  System calls run with interrupts     *)
(* off, and load_elf before there is a process to disturb it: one call is  *)
(* one step.                                                               *)
(***************************************************************************)
EXTENDS Integers, Sequences, FiniteSetsExt

CONSTANTS
  Procs,
  Archives,            \* sequences of [name, size]
  BLOCK,               \* bytes of a block of an archive: 512
  SizeDigits,          \* octal digits of a size: 11
  Paths,               \* what is opened
  HEADER_LIST_SIZE,    \* 5
  MAX_OPENED_FILES,    \* 10
  MAX_RESOURCES,       \* 5
  Lengths,             \* what programs read
  HeadersEnd,          \* where load_elf leaves a program
  MaxPos               \* bound on positions

\* get_file_size's count: what a digit counts that has k digits behind it.
count[k \in Nat] == IF k = 0 THEN 1 ELSE count[k - 1] * 8

ASSUME VfsAssumption ==
  /\ {HEADER_LIST_SIZE, MAX_OPENED_FILES, MAX_RESOURCES, BLOCK, SizeDigits} \subseteq Nat \ {0}
  /\ Lengths \subseteq Nat /\ HeadersEnd \in 1 .. MaxPos
  /\ \A a \in Archives :
       /\ a \in Seq([name : Seq(STRING), size : 0 .. count[SizeDigits] - 1]) /\ a # <<>>
       /\ \A i \in DOMAIN a : a[i].name # <<>>
       /\ \A i, j \in DOMAIN a : a[i].name = a[j].name => i = j

Slots   == 0 .. MAX_OPENED_FILES - 1
Handles == 0 .. MAX_RESOURCES - 1

Empty    == -2       \* no resource in this place of a resource_table
NoFile   == -1       \* vfs_open's and get_file_header's failure
Elsewhere == 0       \* the file of a header that is none

VARIABLES
  phase,               \* "tar_init", "vfs_init", "run"; "overrun"
  members,             \* the archive
  header_addr,         \* parse_tar_file's, in blocks
  file_headers,        \* the members whose headers it has entered
  mountpoints,         \* their paths
  vfs_opened_files,    \* slot -> [name, file, pos]
  live,                \* the processes
  resource_table,      \* process -> handle -> internal_handle, or Empty
  fault,               \* a wild access has ended in a panic
  got,                 \* history: process -> handle -> bytes read, until wild
  wild                 \* history: "/" has been opened

tarVars  == <<phase, members, header_addr, file_headers, mountpoints>>
fileVars == <<vfs_opened_files, live, resource_table, fault, got, wild>>
vars     == <<tarVars, fileVars>>

\* The names in the headers get_file_header looks through.
archive == [i \in DOMAIN file_headers |-> members[file_headers[i]].name]

Closed == [name |-> <<>>, file |-> Elsewhere, pos |-> 0]

\* tar_init has mapped the archive and cleared file_headers.
Init ==
  /\ phase = "tar_init"
  /\ members \in Archives
  /\ header_addr = 0 /\ file_headers = <<>> /\ mountpoints = <<>>
  /\ vfs_opened_files = [i \in Slots |-> Closed]
  /\ live = {}
  /\ resource_table = [p \in Procs |-> [h \in Handles |-> Empty]]
  /\ fault = FALSE
  /\ got = [p \in Procs |-> [h \in Handles |-> 0]]
  /\ wild = FALSE

-----------------------------------------------------------------------------
(* tar_init and vfs_init *)

\* The sum of the first n elements of a sequence.
Total(c, n) ==
  LET total[k \in 0 .. Len(c)] == IF k = 0 THEN 0 ELSE total[k - 1] + c[k]
  IN total[n]

\* A size as the archive holds it, and the block of the i-th header: what tar writes.
OctalDigits(n) == [j \in 1 .. SizeDigits |-> (n \div count[SizeDigits - j]) % 8]
HeaderBlock(i) ==
  Total([j \in 1 .. Len(members) |-> 1 + (members[j].size + BLOCK - 1) \div BLOCK], i - 1)

\* The loop runs from the last digit to the first.
get_file_size(in) ==
  Total([j \in 1 .. SizeDigits |-> in[SizeDigits + 1 - j] * count[j - 1]], SizeDigits)

\* Mutant of Advance: a block more for every file.
AdvanceOneMore(size) == size \div BLOCK + 2

\* How many blocks parse_tar_file goes on by for a file.
Advance(size) == size \div BLOCK + 1 + (IF size % BLOCK # 0 THEN 1 ELSE 0)

\* The member whose header is at header_addr; there is none in the empty blocks behind
\* the last one.
Found == {i \in DOMAIN members : HeaderBlock(i) = header_addr}

\* The loop of parse_tar_file.  It does not look at the size of file_headers: the header
\* of a file too many goes over what lies behind, and this model ends.
parse_tar_file ==
  /\ phase = "tar_init"
  /\ IF Found = {} THEN phase' = "vfs_init" /\ UNCHANGED <<header_addr, file_headers>>
     ELSE \E i \in Found :
            /\ header_addr' = header_addr + Advance(get_file_size(OctalDigits(members[i].size)))
            /\ IF Len(file_headers) < HEADER_LIST_SIZE
               THEN file_headers' = Append(file_headers, i) /\ UNCHANGED phase
               ELSE phase' = "overrun" /\ UNCHANGED file_headers
  /\ UNCHANGED <<members, mountpoints, fileVars>>

\* create_mountpoint for the archive, and add_mountpoint.
vfs_init ==
  /\ phase = "vfs_init" /\ phase' = "run"
  /\ mountpoints' = Append(mountpoints, <<"/">>)
  /\ UNCHANGED <<members, header_addr, file_headers, fileVars>>

-----------------------------------------------------------------------------
(* vfs_open *)

\* Mutant of strncmp: the first characters decide.
CompareFirst(s1, s2) == s1[1] = s2[1]

\* strncmp = 0: from the second character to the end of the shorter string.
strncmp(s1, s2) == \A i \in 2 .. Min({Len(s1), Len(s2)}) : s1[i] = s2[i]

\* get_mountpoint finds a mountpoint: strncmp takes "/" for every path.
get_mountpoint(path) == \E i \in DOMAIN mountpoints : strncmp(mountpoints[i], path)

\* What get_file_header can return.  For the empty name it compares with whatever
\* lies behind it.
get_file_header(name) ==
  LET found == {i \in DOMAIN archive : strncmp(archive[i], name)}
  IN IF name = <<>> THEN DOMAIN archive \cup {NoFile}
     ELSE {IF found = {} THEN NoFile ELSE Min(found)}

\* Mutant of Unused: a file nobody has read from yet gives its slot away.
UnusedByPos(i) == vfs_opened_files[i].pos = 0

Unused(i) == vfs_opened_files[i].name = <<>>

\* Mutant of FirstUnused: the last slot is not looked at.
FirstUnusedShort ==
  LET free == {i \in Slots \ {MAX_OPENED_FILES - 1} : Unused(i)}
  IN IF free = {} THEN NoFile ELSE Min(free)

\* The loop of vfs_open: the handle, or -1.
FirstUnused ==
  LET free == {i \in Slots : Unused(i)}
  IN IF free = {} THEN NoFile ELSE Min(free)

\* vfs_open of name, whose header is f and whose position will be pos.  A search that
\* fails reads an absent header on the way, and panics, if the archive has fewer
\* than HEADER_LIST_SIZE files; ustar_open goes on with file_headers[-1] if not.
vfs_open(name, f, pos) ==
  /\ get_mountpoint(<<"/">> \o name)
  /\ f \in get_file_header(name)
  /\ fault' \in IF f # NoFile THEN {FALSE}
                ELSE IF Len(archive) < HEADER_LIST_SIZE THEN {TRUE} ELSE BOOLEAN
  /\ wild' = (wild \/ name = <<>>)
  /\ vfs_opened_files' =
       IF fault' \/ FirstUnused = NoFile THEN vfs_opened_files
       ELSE [vfs_opened_files EXCEPT ![FirstUnused] =
               [name |-> name, file |-> IF f = NoFile THEN Elsewhere ELSE f, pos |-> pos]]

-----------------------------------------------------------------------------
(* Operations *)

\* exec_elf: load_elf opens the program, leaves it open at the end of the program
\* headers.  Without a slot left, load_elf reads an executable from
\* vfs_opened_files[-1].
exec_elf(p, name) ==
  /\ phase = "run" /\ ~fault /\ p \notin live
  /\ IF FirstUnused = NoFile
     THEN fault' = TRUE /\ UNCHANGED <<vfs_opened_files, wild>>
     ELSE \E f \in get_file_header(name) : vfs_open(name, f, HeadersEnd)
  /\ live' = live \cup {p}
  /\ UNCHANGED <<tarVars, resource_table, got>>

\* register_resource: the first free place of the table; without one, what vfs_open
\* has opened stays open.
register_resource(p, handle) ==
  LET free == {h \in Handles : resource_table[p][h] = Empty}
  IN IF free = {} THEN UNCHANGED <<resource_table, got>>
     ELSE /\ resource_table' = [resource_table EXCEPT ![p][Min(free)] = handle]
          /\ got' = [got EXCEPT ![p][Min(free)] = 0]

\* System call 2: register_file_resource.  It does not look whether vfs_open failed.
sys_open(p, name) ==
  /\ ~fault /\ p \in live
  /\ \E f \in get_file_header(name) : vfs_open(name, f, 0)
  /\ register_resource(p, FirstUnused)
  /\ UNCHANGED <<tarVars, live>>

\* Mutant of NextPos: vfs_read stores the number of bytes.
SetPos(pos, n) == n

\* buf_read_pos after vfs_read.  ustar_read does not look at the size of the file.
NextPos(pos, n) == pos + n

\* System call 0: read_resource.  No resource is a call through NULL; the handle -1
\* reads some other memory, or panics.
sys_read(p, h, n) ==
  LET i == resource_table[p][h] IN
  /\ ~fault /\ p \in live
  /\ i \in Slots => vfs_opened_files[i].pos + n <= MaxPos
  /\ fault' \in CASE i = Empty -> {TRUE} [] i = NoFile -> BOOLEAN [] OTHER -> {FALSE}
  /\ IF i \in Slots
     THEN /\ vfs_opened_files' = [vfs_opened_files EXCEPT ![i].pos = NextPos(@, n)]
          /\ got' = IF wild THEN got ELSE [got EXCEPT ![p][h] = @ + n]
     ELSE UNCHANGED <<vfs_opened_files, got>>
  /\ UNCHANGED <<tarVars, live, resource_table, wild>>

\* System call 60 and reap_process, which closes nothing.  The table is gone with the
\* process's block; create_proc clears the next one.
exit(p) ==
  /\ ~fault /\ p \in live
  /\ live' = live \ {p}
  /\ resource_table' = [resource_table EXCEPT ![p] = [h \in Handles |-> Empty]]
  /\ got' = [got EXCEPT ![p] = [h \in Handles |-> 0]]
  /\ UNCHANGED <<tarVars, vfs_opened_files, fault, wild>>

Halted == (fault \/ phase = "overrun") /\ UNCHANGED vars

Next ==
  \/ parse_tar_file
  \/ vfs_init
  \/ \E p \in Procs, name \in Paths : exec_elf(p, name) \/ sys_open(p, name)
  \/ \E p \in Procs, h \in Handles, n \in Lengths : sys_read(p, h, n)
  \/ \E p \in Procs : exit(p)
  \/ Halted

Spec == Init /\ [][Next]_vars

-----------------------------------------------------------------------------
(* Properties *)

\* parse_tar_file enters the headers of all members, in their order, for whatever sizes,
\* and overruns file_headers exactly if there are more than HEADER_LIST_SIZE.
HeadersAreFound ==
  /\ phase \in {"vfs_init", "run"} => file_headers = [i \in DOMAIN members |-> i]
  /\ phase = "overrun" => Len(members) > HEADER_LIST_SIZE

\* No opened file is behind two handles, of one process or of two: vfs_open takes a
\* slot for unused by its name, and until somebody opens "/", whose name is empty, the
\* slots in use have one.
HandlesAreExclusive ==
  ~wild => \A p, q \in live, h, k \in Handles :
    resource_table[p][h] \in Slots /\ resource_table[p][h] = resource_table[q][k] => p = q /\ h = k

\* A handle reads on where it stopped, whatever other processes read of the same file
\* meanwhile, and whatever processes before it did with its slots.
ReadsContinue ==
  ~wild => \A p \in live, h \in Handles : resource_table[p][h] \in Slots =>
    vfs_opened_files[resource_table[p][h]].pos = got[p][h]

\* A process holds a handle without a file only once MAX_OPENED_FILES have been
\* opened; as nothing is closed, this stays so for ever.
OpenFailsOnlyWhenFull ==
  (\E p \in live, h \in Handles : resource_table[p][h] = NoFile)
    => \A i \in Slots : vfs_opened_files[i].name # <<>>

\* The name of a file opens that file, in an archive whose names all differ in some
\* character but the first that each of them has: strncmp skips the first one and
\* stops with the shorter name.
OpensTheNamedFile ==
  (\A i, j \in DOMAIN archive : i # j =>
      \E k \in (DOMAIN archive[i] \cap DOMAIN archive[j]) \ {1} : archive[i][k] # archive[j][k])
  => \A i \in Slots, j \in DOMAIN archive :
       vfs_opened_files[i].name = archive[j] => vfs_opened_files[i].file = j

=============================================================================
