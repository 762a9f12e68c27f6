--------------------------- MODULE VolumeManager ---------------------------
(***************************************************************************)
(* The volume manager of storage/volume_manager.c, with the volumes of     *)
(* storage/volume.c and the files of port/os_file.c it opens and reads:    *)
(* the configuration file is read block by block and parsed character by   *)
(* character, each line naming a volume to load, and the pages of the      *)
(* loaded volumes are allocated, freed, loaded and saved.  One thread      *)
(* calls.                                                                  *)
(*                                                                         *)
(* A file holds anything: a character is chosen when the parser looks at   *)
(* it.  A call that is interrupted (EINTR, EAGAIN) is repeated, a step     *)
(* that changes nothing.  recorded counts the records that SET_ERROR adds. *)
(***************************************************************************)

EXTENDS Integers, FiniteSets, SequencesExt

CONSTANTS
  Digit,         (* bound: the digits in a file, of "0" to "9"             *)
  Letter,        (* characters that have no meaning                        *)
  BUF_SIZE,      (* 1024                                                   *)
  LAST_VOLUME_TYPE,  (* 4                                                  *)
  Files,         (* the file descriptors of the process, positive          *)
  MaxNumber,     (* bound: of the numbers in a file                        *)
  PathRoom,      (* 127 characters of a path fit into its first buffer     *)
  MaxPath,       (* bound: characters of a path                            *)
  MaxLine,       (* bound: characters of a line, in front of a comment     *)
  MaxVolumes     (* bound: volumes; no line for another one is begun       *)

Digits == <<"0", "1", "2", "3", "4", "5", "6", "7", "8", "9">>

ASSUME VolumeManagerAssumption ==
  /\ Digit \subseteq {Digits[i] : i \in DOMAIN Digits}
  /\ Letter \cap (Digit \cup {"#", "newline", "blank", "quote", "end"}) = {}
  /\ BUF_SIZE \in Nat \ {0} /\ PathRoom \in Nat /\ Files \subseteq Nat \ {0}

VARIABLES
  manager,       (* manager_p: "none", "live", or "freed" and not NULL     *)
  conf_file_fd,  (* 0: not open                                            *)
  volumes,       (* the lists data_vol, log_vol, tmp_vol                   *)
  open,          (* the files that are open                                *)
  orphan,        (* those of volumes that no list holds                    *)
  at,            (* where initVolumeManager is; "rest" outside of it       *)
  status, id, type, path, field_len,   (* of parseVolumeConfFile           *)
  got,           (* bytes that readFile has read                           *)
  left,          (* bytes of the buffer that are not parsed                *)
  line,          (* what was read of the line, up to a comment             *)
  carried,       (* what id was at the start of the line                   *)
  call, answer,  (* the last call and what it returned                     *)
  recorded,      (* the errors it has recorded                             *)
  moved          (* it has read or written bytes of a page                 *)

managerVars == <<manager, conf_file_fd, volumes, open, orphan>>
parseVars   == <<status, id, type, path, field_len, line, carried>>
readVars    == <<got, left>>
callVars    == <<call, answer, recorded, moved>>
vars == <<managerVars, at, parseVars, readVars, callVars>>

NoVolumes == [data |-> <<>>, log |-> <<>>, tmp |-> <<>>]

Kinds == DOMAIN NoVolumes

Init ==
  /\ manager = "none" /\ conf_file_fd = 0 /\ volumes = NoVolumes
  /\ open = {} /\ orphan = {}
  /\ at = "rest"
  /\ status = "id_start" /\ id = 0 /\ type = 0 /\ path = <<>> /\ field_len = 0
  /\ line = <<>> /\ carried = 0
  /\ got = 0 /\ left = 0
  /\ call = "none" /\ answer = "ok" /\ recorded = 0 /\ moved = FALSE

-----------------------------------------------------------------------------
(* Volumes and lists                                                       *)

Loaded == UNION {Range(volumes[k]) : k \in Kinds}

(* open(2) gives the least descriptor that is not in use.                  *)
Least(S) == CHOOSE f \in S : \A g \in S : f <= g

NewFile == Least(Files \ open)
CanOpen == Files \ open # {}

Kind(t) == CASE t \in {0, 1} -> "data" [] t = 2 -> "log" [] OTHER -> "tmp"

(* Mutant of destroyVolume: the file stays open.                           *)
destroyVolumeKeepingFile(v) == {}

(* The file that destroyVolume closes.                                     *)
destroyVolume(v) == IF v.fd > 0 THEN {v.fd} ELSE {}

(* What destroyVolumeManager does: all is closed and freed, but kept.      *)
destroyAll(kept) ==
  /\ open' = (open \ ({conf_file_fd} \cup UNION {destroyVolume(v) : v \in Loaded})) \cup kept
  /\ conf_file_fd' = 0
  /\ volumes' = NoVolumes

(* closeFile records that it fails, which ends nothing.                    *)
Closing == 0..Cardinality(open \ orphan)

-----------------------------------------------------------------------------
(* initVolumeManager                                                       *)

Return(e, n, m) == answer' = e /\ recorded' = recorded + n /\ moved' = m

(* The locals of the parser are gone when it returns; status and line are  *)
(* kept up to the next call, for the properties.                           *)
ForgetFields ==
  /\ id' = 0 /\ type' = 0 /\ path' = <<>> /\ field_len' = 0 /\ carried' = 0
  /\ got' = 0 /\ left' = 0

Forget ==
  /\ ForgetFields
  /\ status' = "id_start" /\ line' = <<>>

(* Mutant of Fail: manager_p is not set to NULL.                           *)
FailLeavingManager(e, n, kept) ==
  /\ destroyAll(kept) /\ orphan' = orphan \cup kept
  /\ manager' = "freed" /\ at' = "rest"
  /\ ForgetFields /\ UNCHANGED <<status, call>>
  /\ \E closing \in Closing : Return(e, n + closing, FALSE)

(* Every error ends with destroyVolumeManager, where closeFile may add     *)
(* records of its own.  kept: files that no list holds.                    *)
Fail(e, n, kept) ==
  /\ destroyAll(kept) /\ orphan' = orphan \cup kept
  /\ manager' = "none" /\ at' = "rest"
  /\ ForgetFields /\ UNCHANGED <<status, call>>
  /\ \E closing \in Closing : Return(e, n + closing, FALSE)

Failing(e, n) == Fail(e, n, {})

(* A manager that is there is left as it is, also one that was freed.      *)
initVolumeManager ==
  /\ at = "rest"
  /\ call' = "init" /\ moved' = FALSE
  /\ \/ /\ manager = "none"
        /\ manager' = "live" /\ at' = "open"
        /\ answer' = "ok" /\ recorded' = 0
     \/ /\ manager = "none"
        /\ answer' = "memory" /\ recorded' = 1
        /\ UNCHANGED <<manager, at>>
     \/ /\ manager # "none"
        /\ answer' = "ok" /\ recorded' = 0
        /\ UNCHANGED <<manager, at>>
  /\ Forget
  /\ UNCHANGED <<conf_file_fd, volumes, open, orphan>>

OpenConf ==
  /\ at = "open" /\ CanOpen
  /\ conf_file_fd' = NewFile /\ open' = open \cup {NewFile}
  /\ at' = "strings"
  /\ UNCHANGED <<manager, volumes, orphan, parseVars, readVars, callVars>>

OpenConfFails ==
  /\ at = "open"
  /\ Failing("open", 1)
  /\ UNCHANGED line

(* conf_file_path, and path in the parser.                                 *)
InitStrings ==
  /\ at = "strings"
  /\ at' = "read"
  /\ UNCHANGED <<managerVars, parseVars, readVars, callVars>>

InitStringFails ==
  /\ at = "strings"
  /\ Failing("memory", 1)
  /\ UNCHANGED line

-----------------------------------------------------------------------------
(* readFile, with the reads that return less than is asked for             *)

ReadSome ==
  /\ at = "read"
  /\ \E n \in 1..(BUF_SIZE - got) :
        IF got + n < BUF_SIZE
        THEN got' = got + n /\ UNCHANGED <<at, left>>
        ELSE got' = 0 /\ left' = got + n /\ at' = "parse"
  /\ UNCHANGED <<managerVars, parseVars, callVars>>

(* At the end of the file, what was read before is parsed.                 *)
ReadEnd ==
  /\ at = "read" /\ got > 0
  /\ left' = got /\ got' = 0 /\ at' = "parse"
  /\ UNCHANGED <<managerVars, parseVars, callVars>>

ReadFails ==
  /\ at = "read"
  /\ Failing("read", 1)
  /\ UNCHANGED line

EndOfFile ==
  /\ at = "read" /\ got = 0
  /\ line' = Append(line, "end")
  /\ IF status \in {"id_start", "path_end", "comment"}
     THEN /\ at' = "rest" /\ Return("ok", 0, FALSE)
          /\ ForgetFields /\ UNCHANGED <<managerVars, status, call>>
     ELSE Failing("conf", 1)

-----------------------------------------------------------------------------
(* parseVolumeConfFile: the actions for the next character                 *)

value(d) == (CHOOSE i \in DOMAIN Digits : Digits[i] = d) - 1

Chars == Digit \cup Letter \cup {"#", "newline", "blank", "quote"}

Reads(c) == line' = IF status = "comment" THEN line ELSE Append(line, c)

Goes == IF left = 1 THEN "read" ELSE "parse"

(* After c the parser is in status s, with a field of n characters.        *)
Turn(c, s, n) ==
  /\ at = "parse" /\ at' = Goes
  /\ left' = left - 1
  /\ Reads(c) /\ Len(line') <= MaxLine
  /\ status' = s /\ field_len' = n
  /\ UNCHANGED <<got, callVars>>

Stays == UNCHANGED <<id, type, path, carried>>

StartsComment ==
  /\ status \in {"id_start", "path_end"}
  /\ Turn("#", "comment", field_len)
  /\ Stays /\ UNCHANGED managerVars

InComment ==
  /\ status = "comment"
  /\ \E c \in Chars \ {"newline", "quote"} : Turn(c, "comment", field_len)
  /\ Stays /\ UNCHANGED managerVars

(* Digits in front of a comment stay in id.                                *)
NewLine ==
  /\ status \in {"comment", "path_end"}
  /\ at = "parse" /\ at' = Goes
  /\ left' = left - 1
  /\ status' = "id_start" /\ field_len' = 0
  /\ line' = <<>> /\ carried' = id
  /\ UNCHANGED <<managerVars, id, type, path, got, callVars>>

EndOfId ==
  /\ status = "id_start" /\ field_len > 0
  /\ Turn("blank", "id_end", field_len)
  /\ Stays /\ UNCHANGED managerVars

(* Mutant of TypeIsKnown: off by one.                                      *)
TypeIsKnownOrLast == field_len > 0 /\ type <= LAST_VOLUME_TYPE

TypeIsKnown == field_len > 0 /\ type < LAST_VOLUME_TYPE

EndOfType ==
  /\ status = "type_start" /\ TypeIsKnown
  /\ Turn("blank", "type_end", field_len)
  /\ Stays /\ UNCHANGED managerVars

(* Blanks elsewhere do nothing, in a path too.                             *)
SkipBlank ==
  /\ status \in {"id_end", "type_end", "path_start", "path_end"}
  /\ Turn("blank", status, field_len)
  /\ Stays /\ UNCHANGED managerVars

IdDigit ==
  /\ status = "id_start" /\ Cardinality(Loaded) < MaxVolumes
  /\ \E d \in Digit :
        /\ id * 10 + value(d) <= MaxNumber
        /\ Turn(d, "id_start", field_len + 1)
        /\ id' = id * 10 + value(d)
  /\ UNCHANGED <<managerVars, type, path, carried>>

TypeDigit ==
  /\ status \in {"id_end", "type_start"}
  /\ \E d \in Digit :
        /\ type * 10 + value(d) <= MaxNumber
        /\ Turn(d, "type_start", IF status = "id_end" THEN 1 ELSE field_len + 1)
        /\ type' = type * 10 + value(d)
  /\ UNCHANGED <<managerVars, id, path, carried>>

StartsPath ==
  /\ status = "type_end"
  /\ Turn("quote", "path_start", 0)
  /\ Stays /\ UNCHANGED managerVars

PathByte ==
  /\ status = "path_start" /\ Len(path) < MaxPath
  /\ \E c \in Letter \cup Digit :
        /\ Turn(c, "path_start", field_len + 1)
        /\ path' = Append(path, c)
  /\ UNCHANGED <<managerVars, id, type, carried>>

(* appendByte asks for a larger buffer behind the first characters.  How   *)
(* many fit into it is left open.                                          *)
PathFails ==
  /\ at = "parse" /\ status = "path_start" /\ Len(path) >= PathRoom
  /\ Failing("memory", 1)
  /\ UNCHANGED line

(* loadVolume and addVolumeToManager.                                      *)
loadVolume(v) ==
  /\ open' = open \cup {v.fd}
  /\ volumes' = [volumes EXCEPT ![Kind(v.type)] = <<v>> \o @]

EndsPath == status = "path_start" /\ field_len > 0

EndOfPath ==
  /\ EndsPath /\ CanOpen
  /\ loadVolume([id |-> id, type |-> type, path |-> path, fd |-> NewFile])
  /\ Turn("quote", "path_end", field_len)
  /\ id' = 0 /\ type' = 0 /\ path' = <<>>
  /\ UNCHANGED <<manager, conf_file_fd, orphan, carried>>

(* loadVolume has no memory or cannot open the file, and has recorded it.  *)
LoadFails ==
  /\ at = "parse" /\ EndsPath
  /\ Failing("memory", 2)
  /\ UNCHANGED line

(* addVolumeToManager has no memory: nobody has the volume.                *)
ListFails ==
  /\ at = "parse" /\ EndsPath /\ CanOpen
  /\ Fail("memory", 1, {NewFile})
  /\ UNCHANGED line

(* ER_VM_CONF_ERROR                                                        *)
Refuses(c) ==
  CASE c = "#"       -> status \notin {"comment", "id_start", "path_end"}
    [] c = "newline" -> status \notin {"comment", "path_end"}
    [] c = "blank"   -> \/ status = "id_start" /\ field_len < 1
                        \/ status = "type_start" /\ ~TypeIsKnown
    [] c = "quote"   -> \/ status \notin {"type_end", "path_start"}
                        \/ status = "path_start" /\ field_len < 1
    [] c \in Digit   -> status \in {"type_end", "path_end"}
    [] OTHER         -> status \notin {"path_start", "comment"}

Refuse ==
  /\ at = "parse"
  /\ \E c \in Chars : Refuses(c) /\ Reads(c)
  /\ Failing("conf", 1)

-----------------------------------------------------------------------------
(* The calls of a manager.  An outcome is the returned code, the records,  *)
(* and whether bytes of a page were moved.  "bytes" is a count of bytes,   *)
(* which readFile and writeFile return and the callers take for an error.  *)

Outcome(e, n, m) == [error |-> e, records |-> n, moves |-> m]

(* seekFile of readFileFromOffset and writeFileToOffset records nothing.   *)
Seek == {Outcome("seek", 0, FALSE)}

(* The first field of the header is the last one that is written: its      *)
(* count is not NO_ERROR (write(2) returns 0 only if it is asked to).      *)
setVolumeHeader ==
  {Outcome("seek", 1, FALSE), Outcome("write", 1, FALSE), Outcome("bytes", 0, FALSE)}

(* NO_ERROR only from an empty file, with fields that nobody has set.      *)
HeaderFails ==
  {Outcome("seek", 1, FALSE), Outcome("read", 1, FALSE), Outcome("bytes", 0, FALSE)}

allocPagesFromVolume ==
  HeaderFails \cup {Outcome("not_enough", 1, FALSE)} \cup Seek
    \cup {Outcome("read", 1, FALSE)} \cup setVolumeHeader

freePagesToVolume ==
  HeaderFails \cup Seek \cup {Outcome("write", 1, FALSE)} \cup setVolumeHeader

(* Nothing is read behind the end of the file, and that is NO_ERROR.  A    *)
(* failure may come after a part of the page.                              *)
loadPageFromVolume ==
  Seek \cup {Outcome("read", 1, part) : part \in BOOLEAN}
       \cup {Outcome("bytes", 0, TRUE), Outcome("ok", 0, FALSE)}

savePageToVolume ==
  Seek \cup {Outcome("write", 1, part) : part \in BOOLEAN} \cup {Outcome("bytes", 0, TRUE)}

Called(c) ==
  /\ at = "rest" /\ manager = "live"
  /\ call' = c
  /\ Forget
  /\ UNCHANGED <<managerVars, at>>

Answer(o) == answer' = o.error /\ recorded' = o.records /\ moved' = o.moves

(* It returns the first of these in the lists, or NULL.                    *)
getVolumeById(n) == {v \in Loaded : v.id = n}

(* Every volume of the kind is tried; the error of the last one is         *)
(* returned.  None of them gives NO_ERROR.                                 *)
allocPages(k) ==
  /\ volumes[k] # <<>>
  /\ \E o \in allocPagesFromVolume, others \in 0..(Len(volumes[k]) - 1) :
        Answer([o EXCEPT !.records = @ + others])
  /\ Called("alloc")

NoVolumeOfType(k) ==
  /\ volumes[k] = <<>>
  /\ Answer(Outcome("no_type", 1, FALSE))
  /\ Called("alloc")

(* Pages are freed volume by volume, up to the first that fails, which is  *)
(* the first.                                                              *)
freePages(n) ==
  /\ getVolumeById(n) # {}
  /\ \E o \in freePagesToVolume : Answer(o)
  /\ Called("free")

loadPage(n) ==
  /\ getVolumeById(n) # {}
  /\ \E o \in loadPageFromVolume : Answer(o)
  /\ Called("load")

savePage(n) ==
  /\ getVolumeById(n) # {}
  /\ \E o \in savePageToVolume : Answer(o)
  /\ Called("save")

(* manager_p keeps pointing to what is freed here.                         *)
destroyVolumeManager ==
  /\ at = "rest" /\ manager = "live"
  /\ destroyAll({})
  /\ manager' = "freed"
  /\ call' = "destroy" /\ answer' = "ok" /\ moved' = FALSE
  /\ recorded' \in Closing
  /\ Forget
  /\ UNCHANGED <<orphan, at>>

-----------------------------------------------------------------------------

Parse ==
  \/ StartsComment \/ InComment \/ NewLine
  \/ IdDigit \/ EndOfId \/ TypeDigit \/ EndOfType
  \/ StartsPath \/ PathByte \/ PathFails \/ EndOfPath \/ LoadFails \/ ListFails
  \/ SkipBlank
  \/ Refuse

Next ==
  \/ initVolumeManager \/ OpenConf \/ OpenConfFails \/ InitStrings \/ InitStringFails
  \/ ReadSome \/ ReadEnd \/ ReadFails \/ EndOfFile
  \/ Parse
  \/ \E k \in Kinds : allocPages(k) \/ NoVolumeOfType(k)
  \/ \E n \in 0..MaxNumber : freePages(n) \/ loadPage(n) \/ savePage(n)
  \/ destroyVolumeManager

Spec == Init /\ [][Next]_vars

-----------------------------------------------------------------------------
(* Properties                                                              *)

TypeOK ==
  /\ manager \in {"none", "live", "freed"}
  /\ open \subseteq Files /\ orphan \subseteq Files /\ conf_file_fd \in Files \cup {0}
  /\ at \in {"rest", "open", "strings", "read", "parse"}
  /\ got \in 0..(BUF_SIZE - 1) /\ left \in 0..BUF_SIZE
  /\ \A k \in Kinds : \A v \in Range(volumes[k]) :
        v.fd \in Files /\ v.type < LAST_VOLUME_TYPE /\ Kind(v.type) = k

(* The length of the run of characters of S in l that starts at k.         *)
Run(l, k, S) ==
  CHOOSE n \in 0..Len(l) :
    /\ \A i \in k..(k + n - 1) : i \in DOMAIN l /\ l[i] \in S
    /\ k + n <= Len(l) => l[k + n] \notin S

(* The number that the digits of s lead to from another one.               *)
Number(from, s) ==
  LET n[i \in 0..Len(s)] == IF i = 0 THEN from ELSE n[i - 1] * 10 + value(s[i])
  IN  n[Len(s)]

(* A path without its blanks.                                              *)
Bare(s) ==
  LET p[i \in 0..Len(s)] ==
        IF i = 0 THEN <<>> ELSE IF s[i] = "blank" THEN p[i - 1] ELSE Append(p[i - 1], s[i])
  IN  p[Len(s)]

(* What the comment of the parser calls its format, volume_id volume_type  *)
(* "volume_path", with the ends of the fields in a line; blanks in a path  *)
(* are left out.                                                           *)
Fields(l) ==
  LET a == Run(l, 1, Digit)
      b == a + Run(l, a + 1, {"blank"})
      c == b + Run(l, b + 1, Digit)
      d == c + Run(l, c + 1, {"blank"}) + 1
      e == d + Run(l, d + 1, Digit \cup Letter \cup {"blank"}) + 1
  IN  [id |-> SubSeq(l, 1, a), type |-> SubSeq(l, b + 1, c),
       path |-> Bare(SubSeq(l, d + 1, e - 1)),
       well_formed |->
         /\ a > 0 /\ b > a /\ c > b /\ d > c + 1
         /\ e <= Len(l) /\ l[d] = "quote" /\ l[e] = "quote"
         /\ e + Run(l, e + 1, {"blank"}) = Len(l)]

IsVolumeLine(l) ==
  LET f == Fields(l)
  IN  f.well_formed /\ f.path # <<>> /\ Number(0, f.type) < LAST_VOLUME_TYPE

(* What completes the beginning of a line to the line of a volume.         *)
Completions ==
  UNION {LET whole == <<d, "blank", d, "blank", "quote", x, "quote">>
         IN  {SubSeq(whole, i, 7) : i \in 1..8} : d \in Digit, x \in Letter}

Is(v, f) ==
  /\ v.type = Number(0, f.type) /\ v.path = f.path
  /\ v.id = Number(carried, f.id)

(* However the file is cut into reads and buffers, a volume is loaded for  *)
(* each line "volume_id volume_type "volume_path"" (line 60 of the source) *)
(* with these fields, and for no other line, except that digits in front   *)
(* of a comment get into the id of the next volume; and a file is refused  *)
(* only at a line that cannot be continued to such a line, or in a comment *)
(* (with a quote in it).                                                   *)
ReadsFormat ==
  /\ at # "rest" /\ status = "path_end" =>
        /\ IsVolumeLine(line)
        /\ LET f == Fields(line) IN Is(Head(volumes[Kind(Number(0, f.type))]), f)
  /\ at # "rest" /\ status = "comment" =>
        \/ IsVolumeLine(Front(line))
        \/ \A i \in 1..(Len(line) - 1) : line[i] \in Digit
  /\ at = "rest" /\ answer = "conf" =>
        status = "comment" \/ \A t \in Completions : ~IsVolumeLine(line \o t)

(* A file is open exactly as long as the manager or a volume in its lists  *)
(* has it, and no two of them have the same: every failure of the          *)
(* initialization, at whatever line, closes what was opened up to then,    *)
(* except the file of a volume whose list node could not be allocated.     *)
OpenFilesOwned ==
  /\ TypeOK
  /\ open = orphan \cup ({conf_file_fd} \ {0}) \cup {v.fd : v \in Loaded}
  /\ Cardinality(open) = Cardinality(orphan) + Cardinality(Loaded)
                           + (IF conf_file_fd = 0 THEN 0 ELSE 1)
  /\ at = "rest" /\ manager # "live" => open = orphan

(* What a caller learns is what has happened: initVolumeManager returns    *)
(* NO_ERROR if and only if there is a manager (which may be a freed one if *)
(* it was destroyed before) and nothing was recorded; every call that      *)
(* fails has recorded an error, unless its error is the count of bytes of  *)
(* readFile or writeFile or comes from seekFile; and NO_ERROR of a call    *)
(* for pages never means that a page was read or written.                  *)
AnswersAndRecords ==
  at = "rest" =>
    /\ call = "init" => (answer = "ok" <=> manager # "none") /\ (answer = "ok" <=> recorded = 0)
    /\ recorded = 0 => answer \in {"ok", "bytes", "seek"}
    /\ call \in {"alloc", "free", "load", "save"} /\ answer = "ok" => ~moved /\ call = "load"

=============================================================================
