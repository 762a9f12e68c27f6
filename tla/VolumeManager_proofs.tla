------------------------ MODULE VolumeManager_proofs ------------------------
(***************************************************************************)
(* The volume manager of storage/volume_manager.c closes every file that   *)
(* nobody can use any more and tells its caller what has happened, for     *)
(* every configuration file, size of the buffer and set of descriptors.    *)
(*                                                                         *)
(* Every open file belongs to the configuration, to one volume of a list   *)
(* or to a volume that was lost, and no file to two of them: then closing  *)
(* what is in the lists leaves the lost ones.  While the configuration is  *)
(* read there is a live manager and nothing is recorded, so that a failure *)
(* is always the first one.                                                *)
(*                                                                         *)
(* The parser knows what it has read: in each of its states the line so    *)
(* far has the shape of the beginning of a line, and the fields are the    *)
(* numbers and the path in it.  A line has one shape, so that from each    *)
(* place the line of a volume goes on only with what is not refused there. *)
(***************************************************************************)

EXTENDS VolumeManager, FiniteSetTheorems, SequenceTheorems, WellFoundedInduction, TLAPS

Volume == [id : Nat, type : Nat, path : Seq(Letter \cup Digit), fd : Files]

Descriptors == {v.fd : v \in Loaded}

(* Who has which file.  Only managerVars are spoken of.                    *)
Ownership ==
  /\ manager \in {"none", "live", "freed"}
  /\ open \subseteq Files /\ IsFiniteSet(open)
  /\ conf_file_fd \in Files \cup {0}
  /\ volumes \in [Kinds -> Seq(Volume)]
  /\ \A k \in Kinds : \A v \in Range(volumes[k]) :
        v.type < LAST_VOLUME_TYPE /\ Kind(v.type) = k
  /\ open = orphan \cup ({conf_file_fd} \ {0}) \cup Descriptors
  /\ conf_file_fd \notin orphan \cup Descriptors
  /\ orphan \cap Descriptors = {}
  /\ \A v, w \in Loaded : v.fd = w.fd => v = w
  /\ manager # "live" => conf_file_fd = 0 /\ Loaded = {}

(* Where the initialization is.                                            *)
Reading ==
  /\ at \in {"rest", "open", "strings", "read", "parse"}
  /\ got \in 0..(BUF_SIZE - 1) /\ left \in 0..BUF_SIZE
  /\ id \in Nat /\ type \in Nat /\ path \in Seq(Letter \cup Digit)
  /\ at # "rest" => manager = "live" /\ call = "init" /\ recorded = 0
  /\ at = "open" => conf_file_fd = 0
  /\ at = "parse" => left > 0
  /\ at # "rest" /\ status \in {"type_end", "path_start"} => type < LAST_VOLUME_TYPE

Answers == recorded \in Nat /\ AnswersAndRecords

IInv == Ownership /\ Reading /\ Answers

-----------------------------------------------------------------------------
(* The operators                                                           *)

LEMMA KindsAre == Kinds = {"data", "log", "tmp"}
BY DEF Kinds, NoVolumes

LEMMA KindIsKnown == ASSUME NEW t PROVE Kind(t) \in Kinds
<1>1. Kind(t) = "data" \/ Kind(t) = "log" \/ Kind(t) = "tmp"
  BY DEF Kind
<1>2. QED
  BY <1>1, KindsAre

(* A descriptor is chosen that is not in use.                              *)
LEMMA NewFileIs ==
  ASSUME CanOpen
  PROVE  NewFile \in Files /\ NewFile \notin open
<1> DEFINE F == Files \ open
<1>1. F \subseteq Nat /\ F # {}
  BY VolumeManagerAssumption DEF CanOpen
<1>2. \E f \in F : \A g \in F : ~(<<g, f>> \in OpToRel(<, Nat))
  BY <1>1, WFMin, NatLessThanWellFounded
<1>3. PICK f \in F : \A g \in F : ~(<<g, f>> \in OpToRel(<, Nat))
  BY <1>2
<1>4. ASSUME NEW g \in F PROVE f <= g
  <2>1. f \in Nat /\ g \in Nat
    BY <1>1
  <2>2. ~(g < f)
    BY <1>3, <2>1 DEF OpToRel
  <2>3. QED
    BY <2>1, <2>2
<1>5. Least(F) \in F
  BY <1>4 DEF Least
<1>6. QED
  BY <1>5 DEF NewFile

LEMMA ValueIs == ASSUME NEW d \in Digit PROVE value(d) \in Nat
<1> DEFINE j == CHOOSE i \in DOMAIN Digits : Digits[i] = d
<1>1. \E i \in DOMAIN Digits : Digits[i] = d
  BY VolumeManagerAssumption
<1>2. j \in DOMAIN Digits
  BY <1>1
<1>3. DOMAIN Digits = 1..10
  BY DEF Digits
<1>4. value(d) = j - 1
  BY DEF value
<1> HIDE DEF j
<1>5. QED
  BY <1>2, <1>3, <1>4

LEMMA Prepended ==
  ASSUME NEW T, NEW s \in Seq(T), NEW v \in T
  PROVE  <<v>> \o s \in Seq(T) /\ Range(<<v>> \o s) = {v} \cup Range(s)
<1>1. <<v>> \in Seq(T) /\ Len(<<v>>) = 1 /\ <<v>>[1] = v
  OBVIOUS
<1>2. /\ <<v>> \o s \in Seq(T) /\ Len(<<v>> \o s) = 1 + Len(s) /\ Len(s) \in Nat
      /\ \A i \in 1..(1 + Len(s)) : (<<v>> \o s)[i] = IF i <= 1 THEN <<v>>[i] ELSE s[i - 1]
  BY <1>1, ConcatProperties, LenProperties
<1>3. DOMAIN (<<v>> \o s) = 1..(1 + Len(s)) /\ DOMAIN s = 1..Len(s)
  BY <1>2, LenProperties
<1>4. (<<v>> \o s)[1] = v /\ 1 \in DOMAIN (<<v>> \o s)
  BY <1>1, <1>2, <1>3
<1>5. ASSUME NEW i \in DOMAIN s
      PROVE  i + 1 \in DOMAIN (<<v>> \o s) /\ (<<v>> \o s)[i + 1] = s[i]
  BY <1>2, <1>3
<1>6. ASSUME NEW i \in DOMAIN (<<v>> \o s), i # 1
      PROVE  i - 1 \in DOMAIN s /\ (<<v>> \o s)[i] = s[i - 1]
  BY <1>2, <1>3, <1>6
<1>7. ASSUME NEW x \in Range(<<v>> \o s) PROVE x \in {v} \cup Range(s)
  <2>1. PICK i \in DOMAIN (<<v>> \o s) : x = (<<v>> \o s)[i]
    BY DEF Range
  <2>2. QED
    BY <1>4, <1>6, <2>1 DEF Range
<1>8. ASSUME NEW x \in {v} \cup Range(s) PROVE x \in Range(<<v>> \o s)
  BY <1>4, <1>5 DEF Range
<1>9. QED
  BY <1>2, <1>7, <1>8

-----------------------------------------------------------------------------
(* Files                                                                   *)

LEMMA SameFiles ==
  ASSUME Ownership, UNCHANGED managerVars
  PROVE  Ownership'
BY DEF Ownership, managerVars, Descriptors, Loaded

LEMMA EmptyLists ==
  /\ \A k \in Kinds : NoVolumes[k] = <<>> /\ Range(NoVolumes[k]) = {}
  /\ NoVolumes \in [Kinds -> Seq(Volume)]
<1>1. ASSUME NEW k \in Kinds PROVE NoVolumes[k] = <<>>
  BY KindsAre DEF NoVolumes
<1>2. Range(<<>>) = {} /\ <<>> \in Seq(Volume)
  BY DEF Range
<1>3. NoVolumes = [k \in Kinds |-> <<>>]
  BY KindsAre DEF NoVolumes
<1>4. QED
  BY <1>1, <1>2, <1>3

LEMMA NothingLoaded ==
  ASSUME volumes = NoVolumes
  PROVE  Loaded = {} /\ Descriptors = {}
BY EmptyLists DEF Loaded, Descriptors

LEMMA NothingLoadedAfter == (volumes = NoVolumes)' => (Loaded = {} /\ Descriptors = {})'
<1>1. volumes = NoVolumes => Loaded = {} /\ Descriptors = {}
  BY NothingLoaded
<1>2. QED
  BY <1>1, PTL

LEMMA LoadedAre ==
  ASSUME Ownership, NEW v \in Loaded
  PROVE  v \in Volume /\ v.fd \in Files /\ v.fd \in Descriptors
<1>1. PICK k \in Kinds : v \in Range(volumes[k])
  BY DEF Loaded
<1>2. volumes[k] \in Seq(Volume)
  BY DEF Ownership
<1>3. v \in Volume
  BY <1>1, <1>2, LenProperties, ElementOfSeq DEF Range
<1>4. QED
  BY <1>3 DEF Volume, Descriptors

(* destroyVolumeManager leaves the files that no list holds.               *)
LEMMA ClosesTheRest ==
  ASSUME Ownership, NEW kept, kept \subseteq Files \ open, IsFiniteSet(kept),
         destroyAll(kept), orphan' = orphan \cup kept, manager' \in {"none", "freed"}
  PROVE  Ownership'
<1>1. UNION {destroyVolume(v) : v \in Loaded} = Descriptors
  <2>1. ASSUME NEW v \in Loaded PROVE destroyVolume(v) = {v.fd}
    BY LoadedAre, VolumeManagerAssumption DEF destroyVolume
  <2>2. QED
    BY <2>1 DEF Descriptors
<1>2. 0 \notin Files
  BY VolumeManagerAssumption
<1>3. open \ ({conf_file_fd} \cup Descriptors) = orphan
  BY <1>2 DEF Ownership
<1>4. open' = orphan \cup kept /\ conf_file_fd' = 0 /\ volumes' = NoVolumes
  BY <1>1, <1>3 DEF destroyAll
<1>5. Loaded' = {} /\ Descriptors' = {}
  BY <1>4, NothingLoadedAfter
<1>6. IsFiniteSet(open') /\ open' \subseteq Files /\ 0 \notin orphan'
  <2>1. orphan \subseteq open
    BY DEF Ownership
  <2>2. IsFiniteSet(orphan)
    BY <2>1, FS_Subset DEF Ownership
  <2>3. IsFiniteSet(orphan \cup kept)
    BY <2>2, FS_Union
  <2>4. QED
    BY <1>2, <1>4, <2>1, <2>3 DEF Ownership
<1>7. volumes' \in [Kinds -> Seq(Volume)]
      /\ \A k \in Kinds : Range(volumes'[k]) = {}
  BY <1>4, EmptyLists
<1>8. QED
  BY <1>4, <1>5, <1>6, <1>7 DEF Ownership

LEMMA ClosingIs ==
  ASSUME Ownership, NEW n \in Closing
  PROVE  n \in Nat
<1>1. IsFiniteSet(open \ orphan)
  BY FS_Difference DEF Ownership
<1>2. Cardinality(open \ orphan) \in Nat
  BY <1>1, FS_CardinalityType
<1>3. QED
  BY <1>2 DEF Closing

(* A failure of the initialization.                                        *)
LEMMA FailInv ==
  ASSUME IInv, at # "rest", NEW e \in {"open", "memory", "read", "conf"}, NEW n \in Nat \ {0},
         NEW kept, kept \subseteq Files \ open, IsFiniteSet(kept), Fail(e, n, kept)
  PROVE  IInv'
<1>1. Ownership'
  BY ClosesTheRest DEF IInv, Fail
<1>2. PICK closing \in Closing : Return(e, n + closing, FALSE)
  BY DEF Fail
<1>3. closing \in Nat /\ recorded = 0 /\ call = "init"
  BY ClosingIs DEF IInv, Reading
<1>4. /\ recorded' = n + closing /\ answer' = e /\ moved' = FALSE /\ call' = "init"
      /\ manager' = "none" /\ at' = "rest"
  BY <1>2, <1>3 DEF Fail, Return
<1>5. Answers'
  BY <1>3, <1>4 DEF Answers, AnswersAndRecords
<1>6. Reading'
  BY <1>4, VolumeManagerAssumption DEF Reading, Fail, ForgetFields
<1>7. QED
  BY <1>1, <1>5, <1>6 DEF IInv

LEMMA FailingInv ==
  ASSUME IInv, at # "rest", NEW e \in {"open", "memory", "read", "conf"}, NEW n \in Nat \ {0},
         Failing(e, n)
  PROVE  IInv'
BY FailInv, FS_EmptySet DEF Failing
-----------------------------------------------------------------------------
(* The start of the initialization                                         *)

LEMMA StartInv ==
  ASSUME Init
  PROVE  IInv
<1>1. Ownership
  BY NothingLoaded, EmptyLists, FS_EmptySet DEF Init, Ownership
<1>2. Reading
  BY VolumeManagerAssumption DEF Init, Reading
<1>3. Answers
  BY DEF Init, Answers, AnswersAndRecords
<1>4. QED
  BY <1>1, <1>2, <1>3 DEF IInv

LEMMA InitVolumeManagerInv ==
  ASSUME IInv, initVolumeManager
  PROVE  IInv'
<1>1. UNCHANGED <<conf_file_fd, volumes, open, orphan>>
  BY DEF initVolumeManager
<1>2. Loaded' = Loaded /\ Descriptors' = Descriptors
  BY <1>1 DEF Loaded, Descriptors
<1>3. manager' \in {"live", manager} /\ (manager = "none" \/ manager' = manager)
  BY DEF initVolumeManager
<1>4. Ownership'
  BY <1>1, <1>2, <1>3 DEF IInv, Ownership
<1>5. recorded' \in Nat /\ got' = 0 /\ left' = 0 /\ id' = 0 /\ type' = 0 /\ path' = <<>>
      /\ status' = "id_start" /\ call' = "init"
  BY DEF initVolumeManager, Forget, ForgetFields
<1>6. at' = "rest" \/ (at' = "open" /\ manager = "none" /\ manager' = "live" /\ recorded' = 0)
  BY DEF initVolumeManager
<1>7. Reading'
  BY <1>1, <1>5, <1>6, VolumeManagerAssumption DEF IInv, Ownership, Reading
<1>8. Answers'
  BY <1>5 DEF Answers, AnswersAndRecords, initVolumeManager
<1>9. QED
  BY <1>4, <1>7, <1>8 DEF IInv

LEMMA OpenConfInv ==
  ASSUME IInv, OpenConf
  PROVE  IInv'
<1>1. NewFile \in Files /\ NewFile \notin open
  BY NewFileIs DEF OpenConf
<1>2. /\ open' = open \cup {NewFile} /\ conf_file_fd' = NewFile /\ conf_file_fd = 0
      /\ manager = "live" /\ at' = "strings"
      /\ UNCHANGED <<manager, volumes, orphan, parseVars, readVars, callVars>>
  BY DEF OpenConf, IInv, Reading
<1>3. Loaded' = Loaded /\ Descriptors' = Descriptors
  BY <1>2 DEF Loaded, Descriptors
<1>4. IsFiniteSet(open')
  BY <1>2, FS_AddElement DEF IInv, Ownership
<1>5. 0 \notin Files
  BY VolumeManagerAssumption
<1>6. Ownership'
  BY <1>1, <1>2, <1>3, <1>4, <1>5 DEF IInv, Ownership
<1>7. Reading'
  BY <1>2 DEF IInv, Reading, parseVars, readVars, callVars, OpenConf
<1>8. Answers'
  BY <1>2 DEF IInv, Answers, AnswersAndRecords, callVars
<1>9. QED
  BY <1>6, <1>7, <1>8 DEF IInv

-----------------------------------------------------------------------------
(* Reading and parsing                                                     *)

(* A step that goes on with the initialization and keeps the files.        *)
LEMMA GoesOn ==
  ASSUME IInv, UNCHANGED <<managerVars, callVars>>, at # "rest", at' \in {"read", "parse"}, Reading'
  PROVE  IInv'
<1>1. Ownership'
  BY SameFiles DEF IInv
<1>2. Answers'
  BY DEF IInv, Answers, AnswersAndRecords, callVars
<1>3. QED
  BY <1>1, <1>2 DEF IInv

LEMMA InitStringsInv ==
  ASSUME IInv, InitStrings
  PROVE  IInv'
<1>1. Reading'
  BY DEF IInv, Reading, InitStrings, managerVars, parseVars, readVars, callVars
<1>2. QED
  BY <1>1, GoesOn DEF InitStrings

LEMMA ReadSomeInv ==
  ASSUME IInv, ReadSome
  PROVE  IInv'
<1>1. PICK n \in 1..(BUF_SIZE - got) :
        IF got + n < BUF_SIZE
        THEN got' = got + n /\ UNCHANGED <<at, left>>
        ELSE got' = 0 /\ left' = got + n /\ at' = "parse"
  BY DEF ReadSome
<1>2. BUF_SIZE \in Nat \ {0} /\ got \in 0..(BUF_SIZE - 1) /\ left \in 0..BUF_SIZE /\ at = "read"
  BY VolumeManagerAssumption DEF IInv, Reading, ReadSome
<1>3. /\ got' \in 0..(BUF_SIZE - 1) /\ left' \in 0..BUF_SIZE
      /\ at' = "read" \/ (at' = "parse" /\ left' > 0)
  BY <1>1, <1>2
<1>4. UNCHANGED <<managerVars, parseVars, callVars>>
  BY DEF ReadSome
<1>5. Reading'
  BY <1>2, <1>3, <1>4 DEF IInv, Reading, managerVars, parseVars, callVars
<1>6. QED
  BY <1>2, <1>3, <1>4, <1>5, GoesOn

LEMMA ReadEndInv ==
  ASSUME IInv, ReadEnd
  PROVE  IInv'
<1>1. UNCHANGED <<managerVars, parseVars, callVars>> /\ at = "read" /\ at' = "parse"
  BY DEF ReadEnd
<1>2. Reading'
  BY <1>1, VolumeManagerAssumption DEF IInv, Reading, ReadEnd, managerVars, parseVars, callVars
<1>3. QED
  BY <1>1, <1>2, GoesOn

LEMMA EndOfFileInv ==
  ASSUME IInv, EndOfFile
  PROVE  IInv'
<1>1. CASE Failing("conf", 1)
  BY <1>1, FailingInv DEF EndOfFile
<1>2. CASE /\ at' = "rest" /\ Return("ok", 0, FALSE)
           /\ ForgetFields /\ UNCHANGED <<managerVars, status, call>>
  <2>1. manager = "live" /\ recorded = 0 /\ call = "init"
    BY DEF IInv, Reading, EndOfFile
  <2>2. /\ recorded' = 0 /\ answer' = "ok" /\ moved' = FALSE /\ call' = "init"
        /\ manager' = "live" /\ at' = "rest"
    BY <1>2, <2>1 DEF Return, managerVars
  <2>3. Ownership'
    BY <1>2, SameFiles DEF IInv
  <2>4. Reading'
    BY <1>2, <2>2, VolumeManagerAssumption DEF Reading, ForgetFields
  <2>5. Answers'
    BY <2>2 DEF Answers, AnswersAndRecords
  <2>6. QED
    BY <2>3, <2>4, <2>5 DEF IInv
<1>3. QED
  BY <1>1, <1>2 DEF EndOfFile

(* What a character does to the place in the buffer.                       *)
LEMMA TurnIs ==
  ASSUME IInv, NEW c, NEW s, NEW n, Turn(c, s, n)
  PROVE  /\ at = "parse" /\ at' \in {"read", "parse"} /\ status' = s /\ UNCHANGED callVars
         /\ got' \in 0..(BUF_SIZE - 1) /\ left' \in 0..BUF_SIZE /\ (at' = "parse" => left' > 0)
<1>1. /\ at = "parse" /\ left \in 0..BUF_SIZE /\ left > 0 /\ BUF_SIZE \in Nat
      /\ got \in 0..(BUF_SIZE - 1)
  BY VolumeManagerAssumption DEF IInv, Reading, Turn
<1>2. left' = left - 1 /\ got' = got /\ at' = IF left = 1 THEN "read" ELSE "parse"
  BY DEF Turn, Goes
<1>3. QED
  BY <1>1, <1>2 DEF Turn

(* A character that keeps the files and leads to a known type.             *)
LEMMA TurnInv ==
  ASSUME IInv, NEW c, NEW s, NEW n, Turn(c, s, n), UNCHANGED managerVars,
         id' \in Nat, type' \in Nat, path' \in Seq(Letter \cup Digit),
         s \in {"type_end", "path_start"} => type' < LAST_VOLUME_TYPE
  PROVE  IInv'
<1>1. /\ at = "parse" /\ at' \in {"read", "parse"} /\ status' = s /\ UNCHANGED callVars
      /\ got' \in 0..(BUF_SIZE - 1) /\ left' \in 0..BUF_SIZE /\ (at' = "parse" => left' > 0)
  BY TurnIs
<1>2. manager' = "live" /\ call' = "init" /\ recorded' = 0
  BY <1>1 DEF IInv, Reading, managerVars, callVars
<1>3. Reading'
  BY <1>1, <1>2 DEF Reading
<1>4. QED
  BY <1>1, <1>3, GoesOn

(* A character that changes no field.                                      *)
LEMMA TurnStays ==
  ASSUME IInv, NEW c, NEW s, NEW n, Turn(c, s, n), UNCHANGED managerVars, Stays,
         s \in {"type_end", "path_start"} =>
            type < LAST_VOLUME_TYPE \/ status \in {"type_end", "path_start"}
  PROVE  IInv'
<1>1. id' \in Nat /\ type' = type /\ type \in Nat /\ path' \in Seq(Letter \cup Digit)
  BY DEF Stays, IInv, Reading
<1>2. at # "rest"
  BY TurnIs
<1>3. s \in {"type_end", "path_start"} => type' < LAST_VOLUME_TYPE
  BY <1>1, <1>2 DEF IInv, Reading
<1>4. QED
  BY <1>1, <1>3, TurnInv

LEMMA CharacterInv ==
  ASSUME IInv,
         StartsComment \/ InComment \/ EndOfId \/ EndOfType \/ SkipBlank \/ StartsPath
  PROVE  IInv'
<1>1. CASE StartsComment
  BY <1>1, TurnStays DEF StartsComment
<1>2. CASE InComment
  <2>1. PICK c : Turn(c, "comment", field_len)
    BY <1>2 DEF InComment
  <2>2. QED
    BY <1>2, <2>1, TurnStays DEF InComment
<1>3. CASE EndOfId
  BY <1>3, TurnStays DEF EndOfId
<1>4. CASE EndOfType
  BY <1>4, TurnStays DEF EndOfType, TypeIsKnown
<1>5. CASE SkipBlank
  BY <1>5, TurnStays DEF SkipBlank
<1>6. CASE StartsPath
  BY <1>6, TurnStays DEF StartsPath
<1>7. QED
  BY <1>1, <1>2, <1>3, <1>4, <1>5, <1>6

LEMMA NewLineInv ==
  ASSUME IInv, NewLine
  PROVE  IInv'
<1>1. /\ at = "parse" /\ left \in 0..BUF_SIZE /\ left > 0 /\ BUF_SIZE \in Nat
      /\ left' = left - 1 /\ at' = IF left = 1 THEN "read" ELSE "parse"
  BY VolumeManagerAssumption DEF IInv, Reading, NewLine, Goes
<1>2. left' \in 0..BUF_SIZE /\ (at' = "parse" => left' > 0) /\ at' \in {"read", "parse"}
  BY <1>1
<1>3. status' = "id_start" /\ UNCHANGED <<managerVars, id, type, path, got, callVars>>
  BY DEF NewLine
<1>4. Reading'
  BY <1>1, <1>2, <1>3 DEF IInv, Reading, managerVars, callVars
<1>5. QED
  BY <1>1, <1>2, <1>3, <1>4, GoesOn

LEMMA IdDigitInv ==
  ASSUME IInv, IdDigit
  PROVE  IInv'
<1>1. PICK d \in Digit : Turn(d, "id_start", field_len + 1) /\ id' = id * 10 + value(d)
  BY DEF IdDigit
<1>2. id' \in Nat /\ type' \in Nat /\ path' \in Seq(Letter \cup Digit)
  BY <1>1, ValueIs DEF IInv, Reading, IdDigit
<1>3. UNCHANGED managerVars
  BY DEF IdDigit
<1>4. QED
  BY <1>1, <1>2, <1>3, TurnInv

LEMMA TypeDigitInv ==
  ASSUME IInv, TypeDigit
  PROVE  IInv'
<1>1. PICK d \in Digit :
        /\ Turn(d, "type_start", IF status = "id_end" THEN 1 ELSE field_len + 1)
        /\ type' = type * 10 + value(d)
  BY DEF TypeDigit
<1>2. id' \in Nat /\ type' \in Nat /\ path' \in Seq(Letter \cup Digit)
  BY <1>1, ValueIs DEF IInv, Reading, TypeDigit
<1>3. UNCHANGED managerVars
  BY DEF TypeDigit
<1>4. QED
  BY <1>1, <1>2, <1>3, TurnInv

LEMMA PathByteInv ==
  ASSUME IInv, PathByte
  PROVE  IInv'
<1>1. PICK c \in Letter \cup Digit :
        Turn(c, "path_start", field_len + 1) /\ path' = Append(path, c)
  BY DEF PathByte
<1>2. path \in Seq(Letter \cup Digit)
  BY DEF IInv, Reading
<1>3. path' \in Seq(Letter \cup Digit)
  BY <1>1, <1>2
<1>4. at # "rest"
  BY <1>1, TurnIs
<1>5. id' \in Nat /\ type' \in Nat /\ type' < LAST_VOLUME_TYPE
  BY <1>4 DEF IInv, Reading, PathByte
<1>6. UNCHANGED managerVars
  BY DEF PathByte
<1>7. QED
  BY <1>1, <1>3, <1>5, <1>6, TurnInv

(* The volume of a line gets a descriptor that nobody has.                 *)
LEMMA EndOfPathInv ==
  ASSUME IInv, EndOfPath
  PROVE  IInv'
<1> DEFINE v == [id |-> id, type |-> type, path |-> path, fd |-> NewFile]
           K == Kind(type)
<1>1. /\ Turn("quote", "path_end", field_len)
      /\ open' = open \cup {NewFile}
      /\ volumes' = [volumes EXCEPT ![K] = <<v>> \o @]
      /\ id' = 0 /\ type' = 0 /\ path' = <<>>
      /\ UNCHANGED <<manager, conf_file_fd, orphan>>
      /\ status = "path_start"
  BY DEF EndOfPath, loadVolume, EndsPath
<1>2. NewFile \in Files /\ NewFile \notin open
  BY NewFileIs DEF EndOfPath
<1>3. at # "rest" /\ at' # "rest" /\ status' = "path_end" /\ UNCHANGED callVars
      /\ at' \in {"read", "parse"}
      /\ got' \in 0..(BUF_SIZE - 1) /\ left' \in 0..BUF_SIZE /\ (at' = "parse" => left' > 0)
  BY <1>1, TurnIs
<1>4. /\ manager = "live" /\ call = "init" /\ recorded = 0 /\ type < LAST_VOLUME_TYPE
      /\ id \in Nat /\ type \in Nat /\ path \in Seq(Letter \cup Digit)
  BY <1>1, <1>3 DEF IInv, Reading
<1>5. v \in Volume /\ v.fd = NewFile /\ v.type < LAST_VOLUME_TYPE /\ Kind(v.type) = K
  BY <1>2, <1>4 DEF Volume
<1>6. K \in Kinds /\ volumes \in [Kinds -> Seq(Volume)]
  BY KindIsKnown DEF IInv, Ownership
<1> HIDE DEF v, K
<1>7. volumes[K] \in Seq(Volume)
  BY <1>6
<1>8. <<v>> \o volumes[K] \in Seq(Volume) /\ Range(<<v>> \o volumes[K]) = {v} \cup Range(volumes[K])
  BY <1>5, <1>7, Prepended
<1>9. volumes' \in [Kinds -> Seq(Volume)]
  BY <1>1, <1>6, <1>8
<1>10. /\ Range(volumes'[K]) = {v} \cup Range(volumes[K])
       /\ \A k \in Kinds : k # K => volumes'[k] = volumes[k]
  BY <1>1, <1>6, <1>8
<1>11. Loaded' = {v} \cup Loaded
  BY <1>6, <1>10 DEF Loaded
<1>12. Descriptors' = {NewFile} \cup Descriptors
  BY <1>5, <1>11 DEF Descriptors
<1>13. \A k \in Kinds : \A w \in Range(volumes'[k]) :
          w.type < LAST_VOLUME_TYPE /\ Kind(w.type) = k
  BY <1>5, <1>10 DEF IInv, Ownership
<1>14. \A w \in Loaded : w.fd \in open
  BY LoadedAre DEF IInv, Ownership
<1>15. \A w, x \in Loaded' : w.fd = x.fd => w = x
  BY <1>2, <1>5, <1>11, <1>14 DEF IInv, Ownership
<1>16. IsFiniteSet(open')
  BY <1>1, FS_AddElement DEF IInv, Ownership
<1>17. Ownership'
  <2>1. NewFile # 0
    BY <1>2, VolumeManagerAssumption
  <2>2. NewFile \notin orphan /\ NewFile # conf_file_fd
    BY <1>2, <2>1 DEF IInv, Ownership
  <2>3. open' = orphan' \cup ({conf_file_fd'} \ {0}) \cup Descriptors'
    BY <1>1, <1>12 DEF IInv, Ownership
  <2>4. /\ conf_file_fd' \notin orphan' \cup Descriptors'
        /\ orphan' \cap Descriptors' = {}
    BY <1>1, <1>12, <2>2 DEF IInv, Ownership
  <2>5. manager' = "live" /\ conf_file_fd' \in Files \cup {0} /\ open' \subseteq Files
    BY <1>1, <1>2, <1>4 DEF IInv, Ownership
  <2>6. QED
    BY <1>9, <1>13, <1>15, <1>16, <2>3, <2>4, <2>5 DEF Ownership
<1>18. Reading'
  BY <1>1, <1>3, <1>4 DEF Reading, callVars
<1>19. Answers'
  BY <1>3 DEF IInv, Answers, AnswersAndRecords, callVars
<1>20. QED
  BY <1>17, <1>18, <1>19 DEF IInv

(* The ways in which the initialization fails; in ListFails the file of a  *)
(* volume is left open.                                                    *)
LEMMA FailuresInv ==
  ASSUME IInv,
         \/ OpenConfFails \/ InitStringFails \/ ReadFails
         \/ PathFails \/ LoadFails \/ ListFails \/ Refuse
  PROVE  IInv'
<1>1. CASE OpenConfFails
  BY <1>1, FailingInv DEF OpenConfFails
<1>2. CASE InitStringFails
  BY <1>2, FailingInv DEF InitStringFails
<1>3. CASE ReadFails
  BY <1>3, FailingInv DEF ReadFails
<1>4. CASE LoadFails
  BY <1>4, FailingInv DEF LoadFails
<1>5. CASE ListFails
  <2>1. {NewFile} \subseteq Files \ open /\ IsFiniteSet({NewFile})
    BY <1>5, NewFileIs, FS_Singleton DEF ListFails
  <2>2. QED
    BY <1>5, <2>1, FailInv DEF ListFails
<1>6. CASE Refuse
  BY <1>6, FailingInv DEF Refuse
<1>7. CASE PathFails
  BY <1>7, FailingInv DEF PathFails
<1>8. QED
  BY <1>1, <1>2, <1>3, <1>4, <1>5, <1>6, <1>7

-----------------------------------------------------------------------------
(* The calls of a manager                                                  *)

LEMMA ForgetReads ==
  ASSUME Forget, at' = "rest"
  PROVE  Reading'
BY VolumeManagerAssumption DEF Forget, ForgetFields, Reading

(* The outcomes of the four calls for pages tell the truth.                *)
Truthful(o) ==
  /\ o.records \in Nat
  /\ o.records = 0 => o.error \in {"ok", "bytes", "seek"}

LEMMA OutcomesTruthful ==
  /\ \A o \in allocPagesFromVolume \cup freePagesToVolume \cup savePageToVolume :
        Truthful(o) /\ o.error # "ok"
  /\ \A o \in loadPageFromVolume : Truthful(o) /\ (o.error = "ok" => ~o.moves)
BY DEF allocPagesFromVolume, freePagesToVolume, savePageToVolume, loadPageFromVolume,
       HeaderFails, setVolumeHeader, Seek, Outcome, Truthful

LEMMA CalledInv ==
  ASSUME IInv, NEW c \in {"alloc", "free", "load", "save"}, Called(c), NEW o, Answer(o),
         Truthful(o), o.error = "ok" => ~o.moves /\ c = "load"
  PROVE  IInv'
<1>1. /\ UNCHANGED managerVars /\ at' = "rest" /\ Forget /\ call' = c
  BY DEF Called
<1>2. Ownership'
  BY <1>1, SameFiles DEF IInv
<1>3. Reading'
  BY <1>1, ForgetReads
<1>4. Answers'
  BY <1>1 DEF Answers, AnswersAndRecords, Answer, Truthful
<1>5. QED
  BY <1>2, <1>3, <1>4 DEF IInv

LEMMA AllocInv ==
  ASSUME IInv, NEW k \in Kinds, allocPages(k) \/ NoVolumeOfType(k)
  PROVE  IInv'
<1>1. CASE allocPages(k)
  <2>1. PICK o \in allocPagesFromVolume, others \in 0..(Len(volumes[k]) - 1) :
          Answer([o EXCEPT !.records = @ + others])
    BY <1>1 DEF allocPages
  <2>2. volumes[k] \in Seq(Volume)
    BY DEF IInv, Ownership
  <2>3. others \in Nat /\ Truthful(o) /\ o.error # "ok"
    BY <2>1, <2>2, LenProperties, OutcomesTruthful
  <2>4. DOMAIN o = {"error", "records", "moves"}
    BY <2>1 DEF allocPagesFromVolume, HeaderFails, setVolumeHeader, Seek, Outcome
  <2> DEFINE p == [o EXCEPT !.records = @ + others]
  <2>5. p.error = o.error /\ p.records = o.records + others
    BY <2>4
  <2> HIDE DEF p
  <2>6. Truthful(p) /\ p.error # "ok" /\ Answer(p)
    BY <2>1, <2>3, <2>5 DEF Truthful, p
  <2>7. QED
    BY <1>1, <2>6, CalledInv DEF allocPages
<1>2. CASE NoVolumeOfType(k)
  <2>1. Truthful(Outcome("no_type", 1, FALSE)) /\ Outcome("no_type", 1, FALSE).error # "ok"
    BY DEF Truthful, Outcome
  <2>2. QED
    BY <1>2, <2>1, CalledInv DEF NoVolumeOfType
<1>3. QED
  BY <1>1, <1>2

LEMMA PagesInv ==
  ASSUME IInv, NEW n, freePages(n) \/ loadPage(n) \/ savePage(n)
  PROVE  IInv'
<1>1. CASE freePages(n)
  BY <1>1, OutcomesTruthful, CalledInv DEF freePages
<1>2. CASE loadPage(n)
  BY <1>2, OutcomesTruthful, CalledInv DEF loadPage
<1>3. CASE savePage(n)
  BY <1>3, OutcomesTruthful, CalledInv DEF savePage
<1>4. QED
  BY <1>1, <1>2, <1>3

LEMMA DestroyInv ==
  ASSUME IInv, destroyVolumeManager
  PROVE  IInv'
<1>1. Ownership'
  <2>1. destroyAll({}) /\ orphan' = orphan \cup {} /\ manager' = "freed"
    BY DEF destroyVolumeManager
  <2>2. QED
    BY <2>1, ClosesTheRest, FS_EmptySet DEF IInv
<1>2. Reading'
  BY ForgetReads DEF destroyVolumeManager
<1>3. recorded' \in Nat
  BY ClosingIs DEF IInv, destroyVolumeManager
<1>4. Answers'
  BY <1>3 DEF Answers, AnswersAndRecords, destroyVolumeManager
<1>5. QED
  BY <1>1, <1>2, <1>4 DEF IInv

-----------------------------------------------------------------------------

LEMMA ParseInv ==
  ASSUME IInv, Parse
  PROVE  IInv'
BY CharacterInv, NewLineInv, IdDigitInv, TypeDigitInv, PathByteInv, EndOfPathInv, FailuresInv
   DEF Parse

LEMMA StepInv ==
  ASSUME IInv, [Next]_vars
  PROVE  IInv'
<1>1. CASE Parse
  BY <1>1, ParseInv
<1>2. CASE OpenConfFails \/ InitStringFails \/ ReadFails
  BY <1>2, FailuresInv
<1>3. ASSUME NEW k \in Kinds, allocPages(k) \/ NoVolumeOfType(k) PROVE IInv'
  BY <1>3, AllocInv
<1>4. ASSUME NEW n \in 0..MaxNumber, freePages(n) \/ loadPage(n) \/ savePage(n) PROVE IInv'
  BY <1>4, PagesInv
<1>5. CASE UNCHANGED vars
  <2>1. Ownership'
    BY <1>5, SameFiles DEF IInv, vars
  <2>2. Reading' /\ Answers'
    BY <1>5 DEF IInv, Reading, Answers, AnswersAndRecords, vars, managerVars, parseVars,
                readVars, callVars
  <2>3. QED
    BY <2>1, <2>2 DEF IInv
<1>6. QED
  BY <1>1, <1>2, <1>3, <1>4, <1>5, InitVolumeManagerInv, OpenConfInv, InitStringsInv,
     ReadSomeInv, ReadEndInv, EndOfFileInv, DestroyInv DEF Next

LEMMA Inductive == Spec => []IInv
<1>1. Init => IInv
  BY StartInv
<1>2. IInv /\ [Next]_vars => IInv'
  BY StepInv
<1>3. QED
  BY <1>1, <1>2, PTL DEF Spec

(* There are as many open files as owners: the volumes have each their own *)
(* file.                                                                   *)
LEMMA FilesCounted ==
  ASSUME Ownership
  PROVE  Cardinality(open) = Cardinality(orphan) + Cardinality(Loaded)
                               + (IF conf_file_fd = 0 THEN 0 ELSE 1)
<1> DEFINE f == [v \in Loaded |-> v.fd]
<1>1. IsFiniteSet(orphan) /\ IsFiniteSet(Descriptors) /\ IsFiniteSet({conf_file_fd} \ {0})
  <2>1. /\ orphan \subseteq open /\ Descriptors \subseteq open
        /\ {conf_file_fd} \ {0} \subseteq open /\ IsFiniteSet(open)
    BY DEF Ownership
  <2>2. QED
    BY <2>1, FS_Subset
<1>2. Cardinality(Loaded) = Cardinality(Descriptors)
  <2>1. f \in [Loaded -> Descriptors]
    BY DEF Descriptors
  <2>2. \A v, w \in Loaded : f[v] = f[w] => v = w
    BY DEF Ownership
  <2>3. \A d \in Descriptors : \E v \in Loaded : f[v] = d
    BY DEF Descriptors
  <2> HIDE DEF f
  <2>4. f \in Injection(Loaded, Descriptors)
    BY <2>1, <2>2 DEF Injection, IsInjective
  <2>5. f \in Surjection(Loaded, Descriptors)
    BY <2>1, <2>3 DEF Surjection
  <2>6. QED
    BY <1>1, <2>4, <2>5, FS_Injection
<1>3. Cardinality({conf_file_fd} \ {0}) = IF conf_file_fd = 0 THEN 0 ELSE 1
  <2>1. CASE conf_file_fd = 0
    <3>1. {conf_file_fd} \ {0} = {}
      BY <2>1
    <3>2. QED
      BY <2>1, <3>1, FS_EmptySet
  <2>2. CASE conf_file_fd # 0
    <3>1. {conf_file_fd} \ {0} = {conf_file_fd}
      BY <2>2
    <3>2. QED
      BY <2>2, <3>1, FS_Singleton
  <2>3. QED
    BY <2>1, <2>2
<1> DEFINE A == {conf_file_fd} \ {0}
<1>4. orphan \cap A = {} /\ (orphan \cup A) \cap Descriptors = {} /\ IsFiniteSet(A)
      /\ open = (orphan \cup A) \cup Descriptors
  BY <1>1 DEF Ownership
<1> HIDE DEF A
<1>5. /\ IsFiniteSet(orphan \cup A)
      /\ Cardinality(orphan \cup A) = Cardinality(orphan) + Cardinality(A) - Cardinality({})
  BY <1>1, <1>4, FS_Union
<1>6. Cardinality(open) = Cardinality(orphan \cup A) + Cardinality(Descriptors) - Cardinality({})
  BY <1>1, <1>4, <1>5, FS_Union
<1>7. /\ Cardinality(orphan) \in Nat /\ Cardinality(A) \in Nat
      /\ Cardinality(Descriptors) \in Nat /\ Cardinality({}) = 0
  BY <1>1, <1>4, FS_CardinalityType, FS_EmptySet
<1>8. Cardinality(A) = IF conf_file_fd = 0 THEN 0 ELSE 1
  BY <1>3 DEF A
<1>9. QED
  BY <1>2, <1>5, <1>6, <1>7, <1>8

(* Every failure of the initialization, at whatever character of whatever  *)
(* file, closes what was opened up to then, and no two owners ever share a *)
(* descriptor; the exception is the file of a volume for which there was   *)
(* no list node.                                                           *)
THEOREM FilesHaveOwners == Spec => []OpenFilesOwned
<1>1. IInv => OpenFilesOwned
  <2>1. SUFFICES ASSUME IInv PROVE OpenFilesOwned
    OBVIOUS
  <2>2. TypeOK
    <3>1. \A k \in Kinds : \A v \in Range(volumes[k]) : v.fd \in Files
      BY <2>1, LoadedAre DEF IInv, Loaded
    <3>2. orphan \subseteq Files
      BY <2>1 DEF IInv, Ownership
    <3>3. QED
      BY <2>1, <3>1, <3>2 DEF IInv, Ownership, Reading, TypeOK
  <2>3. at = "rest" /\ manager # "live" => open = orphan
    BY <2>1 DEF IInv, Ownership, Descriptors
  <2>4. open = orphan \cup ({conf_file_fd} \ {0}) \cup {v.fd : v \in Loaded}
    BY <2>1 DEF IInv, Ownership, Descriptors
  <2>5. QED
    BY <2>1, <2>2, <2>3, <2>4, FilesCounted DEF IInv, OpenFilesOwned
<1>2. QED
  BY <1>1, Inductive, PTL

(* What a caller learns is what has happened: initVolumeManager returns    *)
(* NO_ERROR exactly when there is a manager and nothing was recorded, a    *)
(* failure of a call is recorded unless it is a count of bytes or comes    *)
(* from seekFile, and NO_ERROR of a call for pages means that no byte of a *)
(* page was moved.                                                         *)
THEOREM CallersAreTold == Spec => []AnswersAndRecords
<1>1. IInv => AnswersAndRecords
  BY DEF IInv, Answers
<1>2. QED
  BY <1>1, Inductive, PTL

-----------------------------------------------------------------------------
(* The numbers and paths of a line, character by character                 *)

LEMMA LeastOf ==
  ASSUME NEW Z \in SUBSET Nat, Z # {}
  PROVE  \E i \in Z : \A j \in Z : ~(j < i)
<1>1. PICK i \in Z : \A j \in Z : ~(<<j, i>> \in OpToRel(<, Nat))
  BY WFMin, NatLessThanWellFounded
<1>2. QED
  BY <1>1 DEF OpToRel

(* What holds at 0 and goes on from each index to the next holds at all.   *)
LEMMA Climbs ==
  ASSUME NEW n \in Nat, NEW Z, 0 \in Z, \A m \in 1..n : m - 1 \in Z => m \in Z
  PROVE  \A m \in 0..n : m \in Z
<1> DEFINE Open == {m \in 0..n : m \notin Z}
<1>1. SUFFICES ASSUME Open # {} PROVE FALSE
  OBVIOUS
<1>2. Open \in SUBSET Nat
  OBVIOUS
<1>3. PICK m \in Open : \A j \in Open : ~(j < m)
  BY <1>1, <1>2, LeastOf
<1>4. m \in 1..n /\ m - 1 \in 0..n /\ m - 1 < m
  BY <1>3
<1>5. m - 1 \in Z
  BY <1>3, <1>4
<1>6. QED
  BY <1>3, <1>4, <1>5

(* f has the number after each digit of s.                                 *)
Sums(f, from, s) ==
  /\ f[0] = from
  /\ \A i \in 1..Len(s) : f[i] = f[i - 1] * 10 + value(s[i])
  /\ Number(from, s) = f[Len(s)]

LEMMA NumberSteps ==
  ASSUME NEW from, NEW s, Len(s) \in Nat
  PROVE  \E f : Sums(f, from, s)
<1> DEFINE n == Len(s)
           b(i) == value(s[i])
           Made(f, m) == f = [i \in 0..m |-> IF i = 0 THEN from ELSE f[i - 1] * 10 + b(i)]
           Some(m) == \E f : Made(f, m)
           Z == {m \in 0..n : Some(m)}
<1>d. Number(from, s) = (CHOOSE f : Made(f, n))[n]
  BY DEF Number
<1>w. n \in Nat
  OBVIOUS
<1> HIDE DEF n, b
<1>1. Some(0)
  <2>1. Made([i \in 0..0 |-> from], 0)
    OBVIOUS
  <2>2. QED
    BY <2>1
<1>2. ASSUME NEW m \in 1..n, Some(m - 1) PROVE Some(m)
  <2>1. PICK g : Made(g, m - 1)
    BY <1>2
  <2> DEFINE f == [i \in 0..m |-> IF i = m THEN g[m - 1] * 10 + b(m) ELSE g[i]]
  <2>2. \A i \in 0..m : f[i] = IF i = 0 THEN from ELSE f[i - 1] * 10 + b(i)
    <3>1. TAKE i \in 0..m
    <3>2. CASE i = m
      <4>1. i # 0 /\ i - 1 \in 0..m /\ i - 1 # m
        BY <3>2
      <4>2. f[i] = g[m - 1] * 10 + b(m) /\ f[i - 1] = g[i - 1]
        BY <3>2, <4>1
      <4>3. QED
        BY <3>2, <4>1, <4>2
    <3>3. CASE i # m
      <4>1. i \in 0..(m - 1) /\ f[i] = g[i] /\ (i # 0 => f[i - 1] = g[i - 1])
        BY <3>3
      <4>2. g[i] = IF i = 0 THEN from ELSE g[i - 1] * 10 + b(i)
        BY <2>1, <4>1
      <4>3. QED
        BY <4>1, <4>2
    <3>4. QED
      BY <3>2, <3>3
  <2>3. Made(f, m)
    BY <2>2, Zenon
  <2>4. QED
    BY <2>3
<1> HIDE DEF Some
<1>3. Some(n)
  <2>1. 0 \in Z /\ \A m \in 1..n : m - 1 \in Z => m \in Z
    BY <1>w, <1>1, <1>2
  <2>2. \A m \in 0..n : m \in Z
    BY <1>w, <2>1, Climbs
  <2>3. QED
    BY <1>w, <2>2
<1>4. PICK g : Made(g, n)
  BY <1>3 DEF Some
<1> DEFINE f == CHOOSE f : Made(f, n)
<1>5. Made(f, n)
  BY <1>4
<1> HIDE DEF f
<1>6. f[0] = from /\ \A i \in 1..n : f[i] = f[i - 1] * 10 + b(i)
  <2>1. f[0] = from
    BY <1>5, <1>w, 0 \in 0..n
  <2>2. ASSUME NEW i \in 1..n PROVE f[i] = f[i - 1] * 10 + b(i)
    <3>1. i \in 0..n /\ i # 0
      BY <1>w
    <3>2. QED
      BY <1>5, <3>1
  <2>3. QED
    BY <2>1, <2>2
<1>7. Number(from, s) = f[n]
  BY <1>d DEF f
<1>8. Sums(f, from, s)
  BY <1>6, <1>7 DEF n, b, Sums
<1>9. QED
  BY <1>8

LEMMA NumberAppend ==
  ASSUME NEW T, NEW from, NEW s \in Seq(T), NEW x \in T
  PROVE  /\ Number(from, <<>>) = from
         /\ Number(from, Append(s, x)) = Number(from, s) * 10 + value(x)
<1>1. Number(from, <<>>) = from
  <2>1. Len(<<>>) = 0
    OBVIOUS
  <2>2. PICK f : Sums(f, from, <<>>)
    BY <2>1, NumberSteps
  <2>3. QED
    BY <2>1, <2>2 DEF Sums
<1> DEFINE t == Append(s, x)
           n == Len(s)
<1>2. /\ n \in Nat /\ Len(t) = n + 1 /\ t[n + 1] = x
      /\ \A i \in 1..n : t[i] = s[i]
  OBVIOUS
<1> HIDE DEF t, n
<1>3. PICK f : Sums(f, from, s)
  BY <1>2, NumberSteps DEF n
<1>4. PICK g : Sums(g, from, t)
  BY <1>2, NumberSteps
<1>5. /\ f[0] = from /\ \A i \in 1..n : f[i] = f[i - 1] * 10 + value(s[i])
      /\ Number(from, s) = f[n]
  BY <1>3 DEF Sums, n
<1>6. /\ g[0] = from /\ \A i \in 1..(n + 1) : g[i] = g[i - 1] * 10 + value(t[i])
      /\ Number(from, t) = g[n + 1]
  BY <1>2, <1>4 DEF Sums
<1> DEFINE Z == {m \in 0..n : f[m] = g[m]}
<1>7. ASSUME NEW m \in 1..n, m - 1 \in Z PROVE m \in Z
  <2>1. m \in 0..n /\ m \in 1..(n + 1) /\ f[m - 1] = g[m - 1] /\ t[m] = s[m]
    BY <1>2, <1>7
  <2>2. f[m] = f[m - 1] * 10 + value(s[m]) /\ g[m] = g[m - 1] * 10 + value(t[m])
    BY <1>5, <1>6, <2>1
  <2>3. QED
    BY <2>1, <2>2
<1>8. f[n] = g[n]
  <2>1. 0 \in Z
    BY <1>2, <1>5, <1>6
  <2>2. \A m \in 0..n : m \in Z
    BY <1>2, <1>7, <2>1, Climbs
  <2>3. QED
    BY <1>2, <2>2
<1>9. g[n + 1] = g[n] * 10 + value(x)
  <2>1. n + 1 \in 1..(n + 1) /\ n + 1 - 1 = n
    BY <1>2
  <2>2. QED
    BY <1>2, <1>6, <2>1
<1>10. QED
  BY <1>1, <1>5, <1>6, <1>8, <1>9 DEF t

(* A character more of a path.                                             *)
Adds(p, x) == IF x = "blank" THEN p ELSE Append(p, x)

(* f has the path so far after each character of s.                        *)
Paths(f, s) ==
  /\ f[0] = <<>>
  /\ \A i \in 1..Len(s) : f[i] = Adds(f[i - 1], s[i])
  /\ Bare(s) = f[Len(s)]

LEMMA BareSteps ==
  ASSUME NEW s, Len(s) \in Nat
  PROVE  \E f : Paths(f, s)
<1> DEFINE n == Len(s)
           b(i) == s[i]
           Made(f, m) == f = [i \in 0..m |-> IF i = 0 THEN <<>> ELSE Adds(f[i - 1], b(i))]
           Some(m) == \E f : Made(f, m)
           Z == {m \in 0..n : Some(m)}
<1>d. Bare(s) = (CHOOSE f : Made(f, n))[n]
  BY DEF Bare, Adds
<1>w. n \in Nat
  OBVIOUS
<1> HIDE DEF n, b
<1>1. Some(0)
  <2>1. Made([i \in 0..0 |-> <<>>], 0)
    OBVIOUS
  <2>2. QED
    BY <2>1
<1>2. ASSUME NEW m \in 1..n, Some(m - 1) PROVE Some(m)
  <2>1. PICK g : Made(g, m - 1)
    BY <1>2
  <2> DEFINE f == [i \in 0..m |-> IF i = m THEN Adds(g[m - 1], b(m)) ELSE g[i]]
  <2>2. \A i \in 0..m : f[i] = IF i = 0 THEN <<>> ELSE Adds(f[i - 1], b(i))
    <3>1. TAKE i \in 0..m
    <3>2. CASE i = m
      <4>1. i # 0 /\ i - 1 \in 0..m /\ i - 1 # m
        BY <3>2
      <4>2. f[i] = Adds(g[m - 1], b(m)) /\ f[i - 1] = g[i - 1]
        BY <3>2, <4>1
      <4>3. QED
        BY <3>2, <4>1, <4>2
    <3>3. CASE i # m
      <4>1. i \in 0..(m - 1) /\ f[i] = g[i] /\ (i # 0 => f[i - 1] = g[i - 1])
        BY <3>3
      <4>2. g[i] = IF i = 0 THEN <<>> ELSE Adds(g[i - 1], b(i))
        BY <2>1, <4>1
      <4>3. QED
        BY <4>1, <4>2
    <3>4. QED
      BY <3>2, <3>3
  <2>3. Made(f, m)
    BY <2>2, Zenon
  <2>4. QED
    BY <2>3
<1> HIDE DEF Some
<1>3. Some(n)
  <2>1. 0 \in Z /\ \A m \in 1..n : m - 1 \in Z => m \in Z
    BY <1>w, <1>1, <1>2
  <2>2. \A m \in 0..n : m \in Z
    BY <1>w, <2>1, Climbs
  <2>3. QED
    BY <1>w, <2>2
<1>4. PICK g : Made(g, n)
  BY <1>3 DEF Some
<1> DEFINE f == CHOOSE f : Made(f, n)
<1>5. Made(f, n)
  BY <1>4
<1> HIDE DEF f
<1>6. f[0] = <<>> /\ \A i \in 1..n : f[i] = Adds(f[i - 1], b(i))
  <2>1. f[0] = <<>>
    BY <1>5, <1>w, 0 \in 0..n
  <2>2. ASSUME NEW i \in 1..n PROVE f[i] = Adds(f[i - 1], b(i))
    <3>1. i \in 0..n /\ i # 0
      BY <1>w
    <3>2. QED
      BY <1>5, <3>1
  <2>3. QED
    BY <2>1, <2>2
<1>7. Bare(s) = f[n]
  BY <1>d DEF f
<1>8. Paths(f, s)
  BY <1>6, <1>7 DEF n, b, Paths
<1>9. QED
  BY <1>8

LEMMA BareAppend ==
  ASSUME NEW T, NEW s \in Seq(T), NEW x \in T
  PROVE  /\ Bare(<<>>) = <<>>
         /\ Bare(Append(s, x)) = Adds(Bare(s), x)
<1>1. Bare(<<>>) = <<>>
  <2>1. Len(<<>>) = 0
    OBVIOUS
  <2>2. PICK f : Paths(f, <<>>)
    BY <2>1, BareSteps
  <2>3. QED
    BY <2>1, <2>2 DEF Paths
<1> DEFINE t == Append(s, x)
           n == Len(s)
<1>2. /\ n \in Nat /\ Len(t) = n + 1 /\ t[n + 1] = x
      /\ \A i \in 1..n : t[i] = s[i]
  OBVIOUS
<1> HIDE DEF t, n
<1>3. PICK f : Paths(f, s)
  BY <1>2, BareSteps DEF n
<1>4. PICK g : Paths(g, t)
  BY <1>2, BareSteps
<1>5. /\ f[0] = <<>> /\ \A i \in 1..n : f[i] = Adds(f[i - 1], s[i])
      /\ Bare(s) = f[n]
  BY <1>3 DEF Paths, n
<1>6. /\ g[0] = <<>> /\ \A i \in 1..(n + 1) : g[i] = Adds(g[i - 1], t[i])
      /\ Bare(t) = g[n + 1]
  BY <1>2, <1>4 DEF Paths
<1> DEFINE Z == {m \in 0..n : f[m] = g[m]}
<1>7. ASSUME NEW m \in 1..n, m - 1 \in Z PROVE m \in Z
  <2>1. m \in 0..n /\ m \in 1..(n + 1) /\ f[m - 1] = g[m - 1] /\ t[m] = s[m]
    BY <1>2, <1>7
  <2>2. f[m] = Adds(f[m - 1], s[m]) /\ g[m] = Adds(g[m - 1], t[m])
    BY <1>5, <1>6, <2>1
  <2>3. QED
    BY <2>1, <2>2
<1>8. f[n] = g[n]
  <2>1. 0 \in Z
    BY <1>2, <1>5, <1>6
  <2>2. \A m \in 0..n : m \in Z
    BY <1>2, <1>7, <2>1, Climbs
  <2>3. QED
    BY <1>2, <2>2
<1>9. g[n + 1] = Adds(g[n], x)
  <2>1. n + 1 \in 1..(n + 1) /\ n + 1 - 1 = n
    BY <1>2
  <2>2. QED
    BY <1>2, <1>6, <2>1
<1>10. QED
  BY <1>1, <1>5, <1>6, <1>8, <1>9 DEF t
-----------------------------------------------------------------------------
(* The shape of a line                                                     *)

Word  == Chars \cup {"end"}
Field == Digit \cup Letter \cup {"blank"}

LEMMA Apart ==
  /\ \A x \in {"#", "newline", "blank", "quote", "end"} : x \notin Digit /\ x \notin Letter
  /\ Digit \cap Letter = {} /\ Field \subseteq Chars /\ Chars \subseteq Word
  /\ "quote" \notin Field /\ "end" \notin Chars /\ "end" \notin Field
  /\ "quote" \notin {"blank"} /\ Digit \cap {"blank"} = {}
<1>1. DOMAIN Digits = 1..10
  BY DEF Digits
<1>2. ASSUME NEW i \in 1..10
      PROVE  Digits[i] \in {"0", "1", "2", "3", "4", "5", "6", "7", "8", "9"}
  <2>1. \/ i = 1 \/ i = 2 \/ i = 3 \/ i = 4 \/ i = 5 \/ i = 6 \/ i = 7 \/ i = 8 \/ i = 9 \/ i = 10
    OBVIOUS
  <2>2. QED
    BY <2>1 DEF Digits
<1>3. Digit \subseteq {"0", "1", "2", "3", "4", "5", "6", "7", "8", "9"}
  <2>1. Digit \subseteq {Digits[i] : i \in 1..10}
    BY <1>1, VolumeManagerAssumption
  <2>2. QED
    BY <1>2, <2>1
<1>4. \A x \in {"#", "newline", "blank", "quote", "end"} : x \notin Digit
  BY <1>3
<1>5. Letter \cap (Digit \cup {"#", "newline", "blank", "quote", "end"}) = {}
  BY VolumeManagerAssumption
<1>6. \A x \in {"#", "newline", "blank", "quote", "end"} : x \notin Letter
  BY <1>5
<1>7. QED
  BY <1>4, <1>5, <1>6 DEF Field, Chars, Word

Span(l, i, j, S) == \A k \in i..j : l[k] \in S

(* A line that begins with a number of a digits, blanks up to b, a number  *)
(* up to c, blanks up to d, a quote, and a path up to e; and is a whole    *)
(* line with another quote and blanks.                                     *)
WithId(l, a) == a \in 1..Len(l) /\ Span(l, 1, a, Digit)

WithIdEnd(l, a, b) ==
  WithId(l, a) /\ b \in (a + 1)..Len(l) /\ Span(l, a + 1, b, {"blank"})

WithType(l, a, b, c) ==
  WithIdEnd(l, a, b) /\ c \in (b + 1)..Len(l) /\ Span(l, b + 1, c, Digit)

WithTypeEnd(l, a, b, c, d) ==
  WithType(l, a, b, c) /\ d \in (c + 1)..Len(l) /\ Span(l, c + 1, d, {"blank"})

WithPath(l, a, b, c, d, e) ==
  /\ WithTypeEnd(l, a, b, c, d)
  /\ e \in (d + 1)..Len(l) /\ l[d + 1] = "quote" /\ Span(l, d + 2, e, Field)

Whole(l, a, b, c, d, e) ==
  /\ WithPath(l, a, b, c, d, e)
  /\ e < Len(l) /\ l[e + 1] = "quote" /\ Span(l, e + 2, Len(l), {"blank"})

Named(l, a, b, c, d, e) ==
  /\ Whole(l, a, b, c, d, e)
  /\ Number(0, SubSeq(l, b + 1, c)) < LAST_VOLUME_TYPE /\ Bare(SubSeq(l, d + 2, e)) # <<>>

(* A run is as long as it is.                                              *)
LEMMA RunIs ==
  ASSUME NEW l \in Seq(Word), NEW k \in Nat \ {0}, NEW m \in Nat, NEW S,
         k <= m + 1, m <= Len(l), Span(l, k, m, S), m + 1 <= Len(l) => l[m + 1] \notin S
  PROVE  Run(l, k, S) = m + 1 - k
<1> DEFINE Made(n) == /\ \A i \in k..(k + n - 1) : i \in DOMAIN l /\ l[i] \in S
                      /\ k + n <= Len(l) => l[k + n] \notin S
           r == m + 1 - k
<1>1. Len(l) \in Nat /\ DOMAIN l = 1..Len(l)
  OBVIOUS
<1>2. r \in 0..Len(l) /\ k + r - 1 = m /\ k + r = m + 1
  BY <1>1
<1>3. Made(r)
  BY <1>1, <1>2 DEF Span
<1>4. ASSUME NEW n \in 0..Len(l), Made(n) PROVE n = r
  <2>1. CASE n < r
    <3>1. k + n \in k..m /\ k + n <= Len(l)
      BY <1>1, <1>2, <2>1
    <3>2. l[k + n] \in S
      BY <3>1 DEF Span
    <3>3. QED
      BY <1>4, <3>1, <3>2
  <2>2. CASE r < n
    <3>1. m + 1 \in k..(k + n - 1)
      BY <1>1, <1>2, <2>2
    <3>2. m + 1 \in DOMAIN l /\ l[m + 1] \in S
      BY <1>4, <3>1
    <3>3. QED
      BY <1>1, <3>2
  <2>3. QED
    BY <1>2, <2>1, <2>2
<1>5. Run(l, k, S) = CHOOSE n \in 0..Len(l) : Made(n)
  BY DEF Run
<1> HIDE DEF Made, r
<1>6. Run(l, k, S) = r
  BY <1>2, <1>3, <1>4, <1>5
<1>7. QED
  BY <1>6 DEF r

(* There is a run, of no characters or more, from everywhere.              *)
LEMMA RunHas ==
  ASSUME NEW l \in Seq(Word), NEW k \in Nat \ {0}, NEW S
  PROVE  /\ Run(l, k, S) \in Nat
         /\ Span(l, k, k + Run(l, k, S) - 1, S)
         /\ Run(l, k, S) > 0 => k + Run(l, k, S) - 1 <= Len(l)
<1> DEFINE Made(n) == /\ \A i \in k..(k + n - 1) : i \in DOMAIN l /\ l[i] \in S
                      /\ k + n <= Len(l) => l[k + n] \notin S
           Ends == {n \in 0..Len(l) : k + n <= Len(l) => l[k + n] \notin S}
<1>1. Len(l) \in Nat /\ DOMAIN l = 1..Len(l)
  OBVIOUS
<1>2. Len(l) \in Ends /\ Ends \in SUBSET Nat
  BY <1>1
<1>3. PICK n \in Ends : \A j \in Ends : ~(j < n)
  BY <1>2, LeastOf
<1>4. ASSUME NEW i \in k..(k + n - 1) PROVE i \in DOMAIN l /\ l[i] \in S
  <2>1. i - k \in 0..Len(l) /\ i - k < n /\ k + (i - k) = i
    BY <1>1, <1>3
  <2>2. i - k \notin Ends
    BY <1>2, <1>3, <2>1
  <2>3. i <= Len(l) /\ l[i] \in S
    BY <2>1, <2>2
  <2>4. QED
    BY <1>1, <2>3
<1>5. Made(n) /\ n \in 0..Len(l)
  BY <1>3, <1>4
<1>6. Run(l, k, S) = CHOOSE m \in 0..Len(l) : Made(m)
  BY DEF Run
<1> HIDE DEF Made
<1>7. Run(l, k, S) \in 0..Len(l) /\ Made(Run(l, k, S))
  BY <1>5, <1>6
<1> DEFINE r == Run(l, k, S)
<1>8. /\ r \in Nat /\ \A i \in k..(k + r - 1) : i \in DOMAIN l /\ l[i] \in S
  BY <1>1, <1>7 DEF Made
<1> HIDE DEF r
<1>9. r > 0 => k + r - 1 <= Len(l)
  <2>1. r > 0 => k + r - 1 \in k..(k + r - 1)
    BY <1>8
  <2>2. QED
    BY <1>1, <1>8, <2>1
<1>10. QED
  BY <1>8, <1>9 DEF r, Span

(* The fields of a whole line are where they are.                          *)
LEMMA FieldsOf ==
  ASSUME NEW l \in Seq(Word), NEW a, NEW b, NEW c, NEW d, NEW e, Whole(l, a, b, c, d, e)
  PROVE  Fields(l) = [id |-> SubSeq(l, 1, a), type |-> SubSeq(l, b + 1, c),
                      path |-> Bare(SubSeq(l, d + 2, e)), well_formed |-> TRUE]
<1>1. /\ Len(l) \in Nat
      /\ a \in Nat /\ b \in Nat /\ c \in Nat /\ d \in Nat /\ e \in Nat
      /\ 0 < a /\ a < b /\ b < c /\ c < d /\ d < e /\ e < Len(l)
  BY DEF Whole, WithPath, WithTypeEnd, WithType, WithIdEnd, WithId
<1>2. /\ Span(l, 1, a, Digit) /\ Span(l, a + 1, b, {"blank"}) /\ Span(l, b + 1, c, Digit)
      /\ Span(l, c + 1, d, {"blank"}) /\ l[d + 1] = "quote" /\ Span(l, d + 2, e, Field)
      /\ l[e + 1] = "quote" /\ Span(l, e + 2, Len(l), {"blank"})
  BY DEF Whole, WithPath, WithTypeEnd, WithType, WithIdEnd, WithId
<1>3. /\ l[a + 1] \notin Digit /\ l[b + 1] \notin {"blank"} /\ l[c + 1] \notin Digit
      /\ l[d + 1] \notin {"blank"} /\ l[e + 1] \notin Field
  <2>1. l[a + 1] \in {"blank"} /\ l[b + 1] \in Digit /\ l[c + 1] \in {"blank"}
    BY <1>1, <1>2 DEF Span
  <2>2. QED
    BY <1>2, <2>1, Apart
<1>4. Run(l, 1, Digit) = a
  <2>1. 1 \in Nat \ {0} /\ 1 <= a + 1 /\ a <= Len(l)
    BY <1>1
  <2>2. Run(l, 1, Digit) = a + 1 - (1)
    BY <1>1, <1>2, <1>3, <2>1, RunIs
  <2>3. QED
    BY <1>1, <2>2
<1>5. Run(l, a + 1, {"blank"}) = b - a
  <2>1. a + 1 \in Nat \ {0} /\ a + 1 <= b + 1 /\ b <= Len(l)
    BY <1>1
  <2>2. Run(l, a + 1, {"blank"}) = b + 1 - (a + 1)
    BY <1>1, <1>2, <1>3, <2>1, RunIs
  <2>3. QED
    BY <1>1, <2>2
<1>6. Run(l, b + 1, Digit) = c - b
  <2>1. b + 1 \in Nat \ {0} /\ b + 1 <= c + 1 /\ c <= Len(l)
    BY <1>1
  <2>2. Run(l, b + 1, Digit) = c + 1 - (b + 1)
    BY <1>1, <1>2, <1>3, <2>1, RunIs
  <2>3. QED
    BY <1>1, <2>2
<1>7. Run(l, c + 1, {"blank"}) = d - c
  <2>1. c + 1 \in Nat \ {0} /\ c + 1 <= d + 1 /\ d <= Len(l)
    BY <1>1
  <2>2. Run(l, c + 1, {"blank"}) = d + 1 - (c + 1)
    BY <1>1, <1>2, <1>3, <2>1, RunIs
  <2>3. QED
    BY <1>1, <2>2
<1>8. Run(l, d + 2, Field) = e - (d + 1)
  <2>1. d + 2 \in Nat \ {0} /\ d + 2 <= e + 1 /\ e <= Len(l)
    BY <1>1
  <2>2. Run(l, d + 2, Field) = e + 1 - (d + 2)
    BY <1>1, <1>2, <1>3, <2>1, RunIs
  <2>3. QED
    BY <1>1, <2>2
<1>9. Run(l, e + 2, {"blank"}) = Len(l) - (e + 1)
  <2>1. e + 2 \in Nat \ {0} /\ e + 2 <= Len(l) + 1
    BY <1>1
  <2>2. Run(l, e + 2, {"blank"}) = Len(l) + 1 - (e + 2)
    BY <1>1, <1>2, <2>1, RunIs
  <2>3. QED
    BY <1>1, <2>2
<1> DEFINE dd == d + 1
           ee == e + 1
<1>10. /\ a + Run(l, a + 1, {"blank"}) = b /\ b + Run(l, b + 1, Digit) = c
       /\ c + Run(l, c + 1, {"blank"}) + 1 = dd /\ dd + Run(l, dd + 1, Field) + 1 = ee
       /\ ee + Run(l, ee + 1, {"blank"}) = Len(l)
       /\ dd + 1 = d + 2 /\ ee - 1 = e
  <2>1. dd + 1 = d + 2 /\ ee + 1 = e + 2 /\ ee - 1 = e
    BY <1>1
  <2>2. Run(l, dd + 1, Field) = e - (d + 1) /\ Run(l, ee + 1, {"blank"}) = Len(l) - (e + 1)
    BY <1>8, <1>9, <2>1
  <2>3. a + Run(l, a + 1, {"blank"}) = b /\ b + Run(l, b + 1, Digit) = c
    BY <1>1, <1>5, <1>6
  <2>4. c + Run(l, c + 1, {"blank"}) + 1 = dd
    BY <1>1, <1>7
  <2>5. dd + Run(l, dd + 1, Field) + 1 = ee /\ ee + Run(l, ee + 1, {"blank"}) = Len(l)
    BY <1>1, <2>2
  <2>6. QED
    BY <2>1, <2>3, <2>4, <2>5
<1>11. /\ a > 0 /\ b > a /\ c > b /\ dd > c + 1
       /\ ee <= Len(l) /\ l[dd] = "quote" /\ l[ee] = "quote"
  BY <1>1, <1>2
<1> HIDE DEF dd, ee
<1>12. Fields(l) = [id |-> SubSeq(l, 1, a), type |-> SubSeq(l, b + 1, c),
                    path |-> Bare(SubSeq(l, dd + 1, ee - 1)), well_formed |-> TRUE]
  <2>1. Fields(l) =
          LET A == Run(l, 1, Digit)
              B == A + Run(l, A + 1, {"blank"})
              C == B + Run(l, B + 1, Digit)
              D == C + Run(l, C + 1, {"blank"}) + 1
              E == D + Run(l, D + 1, Field) + 1
          IN  [id |-> SubSeq(l, 1, A), type |-> SubSeq(l, B + 1, C),
               path |-> Bare(SubSeq(l, D + 1, E - 1)),
               well_formed |->
                 /\ A > 0 /\ B > A /\ C > B /\ D > C + 1
                 /\ E <= Len(l) /\ l[D] = "quote" /\ l[E] = "quote"
                 /\ E + Run(l, E + 1, {"blank"}) = Len(l)]
    BY DEF Fields, Field
  <2>2. QED
    BY <1>4, <1>10, <1>11, <2>1
<1>13. QED
  BY <1>10, <1>12

(* A line is the line of a volume if it has the shape of one.              *)
LEMMA VolumeLineIs ==
  ASSUME NEW l \in Seq(Word)
  PROVE  IsVolumeLine(l) <=> \E a, b, c, d, e : Named(l, a, b, c, d, e)
<1>1. ASSUME NEW a, NEW b, NEW c, NEW d, NEW e, Named(l, a, b, c, d, e) PROVE IsVolumeLine(l)
  <2>1. Whole(l, a, b, c, d, e)
    BY <1>1 DEF Named
  <2> DEFINE f == Fields(l)
  <2>2. f = [id |-> SubSeq(l, 1, a), type |-> SubSeq(l, b + 1, c),
             path |-> Bare(SubSeq(l, d + 2, e)), well_formed |-> TRUE]
    BY <2>1, FieldsOf
  <2>3. IsVolumeLine(l) <=> f.well_formed /\ f.path # <<>> /\ Number(0, f.type) < LAST_VOLUME_TYPE
    BY DEF IsVolumeLine
  <2> HIDE DEF f
  <2>4. f.well_formed /\ f.path # <<>> /\ Number(0, f.type) < LAST_VOLUME_TYPE
    BY <1>1, <2>2 DEF Named
  <2>5. QED
    BY <2>3, <2>4
<1>2. ASSUME IsVolumeLine(l) PROVE \E a, b, c, d, e : Named(l, a, b, c, d, e)
  <2> DEFINE a == Run(l, 1, Digit)
             rb == Run(l, a + 1, {"blank"})
             b == a + rb
             rc == Run(l, b + 1, Digit)
             c == b + rc
             rd == Run(l, c + 1, {"blank"})
             d == c + rd + 1
             re == Run(l, d + 1, Field)
             e == d + re + 1
             rf == Run(l, e + 1, {"blank"})
  <2>1. /\ a > 0 /\ b > a /\ c > b /\ d > c + 1
        /\ e <= Len(l) /\ l[d] = "quote" /\ l[e] = "quote" /\ e + rf = Len(l)
        /\ Number(0, SubSeq(l, b + 1, c)) < LAST_VOLUME_TYPE
        /\ Bare(SubSeq(l, d + 1, e - 1)) # <<>>
    BY <1>2 DEF IsVolumeLine, Fields, Field
  <2>2. a \in Nat /\ Span(l, 1, a, Digit) /\ a <= Len(l)
    <3>1. a \in Nat /\ Span(l, 1, 1 + a - 1, Digit) /\ (a > 0 => 1 + a - 1 <= Len(l))
      BY RunHas
    <3> HIDE DEF a
    <3>2. 1 + a - 1 = a
      BY <3>1
    <3>3. QED
      BY <2>1, <3>1, <3>2
  <2> HIDE DEF a
  <2>3. b \in Nat /\ Span(l, a + 1, b, {"blank"}) /\ b <= Len(l)
    <3>1. /\ rb \in Nat /\ Span(l, a + 1, a + 1 + rb - 1, {"blank"})
          /\ (rb > 0 => a + 1 + rb - 1 <= Len(l))
      BY <2>2, RunHas
    <3> HIDE DEF rb
    <3>2. a + 1 + rb - 1 = b /\ rb > 0
      BY <2>1, <2>2, <3>1
    <3>3. QED
      BY <2>2, <3>1, <3>2
  <2> HIDE DEF b
  <2>4. c \in Nat /\ Span(l, b + 1, c, Digit) /\ c <= Len(l)
    <3>1. /\ rc \in Nat /\ Span(l, b + 1, b + 1 + rc - 1, Digit)
          /\ (rc > 0 => b + 1 + rc - 1 <= Len(l))
      BY <2>3, RunHas
    <3> HIDE DEF rc
    <3>2. b + 1 + rc - 1 = c /\ rc > 0
      BY <2>1, <2>3, <3>1
    <3>3. QED
      BY <2>3, <3>1, <3>2
  <2> HIDE DEF c
  <2>5. d - 1 \in Nat /\ Span(l, c + 1, d - 1, {"blank"}) /\ d - 1 > c /\ d \in Nat
    <3>1. rd \in Nat /\ Span(l, c + 1, c + 1 + rd - 1, {"blank"})
      BY <2>4, RunHas
    <3> HIDE DEF rd
    <3>2. c + 1 + rd - 1 = d - 1 /\ rd > 0 /\ d - 1 = c + rd
      BY <2>1, <2>4, <3>1
    <3>3. QED
      BY <2>4, <3>1, <3>2
  <2> HIDE DEF d
  <2>6. e - 1 \in Nat /\ Span(l, d + 1, e - 1, Field) /\ e - 1 >= d /\ e \in Nat
    <3>1. re \in Nat /\ Span(l, d + 1, d + 1 + re - 1, Field)
      BY <2>5, RunHas
    <3> HIDE DEF re
    <3>2. d + 1 + re - 1 = e - 1 /\ e - 1 = d + re
      BY <2>5, <3>1
    <3>3. QED
      BY <2>5, <3>1, <3>2
  <2> HIDE DEF e
  <2>7. Span(l, e + 1, Len(l), {"blank"})
    <3>1. rf \in Nat /\ Span(l, e + 1, e + 1 + rf - 1, {"blank"})
      BY <2>6, RunHas
    <3> HIDE DEF rf
    <3>2. e + 1 + rf - 1 = Len(l)
      BY <2>1, <2>6, <3>1
    <3>3. QED
      BY <3>1, <3>2
  <2> DEFINE d1 == d - 1
             e1 == e - 1
  <2>8. /\ d1 \in Nat /\ e1 \in Nat /\ d = d1 + 1 /\ e = e1 + 1 /\ d + 1 = d1 + 2 /\ e + 1 = e1 + 2
        /\ Len(l) \in Nat
    BY <2>5, <2>6
  <2> HIDE DEF d1, e1
  <2>9. /\ a \in 1..Len(l) /\ b \in (a + 1)..Len(l) /\ c \in (b + 1)..Len(l)
        /\ d1 \in (c + 1)..Len(l) /\ e1 \in (d1 + 1)..Len(l) /\ e1 < Len(l)
    BY <2>1, <2>2, <2>3, <2>4, <2>5, <2>6, <2>8
  <2>10. WithTypeEnd(l, a, b, c, d1)
    BY <2>2, <2>3, <2>4, <2>5, <2>9 DEF WithTypeEnd, WithType, WithIdEnd, WithId, d1
  <2>11. Span(l, d1 + 2, e1, Field) /\ l[d1 + 1] = "quote" /\ l[e1 + 1] = "quote"
         /\ Span(l, e1 + 2, Len(l), {"blank"})
    BY <2>1, <2>6, <2>7, <2>8 DEF e1
  <2>12. Bare(SubSeq(l, d1 + 2, e1)) # <<>>
    BY <2>1, <2>8 DEF e1
  <2>13. Named(l, a, b, c, d1, e1)
    BY <2>1, <2>9, <2>10, <2>11, <2>12 DEF Named, Whole, WithPath
  <2>14. QED
    BY <2>13
<1>3. QED
  BY <1>1, <1>2
-----------------------------------------------------------------------------
(* What a line goes on with                                                *)

Begins(l, L) == Len(l) <= Len(L) /\ \A i \in 1..Len(l) : L[i] = l[i]

(* A line has the shape of its beginning, with the same characters in it.  *)
LEMMA LongerShape ==
  ASSUME NEW l \in Seq(Word), NEW L \in Seq(Word), Begins(l, L), NEW a, NEW b, NEW c, NEW d, NEW e
  PROVE  /\ WithId(l, a) => WithId(L, a)
         /\ WithIdEnd(l, a, b) => WithIdEnd(L, a, b)
         /\ WithType(l, a, b, c) => WithType(L, a, b, c)
         /\ WithTypeEnd(l, a, b, c, d) => WithTypeEnd(L, a, b, c, d)
         /\ WithPath(l, a, b, c, d, e) => WithPath(L, a, b, c, d, e)
<1>1. /\ Len(l) \in Nat /\ Len(L) \in Nat /\ Len(l) <= Len(L)
      /\ \A i \in 1..Len(l) : L[i] = l[i]
  BY DEF Begins
<1>2. ASSUME NEW i \in Nat \ {0}, NEW j \in 0..Len(l), NEW S, Span(l, i, j, S)
      PROVE  Span(L, i, j, S)
  BY <1>1, <1>2 DEF Span
<1>3. ASSUME WithId(l, a) PROVE WithId(L, a)
  BY <1>1, <1>2, <1>3 DEF WithId
<1>4. ASSUME WithIdEnd(l, a, b) PROVE WithIdEnd(L, a, b)
  <2>1. WithId(l, a) /\ b \in (a + 1)..Len(l) /\ Span(l, a + 1, b, {"blank"}) /\ a \in 1..Len(l)
    BY <1>4 DEF WithIdEnd, WithId
  <2>2. QED
    BY <1>1, <1>2, <1>3, <2>1 DEF WithIdEnd
<1>5. ASSUME WithType(l, a, b, c) PROVE WithType(L, a, b, c)
  <2>1. /\ WithIdEnd(l, a, b) /\ c \in (b + 1)..Len(l) /\ Span(l, b + 1, c, Digit)
        /\ b \in 1..Len(l)
    BY <1>1, <1>5 DEF WithType, WithIdEnd, WithId
  <2>2. QED
    BY <1>1, <1>2, <1>4, <2>1 DEF WithType
<1>6. ASSUME WithTypeEnd(l, a, b, c, d) PROVE WithTypeEnd(L, a, b, c, d)
  <2>1. /\ WithType(l, a, b, c) /\ d \in (c + 1)..Len(l) /\ Span(l, c + 1, d, {"blank"})
        /\ c \in 1..Len(l)
    BY <1>1, <1>6 DEF WithTypeEnd, WithType, WithIdEnd, WithId
  <2>2. QED
    BY <1>1, <1>2, <1>5, <2>1 DEF WithTypeEnd
<1>7. ASSUME WithPath(l, a, b, c, d, e) PROVE WithPath(L, a, b, c, d, e)
  <2>1. /\ WithTypeEnd(l, a, b, c, d) /\ e \in (d + 1)..Len(l) /\ Span(l, d + 2, e, Field)
        /\ l[d + 1] = "quote" /\ d \in 1..Len(l)
    BY <1>1, <1>7 DEF WithPath, WithTypeEnd, WithType, WithIdEnd, WithId
  <2>2. d + 1 \in 1..Len(l) /\ d + 2 \in Nat \ {0} /\ e \in 0..Len(l) /\ e \in (d + 1)..Len(L)
    BY <1>1, <2>1
  <2>3. L[d + 1] = "quote" /\ Span(L, d + 2, e, Field) /\ WithTypeEnd(L, a, b, c, d)
    BY <1>1, <1>2, <1>6, <2>1, <2>2
  <2>4. QED
    BY <2>2, <2>3 DEF WithPath
<1>8. QED
  BY <1>3, <1>4, <1>5, <1>6, <1>7

LEMMA LongerFields ==
  ASSUME NEW l \in Seq(Word), NEW L \in Seq(Word), Begins(l, L),
         NEW i \in Nat \ {0}, NEW j \in 0..Len(l)
  PROVE  SubSeq(L, i, j) = SubSeq(l, i, j) /\ SubSeq(l, i, j) \in Seq(Word)
<1>1. /\ Len(l) \in Nat /\ Len(L) \in Nat /\ Len(l) <= Len(L)
      /\ \A m \in 1..Len(l) : L[m] = l[m] /\ l[m] \in Word
  BY DEF Begins
<1>2. \A m \in i..j : l[m] \in Word /\ L[m] \in Word /\ L[m] = l[m]
  BY <1>1
<1>3. /\ SubSeq(l, i, j) \in Seq(Word)
      /\ Len(SubSeq(l, i, j)) = IF i <= j THEN j - i + 1 ELSE 0
      /\ \A m \in 1..(j - i + 1) : SubSeq(l, i, j)[m] = l[i + m - 1]
  BY <1>2, SubSeqProperties
<1>4. /\ SubSeq(L, i, j) \in Seq(Word)
      /\ Len(SubSeq(L, i, j)) = IF i <= j THEN j - i + 1 ELSE 0
      /\ \A m \in 1..(j - i + 1) : SubSeq(L, i, j)[m] = L[i + m - 1]
  BY <1>2, SubSeqProperties
<1> DEFINE x == SubSeq(l, i, j)
           y == SubSeq(L, i, j)
<1>5. Len(x) = Len(y) /\ \A m \in 1..Len(x) : x[m] = y[m]
  <2>1. ASSUME NEW m \in 1..Len(x) PROVE x[m] = y[m]
    <3>1. m \in 1..(j - i + 1) /\ i + m - 1 \in i..j
      BY <1>1, <1>3
    <3>2. QED
      BY <1>2, <1>3, <1>4, <3>1
  <2>2. Len(x) = Len(y)
    BY <1>3, <1>4
  <2> HIDE DEF x, y
  <2>3. QED
    BY <2>1, <2>2
<1>6. x \in Seq(Word) /\ y \in Seq(Word)
  BY <1>3, <1>4
<1> HIDE DEF x, y
<1>7. x = y
  BY <1>5, <1>6
<1>8. QED
  BY <1>6, <1>7 DEF x, y

(* Of two runs of the same characters from the same place, none goes over  *)
(* the end of the other.                                                   *)
LEMMA RunsEnd ==
  ASSUME NEW L, NEW k \in Nat, NEW i \in Nat, NEW j \in Nat, NEW S,
         Span(L, k, j, S), k <= i + 1, L[i + 1] \notin S
  PROVE  j <= i
<1>1. SUFFICES ASSUME i + 1 <= j PROVE FALSE
  OBVIOUS
<1>2. i + 1 \in k..j
  BY <1>1
<1>3. QED
  BY <1>2 DEF Span

LEMMA ShapeIs ==
  ASSUME NEW L \in Seq(Word), NEW a, NEW b, NEW c, NEW d, NEW e
  PROVE  /\ WithId(L, a) => a \in Nat /\ 0 < a /\ a <= Len(L) /\ Span(L, 1, a, Digit)
         /\ WithIdEnd(L, a, b) =>
              /\ WithId(L, a) /\ b \in Nat /\ a < b /\ b <= Len(L)
              /\ Span(L, a + 1, b, {"blank"}) /\ L[a + 1] = "blank"
         /\ WithType(L, a, b, c) =>
              /\ WithIdEnd(L, a, b) /\ c \in Nat /\ b < c /\ c <= Len(L)
              /\ Span(L, b + 1, c, Digit) /\ L[b + 1] \in Digit
         /\ WithTypeEnd(L, a, b, c, d) =>
              /\ WithType(L, a, b, c) /\ d \in Nat /\ c < d /\ d <= Len(L)
              /\ Span(L, c + 1, d, {"blank"}) /\ L[c + 1] = "blank"
         /\ WithPath(L, a, b, c, d, e) =>
              /\ WithTypeEnd(L, a, b, c, d) /\ e \in Nat /\ d < e /\ e <= Len(L)
              /\ Span(L, d + 2, e, Field) /\ L[d + 1] = "quote"
<1>1. Len(L) \in Nat
  OBVIOUS
<1>2. ASSUME WithId(L, a) PROVE a \in Nat /\ 0 < a /\ a <= Len(L) /\ Span(L, 1, a, Digit)
  BY <1>1, <1>2 DEF WithId
<1>3. ASSUME WithIdEnd(L, a, b)
      PROVE  /\ WithId(L, a) /\ b \in Nat /\ a < b /\ b <= Len(L)
             /\ Span(L, a + 1, b, {"blank"}) /\ L[a + 1] = "blank"
  <2>1. /\ WithId(L, a) /\ b \in Nat /\ a < b /\ b <= Len(L) /\ Span(L, a + 1, b, {"blank"})
        /\ a \in Nat
    BY <1>1, <1>2, <1>3 DEF WithIdEnd
  <2>2. a + 1 \in (a + 1)..b
    BY <2>1
  <2>3. QED
    BY <2>1, <2>2 DEF Span
<1>4. ASSUME WithType(L, a, b, c)
      PROVE  /\ WithIdEnd(L, a, b) /\ c \in Nat /\ b < c /\ c <= Len(L)
             /\ Span(L, b + 1, c, Digit) /\ L[b + 1] \in Digit
  <2>1. /\ WithIdEnd(L, a, b) /\ c \in Nat /\ b < c /\ c <= Len(L) /\ Span(L, b + 1, c, Digit)
        /\ b \in Nat
    BY <1>1, <1>3, <1>4 DEF WithType
  <2>2. b + 1 \in (b + 1)..c
    BY <2>1
  <2>3. QED
    BY <2>1, <2>2 DEF Span
<1>5. ASSUME WithTypeEnd(L, a, b, c, d)
      PROVE  /\ WithType(L, a, b, c) /\ d \in Nat /\ c < d /\ d <= Len(L)
             /\ Span(L, c + 1, d, {"blank"}) /\ L[c + 1] = "blank"
  <2>1. /\ WithType(L, a, b, c) /\ d \in Nat /\ c < d /\ d <= Len(L)
        /\ Span(L, c + 1, d, {"blank"}) /\ c \in Nat
    BY <1>1, <1>4, <1>5 DEF WithTypeEnd
  <2>2. c + 1 \in (c + 1)..d
    BY <2>1
  <2>3. QED
    BY <2>1, <2>2 DEF Span
<1>6. ASSUME WithPath(L, a, b, c, d, e)
      PROVE  /\ WithTypeEnd(L, a, b, c, d) /\ e \in Nat /\ d < e /\ e <= Len(L)
             /\ Span(L, d + 2, e, Field) /\ L[d + 1] = "quote"
  BY <1>1, <1>5, <1>6 DEF WithPath
<1>7. QED
  BY <1>2, <1>3, <1>4, <1>5, <1>6

(* A line has one shape.                                                   *)
LEMMA SameShape ==
  ASSUME NEW L \in Seq(Word), NEW a, NEW b, NEW c, NEW d, NEW e,
         NEW u, NEW v, NEW w, NEW x, NEW y
  PROVE  /\ WithIdEnd(L, a, b) /\ WithIdEnd(L, u, v) => a = u
         /\ WithType(L, a, b, c) /\ WithType(L, u, v, w) => a = u /\ b = v
         /\ WithTypeEnd(L, a, b, c, d) /\ WithTypeEnd(L, u, v, w, x) => a = u /\ b = v /\ c = w
         /\ WithPath(L, a, b, c, d, e) /\ WithPath(L, u, v, w, x, y) =>
              a = u /\ b = v /\ c = w /\ d = x
         /\ WithPath(L, a, b, c, d, e) /\ WithPath(L, u, v, w, x, y)
              /\ L[e + 1] = "quote" /\ L[y + 1] = "quote" =>
              a = u /\ b = v /\ c = w /\ d = x /\ e = y
<1>1. ASSUME WithIdEnd(L, a, b), WithIdEnd(L, u, v) PROVE a = u
  <2>1. /\ a \in Nat /\ u \in Nat /\ Span(L, 1, a, Digit) /\ Span(L, 1, u, Digit)
        /\ L[a + 1] \notin Digit /\ L[u + 1] \notin Digit
    BY <1>1, ShapeIs, Apart
  <2>2. a <= u /\ u <= a
    BY <2>1, RunsEnd
  <2>3. QED
    BY <2>1, <2>2
<1>2. ASSUME WithType(L, a, b, c), WithType(L, u, v, w) PROVE a = u /\ b = v
  <2>1. /\ WithIdEnd(L, a, b) /\ WithIdEnd(L, u, v)
        /\ L[b + 1] \notin {"blank"} /\ L[v + 1] \notin {"blank"}
    BY <1>2, ShapeIs, Apart
  <2>2. a = u
    BY <1>1, <2>1
  <2>3. /\ a \in Nat /\ b \in Nat /\ v \in Nat /\ a < b /\ a < v
        /\ Span(L, a + 1, b, {"blank"}) /\ Span(L, a + 1, v, {"blank"})
    BY <2>1, <2>2, ShapeIs
  <2>4. b <= v /\ v <= b
    BY <2>1, <2>3, RunsEnd
  <2>5. QED
    BY <2>2, <2>3, <2>4
<1>3. ASSUME WithTypeEnd(L, a, b, c, d), WithTypeEnd(L, u, v, w, x) PROVE a = u /\ b = v /\ c = w
  <2>1. /\ WithType(L, a, b, c) /\ WithType(L, u, v, w)
        /\ L[c + 1] \notin Digit /\ L[w + 1] \notin Digit
    <3>1. WithType(L, a, b, c) /\ WithType(L, u, v, w) /\ L[c + 1] = "blank" /\ L[w + 1] = "blank"
      BY <1>3, ShapeIs
    <3>2. QED
      BY <3>1, Apart
  <2>2. a = u /\ b = v
    BY <1>2, <2>1
  <2>3. /\ b \in Nat /\ c \in Nat /\ w \in Nat /\ b < c /\ b < w
        /\ Span(L, b + 1, c, Digit) /\ Span(L, b + 1, w, Digit)
    BY <2>1, <2>2, ShapeIs
  <2>4. c <= w /\ w <= c
    BY <2>1, <2>3, RunsEnd
  <2>5. QED
    BY <2>2, <2>3, <2>4
<1>4. ASSUME WithPath(L, a, b, c, d, e), WithPath(L, u, v, w, x, y)
      PROVE  a = u /\ b = v /\ c = w /\ d = x
  <2>1. /\ WithTypeEnd(L, a, b, c, d) /\ WithTypeEnd(L, u, v, w, x)
        /\ L[d + 1] \notin {"blank"} /\ L[x + 1] \notin {"blank"}
    BY <1>4, ShapeIs, Apart
  <2>2. a = u /\ b = v /\ c = w
    BY <1>3, <2>1
  <2>3. /\ c \in Nat /\ d \in Nat /\ x \in Nat /\ c < d /\ c < x
        /\ Span(L, c + 1, d, {"blank"}) /\ Span(L, c + 1, x, {"blank"})
    BY <2>1, <2>2, ShapeIs
  <2>4. d <= x /\ x <= d
    BY <2>1, <2>3, RunsEnd
  <2>5. QED
    BY <2>2, <2>3, <2>4
<1>5. ASSUME WithPath(L, a, b, c, d, e), WithPath(L, u, v, w, x, y),
             L[e + 1] = "quote", L[y + 1] = "quote"
      PROVE  e = y
  <2>1. d = x /\ L[e + 1] \notin Field /\ L[y + 1] \notin Field
    BY <1>4, <1>5, Apart
  <2>2. /\ d \in Nat /\ e \in Nat /\ y \in Nat /\ d < e /\ d < y
        /\ Span(L, d + 2, e, Field) /\ Span(L, d + 2, y, Field)
    BY <1>5, <2>1, ShapeIs
  <2>3. e <= y /\ y <= e
    BY <2>1, <2>2, RunsEnd
  <2>4. QED
    BY <2>2, <2>3
<1>6. QED
  BY <1>1, <1>2, <1>3, <1>4, <1>5

(* The next character of the line of a volume, after n of them...          *)
LEMMA VolumeIs ==
  ASSUME NEW L \in Seq(Word), NEW a, NEW b, NEW c, NEW d, NEW e, Named(L, a, b, c, d, e)
  PROVE  /\ WithPath(L, a, b, c, d, e) /\ WithTypeEnd(L, a, b, c, d) /\ WithType(L, a, b, c)
         /\ WithIdEnd(L, a, b) /\ WithId(L, a)
         /\ e < Len(L) /\ L[e + 1] = "quote" /\ Span(L, e + 2, Len(L), {"blank"})
         /\ L[a + 1] = "blank" /\ L[b + 1] \in Digit /\ L[c + 1] = "blank" /\ L[d + 1] = "quote"
         /\ Number(0, SubSeq(L, b + 1, c)) < LAST_VOLUME_TYPE /\ Bare(SubSeq(L, d + 2, e)) # <<>>
<1>1. /\ WithPath(L, a, b, c, d, e)
      /\ e < Len(L) /\ L[e + 1] = "quote" /\ Span(L, e + 2, Len(L), {"blank"})
      /\ Number(0, SubSeq(L, b + 1, c)) < LAST_VOLUME_TYPE /\ Bare(SubSeq(L, d + 2, e)) # <<>>
  BY DEF Named, Whole
<1>2. WithTypeEnd(L, a, b, c, d) /\ L[d + 1] = "quote"
  BY <1>1, ShapeIs
<1>3. WithType(L, a, b, c) /\ L[c + 1] = "blank"
  BY <1>2, ShapeIs
<1>4. WithIdEnd(L, a, b) /\ L[b + 1] \in Digit
  BY <1>3, ShapeIs
<1>5. WithId(L, a) /\ L[a + 1] = "blank"
  BY <1>4, ShapeIs
<1>6. QED
  BY <1>1, <1>2, <1>3, <1>4, <1>5

LEMMA NextInSpan ==
  ASSUME NEW L, NEW k \in Nat, NEW n \in Nat, NEW j \in Nat, NEW S, Span(L, k, j, S),
         k <= n + 1, n <= j
  PROVE  n = j \/ L[n + 1] \in S
<1>1. n < j => n + 1 \in k..j
  OBVIOUS
<1>2. QED
  BY <1>1 DEF Span

(* ... in its first number                                                 *)
LEMMA AfterId ==
  ASSUME NEW L \in Seq(Word), IsVolumeLine(L), NEW n \in Nat, Span(L, 1, n, Digit)
  PROVE  L[n + 1] \in Digit \/ (L[n + 1] = "blank" /\ n > 0)
<1>1. PICK a, b, c, d, e : Named(L, a, b, c, d, e)
  BY VolumeLineIs
<1>2. WithId(L, a) /\ L[a + 1] = "blank"
  BY <1>1, VolumeIs
<1>3. a \in Nat /\ 0 < a /\ Span(L, 1, a, Digit)
  BY <1>2, ShapeIs
<1>4. n <= a
  <2>1. L[a + 1] \notin Digit
    BY <1>2, Apart
  <2>2. QED
    BY <1>3, <2>1, RunsEnd
<1>5. n = a \/ L[n + 1] \in Digit
  BY <1>3, <1>4, NextInSpan
<1>6. QED
  BY <1>2, <1>3, <1>5

(* ... behind it                                                           *)
LEMMA AfterIdEnd ==
  ASSUME NEW L \in Seq(Word), IsVolumeLine(L), NEW u, NEW n \in Nat, WithIdEnd(L, u, n)
  PROVE  L[n + 1] \in Digit \/ L[n + 1] = "blank"
<1>1. PICK a, b, c, d, e : Named(L, a, b, c, d, e)
  BY VolumeLineIs
<1>2. WithIdEnd(L, a, b) /\ L[b + 1] \in Digit
  BY <1>1, VolumeIs
<1>3. u = a
  BY <1>2, SameShape
<1>4. /\ a \in Nat /\ a < n /\ Span(L, a + 1, n, {"blank"})
      /\ b \in Nat /\ a < b /\ Span(L, a + 1, b, {"blank"})
  <2>1. WithId(L, a)
    BY <1>2, ShapeIs
  <2>2. QED
    BY <1>2, <1>3, <2>1, ShapeIs
<1>5. n <= b
  <2>1. L[b + 1] \notin {"blank"}
    BY <1>2, Apart
  <2>2. a + 1 <= b + 1
    BY <1>4
  <2>3. QED
    BY <1>4, <2>1, <2>2, RunsEnd
<1>6. n = b \/ L[n + 1] \in {"blank"}
  BY <1>4, <1>5, NextInSpan
<1>7. QED
  BY <1>2, <1>6

(* ... in its second number, which is the one of a type                    *)
LEMMA AfterType ==
  ASSUME NEW L \in Seq(Word), IsVolumeLine(L), NEW u, NEW v, NEW n \in Nat, WithType(L, u, v, n)
  PROVE  \/ L[n + 1] \in Digit
         \/ L[n + 1] = "blank" /\ Number(0, SubSeq(L, v + 1, n)) < LAST_VOLUME_TYPE
<1>1. PICK a, b, c, d, e : Named(L, a, b, c, d, e)
  BY VolumeLineIs
<1>2. /\ WithType(L, a, b, c) /\ L[c + 1] = "blank"
      /\ Number(0, SubSeq(L, b + 1, c)) < LAST_VOLUME_TYPE
  BY <1>1, VolumeIs
<1>3. u = a /\ v = b
  BY <1>2, SameShape
<1>4. /\ b \in Nat /\ b < n /\ Span(L, b + 1, n, Digit)
      /\ c \in Nat /\ b < c /\ Span(L, b + 1, c, Digit)
  <2>1. WithIdEnd(L, a, b)
    BY <1>2, ShapeIs
  <2>2. QED
    BY <1>2, <1>3, <2>1, ShapeIs
<1>5. n <= c
  <2>1. L[c + 1] \notin Digit
    BY <1>2, Apart
  <2>2. QED
    BY <1>4, <2>1, RunsEnd
<1>6. n = c \/ L[n + 1] \in Digit
  BY <1>4, <1>5, NextInSpan
<1>7. QED
  BY <1>2, <1>3, <1>6

(* ... behind it                                                           *)
LEMMA AfterTypeEnd ==
  ASSUME NEW L \in Seq(Word), IsVolumeLine(L), NEW u, NEW v, NEW w, NEW n \in Nat,
         WithTypeEnd(L, u, v, w, n)
  PROVE  L[n + 1] = "blank" \/ L[n + 1] = "quote"
<1>1. PICK a, b, c, d, e : Named(L, a, b, c, d, e)
  BY VolumeLineIs
<1>2. WithTypeEnd(L, a, b, c, d) /\ L[d + 1] = "quote"
  BY <1>1, VolumeIs
<1>3. u = a /\ v = b /\ w = c
  BY <1>2, SameShape
<1>4. /\ c \in Nat /\ c < n /\ Span(L, c + 1, n, {"blank"})
      /\ d \in Nat /\ c < d /\ Span(L, c + 1, d, {"blank"})
  <2>1. WithType(L, a, b, c)
    BY <1>2, ShapeIs
  <2>2. QED
    BY <1>2, <1>3, <2>1, ShapeIs
<1>5. n <= d
  BY <1>2, <1>4, RunsEnd
<1>6. n = d \/ L[n + 1] \in {"blank"}
  BY <1>4, <1>5, NextInSpan
<1>7. QED
  BY <1>2, <1>6

(* ... in its path, which is not empty                                     *)
LEMMA AfterPath ==
  ASSUME NEW L \in Seq(Word), IsVolumeLine(L), NEW u, NEW v, NEW w, NEW x, NEW n \in Nat,
         WithPath(L, u, v, w, x, n)
  PROVE  L[n + 1] \in Field \/ (L[n + 1] = "quote" /\ Bare(SubSeq(L, x + 2, n)) # <<>>)
<1>1. PICK a, b, c, d, e : Named(L, a, b, c, d, e)
  BY VolumeLineIs
<1>2. /\ WithPath(L, a, b, c, d, e) /\ L[e + 1] = "quote"
      /\ Bare(SubSeq(L, d + 2, e)) # <<>>
  BY <1>1, VolumeIs
<1>3. x = d
  BY <1>2, SameShape
<1>4. /\ d \in Nat /\ d < n /\ Span(L, d + 2, n, Field)
      /\ e \in Nat /\ d < e /\ Span(L, d + 2, e, Field)
  <2>1. WithTypeEnd(L, a, b, c, d)
    BY <1>2, ShapeIs
  <2>2. QED
    BY <1>2, <1>3, <2>1, ShapeIs
<1>5. n <= e
  <2>1. L[e + 1] \notin Field
    BY <1>2, Apart
  <2>2. d + 2 <= e + 1
    BY <1>4
  <2>3. QED
    BY <1>4, <2>1, <2>2, RunsEnd
<1>6. n = e \/ L[n + 1] \in Field
  <2>1. d + 2 <= n + 1
    BY <1>4
  <2>2. QED
    BY <1>4, <1>5, <2>1, NextInSpan
<1>7. QED
  BY <1>2, <1>3, <1>6

(* ... and behind its path.                                                *)
LEMMA AfterPathEnd ==
  ASSUME NEW L \in Seq(Word), IsVolumeLine(L), NEW u, NEW v, NEW w, NEW x, NEW y, NEW n \in Nat,
         WithPath(L, u, v, w, x, y), L[y + 1] = "quote", y < n, n < Len(L)
  PROVE  L[n + 1] = "blank"
<1>1. PICK a, b, c, d, e : Named(L, a, b, c, d, e)
  BY VolumeLineIs
<1>2. WithPath(L, a, b, c, d, e) /\ L[e + 1] = "quote" /\ Span(L, e + 2, Len(L), {"blank"})
  BY <1>1, VolumeIs
<1>3. y = e /\ e \in Nat
  <2>1. y = e
    BY <1>2, SameShape
  <2>2. QED
    BY <1>2, <2>1, ShapeIs
<1>4. n + 1 \in (e + 2)..Len(L)
  BY <1>3
<1>5. QED
  BY <1>2, <1>4 DEF Span

-----------------------------------------------------------------------------
(* A character more                                                        *)

LEMMA Appended ==
  ASSUME NEW s \in Seq(Word), NEW x \in Word, NEW l, l = Append(s, x)
  PROVE  /\ l \in Seq(Word) /\ Begins(s, l) /\ Len(l) = Len(s) + 1 /\ l[Len(s) + 1] = x
         /\ \A i \in Nat \ {0}, j \in 0..Len(s) : SubSeq(l, i, j) = SubSeq(s, i, j)
         /\ \A i \in 1..(Len(s) + 1) :
              /\ SubSeq(s, i, Len(s)) \in Seq(Word)
              /\ SubSeq(l, i, Len(s) + 1) = Append(SubSeq(s, i, Len(s)), x)
         /\ \A i \in Nat \ {0} : \A S : Span(s, i, Len(s), S) /\ x \in S => Span(l, i, Len(s) + 1, S)
<1>1. /\ l \in Seq(Word) /\ Len(l) = Len(s) + 1 /\ l[Len(s) + 1] = x /\ Len(s) \in Nat
      /\ \A i \in 1..Len(s) : l[i] = s[i]
  OBVIOUS
<1>2. Begins(s, l)
  BY <1>1 DEF Begins
<1>3. \A i \in Nat \ {0}, j \in 0..Len(s) : SubSeq(l, i, j) = SubSeq(s, i, j)
  BY <1>1, <1>2, LongerFields
<1>4. ASSUME NEW i \in 1..(Len(s) + 1)
      PROVE  /\ SubSeq(s, i, Len(s)) \in Seq(Word)
             /\ SubSeq(l, i, Len(s) + 1) = Append(SubSeq(s, i, Len(s)), x)
  <2> DEFINE p == SubSeq(s, i, Len(s))
             q == SubSeq(l, i, Len(s) + 1)
             n == Len(s)
  <2>1. n \in Nat /\ i \in 1..(n + 1) /\ Len(l) = n + 1
    BY <1>1
  <2>2. p \in Seq(Word)
    BY <1>1, <1>2, LongerFields
  <2>3. /\ Len(p) = n + 1 - i /\ \A m \in 1..(n + 1 - i) : p[m] = s[i + m - 1]
    <3>1. \A m \in i..n : s[m] \in Word
      BY <2>1
    <3>2. /\ Len(p) = IF i <= n THEN n - i + 1 ELSE 0
          /\ \A m \in 1..(n - i + 1) : p[m] = s[i + m - 1]
      BY <2>1, <3>1, SubSeqProperties
    <3> HIDE DEF p, n
    <3>3. n - i + 1 = n + 1 - i /\ (i <= n \/ i = n + 1)
      BY <2>1
    <3>4. QED
      BY <2>1, <3>2, <3>3
  <2>4. /\ q \in Seq(Word) /\ Len(q) = n + 2 - i
        /\ \A m \in 1..(n + 2 - i) : q[m] = l[i + m - 1]
    <3>1. \A m \in i..(n + 1) : l[m] \in Word
      BY <1>1, <2>1
    <3>2. /\ q \in Seq(Word) /\ Len(q) = IF i <= n + 1 THEN n + 1 - i + 1 ELSE 0
          /\ \A m \in 1..(n + 1 - i + 1) : q[m] = l[i + m - 1]
      BY <2>1, <3>1, SubSeqProperties
    <3> HIDE DEF q, n
    <3>3. n + 1 - i + 1 = n + 2 - i /\ i <= n + 1
      BY <2>1
    <3>4. QED
      BY <3>2, <3>3
  <2>5. \A m \in 1..n : l[m] = s[m]
    BY <1>1
  <2>6. l[n + 1] = x
    BY <1>1
  <2> DEFINE r == Append(p, x)
  <2> HIDE DEF p, q, n
  <2>7. /\ r \in Seq(Word) /\ Len(r) = n + 2 - i /\ r[n + 2 - i] = x
        /\ \A m \in 1..(n + 1 - i) : r[m] = p[m]
    BY <2>1, <2>2, <2>3
  <2> HIDE DEF r
  <2>8. ASSUME NEW m \in 1..(n + 2 - i) PROVE q[m] = r[m]
    <3>1. CASE m = n + 2 - i
      <4>1. i + m - 1 = n + 1
        BY <2>1, <3>1
      <4>2. QED
        BY <2>4, <2>6, <2>7, <3>1, <4>1
    <3>2. CASE m # n + 2 - i
      <4>1. m \in 1..(n + 1 - i) /\ i + m - 1 \in 1..n
        BY <2>1, <3>2
      <4>2. r[m] = p[m] /\ p[m] = s[i + m - 1]
        BY <2>3, <2>7, <4>1
      <4>3. q[m] = l[i + m - 1] /\ l[i + m - 1] = s[i + m - 1]
        BY <2>4, <2>5, <4>1
      <4>4. QED
        BY <4>2, <4>3
    <3>3. QED
      BY <3>1, <3>2
  <2>9. q = r
    BY <2>4, <2>7, <2>8
  <2>10. QED
    BY <2>2, <2>9 DEF p, q, n, r
<1>5. ASSUME NEW i \in Nat \ {0}, NEW S, Span(s, i, Len(s), S), x \in S
      PROVE  Span(l, i, Len(s) + 1, S)
  BY <1>1, <1>5 DEF Span
<1>6. QED
  BY <1>1, <1>2, <1>3, <1>4, <1>5

(* What a character makes of a shape.                                      *)
LEMMA Grows ==
  ASSUME NEW s \in Seq(Word), NEW z \in Word, NEW l, l = Append(s, z), NEW n, n = Len(s),
         NEW a, NEW b, NEW c, NEW d, NEW e
  PROVE  /\ Span(s, 1, n, Digit) /\ n > 0 /\ z = "blank" => WithIdEnd(l, n, n + 1)
         /\ WithIdEnd(s, a, n) /\ z = "blank" => WithIdEnd(l, a, n + 1)
         /\ WithIdEnd(s, a, n) /\ z \in Digit => WithType(l, a, n, n + 1)
         /\ WithType(s, a, b, n) /\ z \in Digit => WithType(l, a, b, n + 1)
         /\ WithType(s, a, b, n) /\ z = "blank" => WithTypeEnd(l, a, b, n, n + 1)
         /\ WithTypeEnd(s, a, b, c, n) /\ z = "blank" => WithTypeEnd(l, a, b, c, n + 1)
         /\ WithTypeEnd(s, a, b, c, n) /\ z = "quote" => WithPath(l, a, b, c, n, n + 1)
         /\ WithPath(s, a, b, c, d, n) /\ z \in Field => WithPath(l, a, b, c, d, n + 1)
         /\ WithPath(s, a, b, c, d, n) /\ z = "quote" => Whole(l, a, b, c, d, n)
         /\ Whole(s, a, b, c, d, e) /\ z = "blank" => Whole(l, a, b, c, d, e)
<1>1. /\ l \in Seq(Word) /\ Begins(s, l) /\ Len(l) = n + 1 /\ l[n + 1] = z /\ n \in Nat
      /\ \A i \in Nat \ {0} : \A S : Span(s, i, n, S) /\ z \in S => Span(l, i, n + 1, S)
  <2>1. Len(s) \in Nat
    OBVIOUS
  <2>2. QED
    BY <2>1, Appended
<1>2. n + 1 \in 1..Len(l) /\ n + 1 \in (n + 1)..Len(l)
  BY <1>1
<1>3. \A S : z \in S => Span(l, n + 1, n + 1, S)
  BY <1>1 DEF Span
<1>s. ASSUME NEW k \in Nat, NEW S, Span(s, k + 1, n, S), z \in S PROVE Span(l, k + 1, n + 1, S)
  <2>1. k + 1 \in Nat \ {0}
    OBVIOUS
  <2>2. QED
    BY <1>1, <1>s, <2>1
<1>4. ASSUME Span(s, 1, n, Digit), n > 0, z = "blank" PROVE WithIdEnd(l, n, n + 1)
  <2>1. WithId(s, n)
    BY <1>1, <1>4 DEF WithId
  <2>2. WithId(l, n)
    BY <1>1, <2>1, LongerShape
  <2>3. QED
    BY <1>2, <1>3, <1>4, <2>2 DEF WithIdEnd
<1>5. ASSUME WithIdEnd(s, a, n), z = "blank" PROVE WithIdEnd(l, a, n + 1)
  <2>1. WithId(s, a) /\ a \in Nat /\ a < n /\ Span(s, a + 1, n, {"blank"})
    BY <1>5, ShapeIs
  <2>2. WithId(l, a)
    BY <1>1, <2>1, LongerShape
  <2>s. Span(l, a + 1, n + 1, {"blank"})
    BY <1>5, <1>s, <2>1
  <2>3. n + 1 \in (a + 1)..Len(l)
    BY <1>1, <2>1
  <2>4. QED
    BY <2>2, <2>s, <2>3 DEF WithIdEnd
<1>6. ASSUME WithIdEnd(s, a, n), z \in Digit PROVE WithType(l, a, n, n + 1)
  <2>1. WithIdEnd(l, a, n)
    BY <1>1, <1>6, LongerShape
  <2>2. QED
    BY <1>2, <1>3, <1>6, <2>1 DEF WithType
<1>7. ASSUME WithType(s, a, b, n), z \in Digit PROVE WithType(l, a, b, n + 1)
  <2>1. WithIdEnd(s, a, b) /\ b \in Nat /\ b < n /\ Span(s, b + 1, n, Digit)
    BY <1>7, ShapeIs
  <2>2. WithIdEnd(l, a, b)
    BY <1>1, <2>1, LongerShape
  <2>s. Span(l, b + 1, n + 1, Digit)
    BY <1>7, <1>s, <2>1
  <2>3. n + 1 \in (b + 1)..Len(l)
    BY <1>1, <2>1
  <2>4. QED
    BY <2>2, <2>s, <2>3 DEF WithType
<1>8. ASSUME WithType(s, a, b, n), z = "blank" PROVE WithTypeEnd(l, a, b, n, n + 1)
  <2>1. WithType(l, a, b, n)
    BY <1>1, <1>8, LongerShape
  <2>2. QED
    BY <1>2, <1>3, <1>8, <2>1 DEF WithTypeEnd
<1>9. ASSUME WithTypeEnd(s, a, b, c, n), z = "blank" PROVE WithTypeEnd(l, a, b, c, n + 1)
  <2>1. WithType(s, a, b, c) /\ c \in Nat /\ c < n /\ Span(s, c + 1, n, {"blank"})
    BY <1>9, ShapeIs
  <2>2. WithType(l, a, b, c)
    BY <1>1, <2>1, LongerShape
  <2>s. Span(l, c + 1, n + 1, {"blank"})
    BY <1>9, <1>s, <2>1
  <2>3. n + 1 \in (c + 1)..Len(l)
    BY <1>1, <2>1
  <2>4. QED
    BY <2>2, <2>s, <2>3 DEF WithTypeEnd
<1>10. ASSUME WithTypeEnd(s, a, b, c, n), z = "quote" PROVE WithPath(l, a, b, c, n, n + 1)
  <2>1. WithTypeEnd(l, a, b, c, n)
    BY <1>1, <1>10, LongerShape
  <2>2. Span(l, n + 2, n + 1, Field)
    BY <1>1 DEF Span
  <2>3. QED
    BY <1>1, <1>2, <1>10, <2>1, <2>2 DEF WithPath
<1>11. ASSUME WithPath(s, a, b, c, d, n), z \in Field PROVE WithPath(l, a, b, c, d, n + 1)
  <2>1. WithTypeEnd(s, a, b, c, d) /\ d \in Nat /\ d < n /\ Span(s, d + 2, n, Field)
    BY <1>11, ShapeIs
  <2>2. WithTypeEnd(l, a, b, c, d) /\ WithPath(l, a, b, c, d, n)
    BY <1>1, <1>11, <2>1, LongerShape
  <2>3. Span(l, d + 2, n + 1, Field) /\ l[d + 1] = "quote"
    BY <1>1, <1>11, <2>1, <2>2, ShapeIs
  <2>4. n + 1 \in (d + 1)..Len(l)
    BY <1>1, <2>1
  <2>5. QED
    BY <2>2, <2>3, <2>4 DEF WithPath
<1>12. ASSUME WithPath(s, a, b, c, d, n), z = "quote" PROVE Whole(l, a, b, c, d, n)
  <2>1. WithPath(l, a, b, c, d, n)
    BY <1>1, <1>12, LongerShape
  <2>2. n < Len(l) /\ Span(l, n + 2, Len(l), {"blank"})
    BY <1>1 DEF Span
  <2>3. QED
    BY <1>1, <1>12, <2>1, <2>2 DEF Whole
<1>13. ASSUME Whole(s, a, b, c, d, e), z = "blank" PROVE Whole(l, a, b, c, d, e)
  <2>1. /\ WithPath(s, a, b, c, d, e) /\ e \in Nat /\ e < n /\ s[e + 1] = "quote"
        /\ Span(s, e + 2, n, {"blank"})
    BY <1>13, ShapeIs DEF Whole
  <2>2. WithPath(l, a, b, c, d, e)
    BY <1>1, <2>1, LongerShape
  <2>3. e < Len(l) /\ e + 1 \in 1..Len(s) /\ e + 2 \in Nat \ {0}
    BY <1>1, <2>1
  <2>4. l[e + 1] = "quote"
    BY <1>1, <2>1, <2>3 DEF Begins
  <2>5. Span(l, e + 2, Len(l), {"blank"})
    BY <1>1, <1>13, <2>1, <2>3
  <2>6. QED
    BY <2>2, <2>3, <2>4, <2>5 DEF Whole
<1>14. QED
  BY <1>4, <1>5, <1>6, <1>7, <1>8, <1>9, <1>10, <1>11, <1>12, <1>13

-----------------------------------------------------------------------------
(* The parser and its line                                                 *)

IsId(a)      == id = Number(carried, SubSeq(line, 1, a))
IsType(b, c) == type = Number(0, SubSeq(line, b + 1, c))
Nothing      == type = 0 /\ path = <<>>

InId ==
  /\ status = "id_start" /\ Nothing
  /\ Span(line, 1, Len(line), Digit) /\ field_len = Len(line) /\ id = Number(carried, line)

InIdEnd ==
  /\ status = "id_end" /\ Nothing
  /\ \E a : WithIdEnd(line, a, Len(line)) /\ IsId(a)

InType ==
  /\ status = "type_start" /\ path = <<>> /\ field_len \in Nat \ {0}
  /\ \E a, b : WithType(line, a, b, Len(line)) /\ IsId(a) /\ IsType(b, Len(line))

InTypeEnd ==
  /\ status = "type_end" /\ path = <<>>
  /\ \E a, b, c : WithTypeEnd(line, a, b, c, Len(line)) /\ IsId(a) /\ IsType(b, c)

InPath ==
  /\ status = "path_start" /\ field_len = Len(path)
  /\ \E a, b, c, d : /\ WithPath(line, a, b, c, d, Len(line)) /\ IsId(a) /\ IsType(b, c)
                     /\ path = Bare(SubSeq(line, d + 2, Len(line)))

(* The volume of the line is the first of its list.                        *)
Added(a, b, c, d, e) ==
  LET v == Head(volumes[Kind(Number(0, SubSeq(line, b + 1, c)))])
  IN  /\ v.id = Number(carried, SubSeq(line, 1, a))
      /\ v.type = Number(0, SubSeq(line, b + 1, c))
      /\ v.path = Bare(SubSeq(line, d + 2, e))

InPathEnd ==
  /\ status = "path_end" /\ Nothing
  /\ \E a, b, c, d, e : Named(line, a, b, c, d, e) /\ Added(a, b, c, d, e)

Remarked(l) == IsVolumeLine(Front(l)) \/ \A i \in 1..(Len(l) - 1) : l[i] \in Digit

InRemark == status = "comment" /\ Nothing /\ Remarked(line)

Understood == InId \/ InIdEnd \/ InType \/ InTypeEnd \/ InPath \/ InPathEnd \/ InRemark

Hopeless(l) == \A t \in Seq(Word) : ~IsVolumeLine(l \o t)

Parsed ==
  /\ line \in Seq(Word)
  /\ at # "rest" => Understood
  /\ at = "rest" /\ answer = "conf" => status = "comment" \/ Hopeless(line)

FInv == IInv /\ Parsed

LEMMA StatusIs ==
  ASSUME Understood
  PROVE  /\ status = "id_start" => InId
         /\ status = "id_end" => InIdEnd
         /\ status = "type_start" => InType
         /\ status = "type_end" => InTypeEnd
         /\ status = "path_start" => InPath
         /\ status = "path_end" => InPathEnd
         /\ status = "comment" => InRemark
         /\ status \in {"id_start", "id_end", "type_start", "type_end", "path_start",
                        "path_end", "comment"}
BY DEF Understood, InId, InIdEnd, InType, InTypeEnd, InPath, InPathEnd, InRemark

LEMMA RefusesIs ==
  ASSUME NEW x \in Chars, Refuses(x)
  PROVE  /\ x \in Digit => status \in {"type_end", "path_end"}
         /\ x \in Letter => status \notin {"path_start", "comment"}
         /\ x = "blank" => \/ status = "id_start" /\ field_len < 1
                           \/ status = "type_start" /\ ~TypeIsKnown
         /\ x = "quote" => \/ status \notin {"type_end", "path_start"}
                           \/ status = "path_start" /\ field_len < 1
<1>1. ASSUME x \in Digit PROVE status \in {"type_end", "path_end"}
  <2>1. x # "#" /\ x # "newline" /\ x # "blank" /\ x # "quote"
    BY <1>1, Apart
  <2>2. QED
    BY <1>1, <2>1 DEF Refuses
<1>2. ASSUME x \in Letter PROVE status \notin {"path_start", "comment"}
  <2>1. x # "#" /\ x # "newline" /\ x # "blank" /\ x # "quote" /\ x \notin Digit
    BY <1>2, Apart
  <2>2. QED
    BY <1>2, <2>1 DEF Refuses
<1>3. ASSUME x = "blank"
      PROVE  \/ status = "id_start" /\ field_len < 1
             \/ status = "type_start" /\ ~TypeIsKnown
  <2>1. x # "#" /\ x # "newline" /\ x # "quote" /\ x \notin Digit
    BY <1>3, Apart
  <2>2. QED
    BY <1>3, <2>1 DEF Refuses
<1>4. ASSUME x = "quote"
      PROVE  \/ status \notin {"type_end", "path_start"}
             \/ status = "path_start" /\ field_len < 1
  <2>1. x # "#" /\ x # "newline" /\ x # "blank" /\ x \notin Digit
    BY <1>4, Apart
  <2>2. QED
    BY <1>4, <2>1 DEF Refuses
<1>5. QED
  BY <1>1, <1>2, <1>3, <1>4

(* What is refused, or ends the file within a line, is not how the line of *)
(* a volume goes on.                                                       *)
LEMMA RefusedIs ==
  ASSUME line \in Seq(Word), Understood, IInv, at # "rest", status # "comment",
         NEW x \in Word,
         \/ x \in Chars /\ Refuses(x)
         \/ x = "end" /\ status \notin {"id_start", "path_end"}
  PROVE  Hopeless(Append(line, x))
<1> DEFINE n == Len(line)
<1>1. SUFFICES ASSUME NEW t \in Seq(Word), IsVolumeLine(Append(line, x) \o t) PROVE FALSE
  BY DEF Hopeless
<1> DEFINE L == Append(line, x) \o t
<1>2. /\ L \in Seq(Word) /\ n \in Nat /\ n < Len(L) /\ L[n + 1] = x
      /\ \A i \in 1..n : L[i] = line[i]
  <2>1. Append(line, x) \in Seq(Word) /\ Len(Append(line, x)) = n + 1 /\ n \in Nat /\ Len(t) \in Nat
    OBVIOUS
  <2>2. Append(line, x)[n + 1] = x /\ \A i \in 1..n : Append(line, x)[i] = line[i]
    OBVIOUS
  <2>3. /\ L \in Seq(Word) /\ Len(L) = n + 1 + Len(t)
        /\ \A i \in 1..(n + 1) : L[i] = Append(line, x)[i]
    BY <2>1
  <2>4. QED
    BY <2>1, <2>2, <2>3
<1>3. Begins(line, L) /\ IsVolumeLine(L)
  BY <1>1, <1>2 DEF Begins
<1> HIDE DEF L
<1>4. x = "end" => x \notin Digit /\ x \notin Field /\ x # "blank" /\ x # "quote" /\ x \notin Chars
  BY Apart
<1>n. n \in 0..n /\ n \in Nat
  BY <1>2
<1>5. CASE status = "id_start"
  <2>1. Span(line, 1, n, Digit) /\ field_len = n
    BY <1>5, StatusIs DEF InId
  <2>2. Span(L, 1, n, Digit)
    BY <1>2, <2>1 DEF Span
  <2>3. x \in Digit \/ (x = "blank" /\ n > 0)
    BY <1>2, <1>3, <2>2, AfterId
  <2>4. x \in Chars /\ Refuses(x)
    BY <1>5
  <2>5. QED
    BY <1>5, <1>2, <2>1, <2>3, <2>4, RefusesIs
<1>6. CASE status = "id_end"
  <2>1. PICK a : WithIdEnd(line, a, n)
    BY <1>6, StatusIs DEF InIdEnd
  <2>2. WithIdEnd(L, a, n)
    BY <1>2, <1>3, <2>1, LongerShape
  <2>3. x \in Digit \/ x = "blank"
    BY <1>2, <1>3, <2>2, AfterIdEnd
  <2>4. QED
    BY <1>4, <1>6, <2>3, RefusesIs
<1>7. CASE status = "type_start"
  <2>1. PICK a, b : WithType(line, a, b, n) /\ IsType(b, n)
    BY <1>7, StatusIs DEF InType
  <2>2. field_len > 0
    BY <1>7, StatusIs DEF InType
  <2>3. WithType(L, a, b, n)
    BY <1>2, <1>3, <2>1, LongerShape
  <2>4. b + 1 \in Nat \ {0}
    <3>1. WithIdEnd(line, a, b)
      BY <2>1, ShapeIs
    <3>2. b \in Nat
      BY <3>1, ShapeIs
    <3>3. QED
      BY <3>2
  <2>5. SubSeq(L, b + 1, n) = SubSeq(line, b + 1, n)
    BY <1>2, <1>3, <1>n, <2>4, LongerFields
  <2>6. x \in Digit \/ (x = "blank" /\ type < LAST_VOLUME_TYPE)
    <3>1. \/ x \in Digit
          \/ x = "blank" /\ Number(0, SubSeq(L, b + 1, n)) < LAST_VOLUME_TYPE
      BY <1>2, <1>3, <2>3, AfterType
    <3>2. QED
      BY <2>1, <2>5, <3>1 DEF IsType
  <2>7. QED
    BY <1>4, <1>7, <2>2, <2>6, RefusesIs DEF TypeIsKnown
<1>8. CASE status = "type_end"
  <2>1. PICK a, b, c : WithTypeEnd(line, a, b, c, n)
    BY <1>8, StatusIs DEF InTypeEnd
  <2>2. WithTypeEnd(L, a, b, c, n)
    BY <1>2, <1>3, <2>1, LongerShape
  <2>3. x = "blank" \/ x = "quote"
    BY <1>2, <1>3, <2>2, AfterTypeEnd
  <2>4. QED
    BY <1>4, <1>8, <2>3, RefusesIs
<1>9. CASE status = "path_start"
  <2>1. PICK a, b, c, d : WithPath(line, a, b, c, d, n) /\ path = Bare(SubSeq(line, d + 2, n))
    BY <1>9, StatusIs DEF InPath
  <2>2. field_len = Len(path) /\ path \in Seq(Letter \cup Digit)
    BY <1>9, StatusIs DEF InPath, IInv, Reading
  <2>3. WithPath(L, a, b, c, d, n)
    BY <1>2, <1>3, <2>1, LongerShape
  <2>4. d + 2 \in Nat \ {0}
    <3>1. WithTypeEnd(line, a, b, c, d)
      BY <2>1, ShapeIs
    <3>2. d \in Nat
      BY <3>1, ShapeIs
    <3>3. QED
      BY <3>2
  <2>5. SubSeq(L, d + 2, n) = SubSeq(line, d + 2, n)
    BY <1>2, <1>3, <1>n, <2>4, LongerFields
  <2>6. x \in Field \/ (x = "quote" /\ path # <<>>)
    <3>1. x \in Field \/ (x = "quote" /\ Bare(SubSeq(L, d + 2, n)) # <<>>)
      BY <1>2, <1>3, <2>3, AfterPath
    <3>2. QED
      BY <2>1, <2>5, <3>1
  <2>7. path # <<>> => ~(field_len < 1)
    BY <2>2
  <2>8. x \in Digit \/ x \in Letter \/ x = "blank" \/ (x = "quote" /\ ~(field_len < 1))
    BY <2>6, <2>7 DEF Field
  <2>9. QED
    BY <1>4, <1>9, <2>6, <2>8, RefusesIs
<1>10. CASE status = "path_end"
  <2>1. PICK a, b, c, d, e : Named(line, a, b, c, d, e)
    BY <1>10, StatusIs DEF InPathEnd
  <2>2. WithPath(line, a, b, c, d, e) /\ e < n /\ line[e + 1] = "quote" /\ e \in Nat
    BY <1>2, <2>1, VolumeIs, ShapeIs
  <2>3. WithPath(L, a, b, c, d, e) /\ L[e + 1] = "quote"
    <3>1. e + 1 \in 1..n
      BY <1>2, <2>2
    <3>2. QED
      BY <1>2, <1>3, <2>2, <3>1, LongerShape
  <2>4. x = "blank"
    BY <1>2, <1>3, <2>2, <2>3, AfterPathEnd
  <2>5. x \in Chars /\ Refuses(x)
    BY <1>10
  <2>6. QED
    BY <1>10, <2>4, <2>5, RefusesIs
<1>11. QED
  BY <1>5, <1>6, <1>7, <1>8, <1>9, <1>10, StatusIs

-----------------------------------------------------------------------------
(* The actions                                                             *)

LEMMA SameUnderstood ==
  ASSUME Understood, UNCHANGED parseVars, UNCHANGED volumes
  PROVE  Understood'
BY DEF Understood, InId, InIdEnd, InType, InTypeEnd, InPath, InPathEnd, InRemark,
       IsId, IsType, Nothing, Added, Remarked, parseVars

LEMMA WaitsParsed ==
  ASSUME Parsed, OpenConf \/ InitStrings \/ ReadSome \/ ReadEnd
  PROVE  Parsed'
<1>1. at # "rest" /\ at' # "rest" /\ UNCHANGED parseVars /\ UNCHANGED volumes
  <2>1. CASE OpenConf
    BY <2>1 DEF OpenConf
  <2>2. CASE InitStrings
    BY <2>2 DEF InitStrings, managerVars
  <2>3. CASE ReadSome
    <3>1. at = "read" /\ at' \in {"read", "parse"} /\ UNCHANGED <<managerVars, parseVars>>
      BY <2>3 DEF ReadSome
    <3>2. QED
      BY <3>1 DEF managerVars
  <2>4. CASE ReadEnd
    BY <2>4 DEF ReadEnd, managerVars
  <2>5. QED
    BY <2>1, <2>2, <2>3, <2>4
<1>2. Understood' /\ line' = line
  BY <1>1, SameUnderstood DEF Parsed, parseVars
<1>3. QED
  BY <1>1, <1>2 DEF Parsed

LEMMA FailedParsed ==
  ASSUME Parsed, NEW e, NEW n, NEW kept, Fail(e, n, kept), e # "conf", line' = line
  PROVE  Parsed'
<1>1. at' = "rest" /\ answer' = e
  BY DEF Fail, Return
<1>2. QED
  BY <1>1 DEF Parsed

LEMMA FailuresParsed ==
  ASSUME Parsed,
         \/ OpenConfFails \/ InitStringFails \/ ReadFails
         \/ PathFails \/ LoadFails \/ ListFails
  PROVE  Parsed'
<1>1. CASE OpenConfFails
  BY <1>1, FailedParsed DEF OpenConfFails, Failing
<1>2. CASE InitStringFails
  BY <1>2, FailedParsed DEF InitStringFails, Failing
<1>3. CASE ReadFails
  BY <1>3, FailedParsed DEF ReadFails, Failing
<1>4. CASE LoadFails
  BY <1>4, FailedParsed DEF LoadFails, Failing
<1>5. CASE ListFails
  BY <1>5, FailedParsed DEF ListFails
<1>6. CASE PathFails
  BY <1>6, FailedParsed DEF PathFails, Failing
<1>7. QED
  BY <1>1, <1>2, <1>3, <1>4, <1>5, <1>6

LEMMA ConfParsed ==
  ASSUME Parsed, NEW x \in Word, line' = Append(line, x), at' = "rest", Hopeless(line')
  PROVE  Parsed'
BY DEF Parsed

LEMMA EndOfFileParsed ==
  ASSUME Parsed, IInv, EndOfFile
  PROVE  Parsed'
<1>1. at # "rest" /\ line' = Append(line, "end") /\ at' = "rest" /\ "end" \in Word
  BY DEF EndOfFile, Failing, Fail, Word
<1>2. CASE status \in {"id_start", "path_end", "comment"}
  <2>1. answer' = "ok" /\ line' \in Seq(Word)
    BY <1>1, <1>2 DEF EndOfFile, Return, Parsed
  <2>2. QED
    BY <1>1, <2>1 DEF Parsed
<1>3. CASE status \notin {"id_start", "path_end", "comment"}
  <2>1. Hopeless(line')
    BY <1>1, <1>3, RefusedIs DEF Parsed
  <2>2. QED
    BY <1>1, <2>1, ConfParsed
<1>4. QED
  BY <1>2, <1>3

LEMMA RefuseParsed ==
  ASSUME Parsed, IInv, Refuse
  PROVE  Parsed'
<1>1. PICK x \in Chars : Refuses(x) /\ Reads(x)
  BY DEF Refuse
<1>2. at # "rest" /\ at' = "rest" /\ status' = status /\ x \in Word
  BY DEF Refuse, Failing, Fail, Word
<1>3. CASE status = "comment"
  <2>1. line' = line
    BY <1>1, <1>3 DEF Reads
  <2>2. QED
    BY <1>2, <1>3, <2>1 DEF Parsed
<1>4. CASE status # "comment"
  <2>1. line' = Append(line, x)
    BY <1>1, <1>4 DEF Reads
  <2>2. Hopeless(line')
    BY <1>1, <1>2, <1>4, <2>1, RefusedIs DEF Parsed
  <2>3. QED
    BY <1>2, <2>1, <2>2, ConfParsed
<1>5. QED
  BY <1>3, <1>4

(* An empty line is the beginning of an id.                                *)
LEMMA EmptyLine ==
  ASSUME status' = "id_start", type' = 0, path' = <<>>, field_len' = 0,
         line' = <<>>, carried' = id'
  PROVE  Understood' /\ line' \in Seq(Word)
<1>1. Number(id', <<>>) = id'
  <2>1. <<>> \in Seq(Word) /\ "end" \in Word
    BY DEF Word
  <2>2. QED
    BY <2>1, NumberAppend
<1>2. Span(<<>>, 1, Len(<<>>), Digit) /\ Len(<<>>) = 0 /\ <<>> \in Seq(Word)
  BY DEF Span
<1>3. InId'
  BY <1>1, <1>2 DEF InId, Nothing
<1>4. QED
  BY <1>2, <1>3 DEF Understood

LEMMA ForgetIs ==
  ASSUME Forget
  PROVE  Understood' /\ line' \in Seq(Word)
BY EmptyLine DEF Forget, ForgetFields

LEMMA InitVolumeManagerParsed ==
  ASSUME Parsed, initVolumeManager
  PROVE  Parsed'
<1>1. answer' # "conf" /\ Forget
  BY DEF initVolumeManager
<1>2. QED
  BY <1>1, ForgetIs DEF Parsed

(* The calls of a manager never answer with an error of its configuration. *)
LEMMA OutcomesPlain ==
  /\ \A o \in allocPagesFromVolume :
        o.error # "conf" /\ \A m : [o EXCEPT !.records = m].error # "conf"
  /\ \A o \in freePagesToVolume : o.error # "conf"
  /\ \A o \in loadPageFromVolume : o.error # "conf"
  /\ \A o \in savePageToVolume : o.error # "conf"
<1>1. \A o \in freePagesToVolume : o.error # "conf"
  BY DEF freePagesToVolume, HeaderFails, Seek, setVolumeHeader, Outcome
<1>2. \A o \in loadPageFromVolume : o.error # "conf"
  BY DEF loadPageFromVolume, Seek, Outcome
<1>3. \A o \in savePageToVolume : o.error # "conf"
  BY DEF savePageToVolume, Seek, Outcome
<1>4. ASSUME NEW o \in allocPagesFromVolume
      PROVE  o.error # "conf" /\ \A m : [o EXCEPT !.records = m].error # "conf"
  <2>1. o.error # "conf" /\ \E r, v, w : o = [error |-> r, records |-> v, moves |-> w]
    BY <1>4 DEF allocPagesFromVolume, HeaderFails, Seek, setVolumeHeader, Outcome
  <2>2. QED
    BY <2>1
<1>5. QED
  BY <1>1, <1>2, <1>3, <1>4

LEMMA CalledParsed ==
  ASSUME NEW x, Called(x), answer' # "conf"
  PROVE  Parsed'
<1>1. at' = "rest" /\ Forget
  BY DEF Called
<1>2. QED
  BY <1>1, ForgetIs DEF Parsed

LEMMA CallsParsed ==
  ASSUME \/ \E k \in Kinds : allocPages(k) \/ NoVolumeOfType(k)
         \/ \E n \in 0..MaxNumber : freePages(n) \/ loadPage(n) \/ savePage(n)
         \/ destroyVolumeManager
  PROVE  Parsed'
<1>1. ASSUME NEW k \in Kinds, allocPages(k) PROVE Parsed'
  <2>1. Called("alloc") /\ answer' # "conf"
    BY <1>1, OutcomesPlain DEF allocPages, Answer
  <2>2. QED
    BY <2>1, CalledParsed
<1>2. ASSUME NEW k \in Kinds, NoVolumeOfType(k) PROVE Parsed'
  <2>1. Called("alloc") /\ answer' # "conf"
    BY <1>2 DEF NoVolumeOfType, Answer, Outcome
  <2>2. QED
    BY <2>1, CalledParsed
<1>3. ASSUME NEW n \in 0..MaxNumber, freePages(n) PROVE Parsed'
  <2>1. Called("free") /\ answer' # "conf"
    BY <1>3, OutcomesPlain DEF freePages, Answer
  <2>2. QED
    BY <2>1, CalledParsed
<1>4. ASSUME NEW n \in 0..MaxNumber, loadPage(n) PROVE Parsed'
  <2>1. Called("load") /\ answer' # "conf"
    BY <1>4, OutcomesPlain DEF loadPage, Answer
  <2>2. QED
    BY <2>1, CalledParsed
<1>5. ASSUME NEW n \in 0..MaxNumber, savePage(n) PROVE Parsed'
  <2>1. Called("save") /\ answer' # "conf"
    BY <1>5, OutcomesPlain DEF savePage, Answer
  <2>2. QED
    BY <2>1, CalledParsed
<1>6. CASE destroyVolumeManager
  <2>1. Forget /\ at' = "rest" /\ answer' = "ok"
    BY <1>6 DEF destroyVolumeManager
  <2>2. QED
    BY <2>1, ForgetIs DEF Parsed
<1>7. QED
  BY <1>1, <1>2, <1>3, <1>4, <1>5, <1>6

(* A turn of the parser with the character x.                              *)
LEMMA Turned ==
  ASSUME Parsed, NEW x \in Chars, NEW s, NEW n, Turn(x, s, n)
  PROVE  /\ at' # "rest" /\ Understood /\ line \in Seq(Word) /\ line' \in Seq(Word) /\ x \in Word
         /\ status' = s /\ field_len' = n /\ Len(line) \in Nat
         /\ status = "comment" => line' = line
         /\ status # "comment" => line' = Append(line, x) /\ Len(line') = Len(line) + 1
         /\ Understood' => Parsed'
<1>1. at = "parse" /\ at' = Goes /\ status' = s /\ field_len' = n /\ Reads(x)
  BY DEF Turn
<1>2. at' # "rest" /\ x \in Word
  BY <1>1 DEF Goes, Word
<1>3. Understood /\ line \in Seq(Word) /\ Len(line) \in Nat
  BY <1>1 DEF Parsed
<1>4. status = "comment" => line' = line
  BY <1>1 DEF Reads
<1>5. status # "comment" => line' = Append(line, x)
  BY <1>1 DEF Reads
<1>6. Append(line, x) \in Seq(Word) /\ Len(Append(line, x)) = Len(line) + 1
  BY <1>2, <1>3
<1>7. line' \in Seq(Word)
  BY <1>3, <1>4, <1>5, <1>6
<1>8. QED
  BY <1>1, <1>2, <1>3, <1>4, <1>5, <1>6, <1>7 DEF Parsed

LEMMA NewLineParsed ==
  ASSUME Parsed, NewLine
  PROVE  Parsed'
<1>1. /\ at = "parse" /\ at' = Goes /\ status \in {"comment", "path_end"}
      /\ status' = "id_start" /\ field_len' = 0 /\ line' = <<>> /\ carried' = id
      /\ id' = id /\ type' = type /\ path' = path
  BY DEF NewLine
<1>2. type = 0 /\ path = <<>>
  BY <1>1, StatusIs DEF Parsed, InPathEnd, InRemark, Nothing
<1>3. Understood' /\ line' \in Seq(Word)
  BY <1>1, <1>2, EmptyLine
<1>4. at' # "rest"
  BY <1>1 DEF Goes
<1>5. QED
  BY <1>3, <1>4 DEF Parsed

LEMMA FrontOf ==
  ASSUME NEW s \in Seq(Word), NEW x \in Word
  PROVE  Front(Append(s, x)) = s /\ \A i \in 1..(Len(Append(s, x)) - 1) : Append(s, x)[i] = s[i]
<1>1. Len(Append(s, x)) = Len(s) + 1 /\ Len(s) \in Nat
  OBVIOUS
<1>2. Len(Append(s, x)) - 1 = Len(s)
  BY <1>1
<1>3. SubSeq(Append(s, x), 1, Len(s)) = SubSeq(s, 1, Len(s))
  BY <1>1, Appended
<1>4. SubSeq(s, 1, Len(s)) = s
  BY SubSeqFull
<1>5. Front(Append(s, x)) = s
  BY <1>2, <1>3, <1>4 DEF Front
<1>6. ASSUME NEW i \in 1..Len(s) PROVE Append(s, x)[i] = s[i]
  OBVIOUS
<1>7. QED
  BY <1>2, <1>5, <1>6

LEMMA CommentParsed ==
  ASSUME Parsed, StartsComment \/ InComment
  PROVE  Parsed'
<1>1. CASE StartsComment
  <2>1. /\ Turn("#", "comment", field_len) /\ "#" \in Chars /\ status \in {"id_start", "path_end"}
        /\ type' = type /\ path' = path
    BY <1>1 DEF StartsComment, Stays, Chars
  <2>2. /\ Understood /\ line \in Seq(Word) /\ status' = "comment" /\ "#" \in Word
        /\ line' = Append(line, "#") /\ (Understood' => Parsed')
    BY <2>1, Turned
  <2>3. type = 0 /\ path = <<>>
    BY <2>1, <2>2, StatusIs DEF InId, InPathEnd, Nothing
  <2>4. Front(line') = line /\ \A i \in 1..(Len(line') - 1) : line'[i] = line[i]
    BY <2>2, FrontOf
  <2>5. Remarked(line')
    <3>1. CASE status = "id_start"
      <4>1. Span(line, 1, Len(line), Digit)
        BY <2>2, <3>1, StatusIs DEF InId
      <4>2. Len(line') - 1 = Len(line)
        BY <2>2
      <4>3. QED
        BY <2>4, <4>1, <4>2 DEF Span, Remarked
    <3>2. CASE status = "path_end"
      <4>1. PICK a, b, c, d, e : Named(line, a, b, c, d, e)
        BY <2>2, <3>2, StatusIs DEF InPathEnd
      <4>2. IsVolumeLine(line)
        BY <2>2, <4>1, VolumeLineIs
      <4>3. QED
        BY <2>4, <4>2 DEF Remarked
    <3>3. QED
      BY <2>1, <3>1, <3>2
  <2>6. InRemark'
    BY <2>1, <2>2, <2>3, <2>5 DEF InRemark, Nothing
  <2>7. QED
    BY <2>2, <2>6 DEF Understood
<1>2. CASE InComment
  <2>1. PICK x \in Chars : Turn(x, "comment", field_len)
    BY <1>2 DEF InComment
  <2>2. status = "comment" /\ type' = type /\ path' = path
    BY <1>2 DEF InComment, Stays
  <2>3. Understood /\ status' = "comment" /\ line' = line /\ (Understood' => Parsed')
    BY <2>1, <2>2, Turned
  <2>4. InRemark
    BY <2>2, <2>3, StatusIs
  <2>5. InRemark'
    BY <2>2, <2>3, <2>4 DEF InRemark, Nothing
  <2>6. QED
    BY <2>3, <2>5 DEF Understood
<1>3. QED
  BY <1>1, <1>2

(* What was read of a line stays where it is.                              *)
LEMMA KeepsFields ==
  ASSUME line \in Seq(Word), NEW x \in Word, line' = Append(line, x), UNCHANGED <<id, carried>>,
         NEW a
  PROVE  /\ WithId(line, a) /\ IsId(a) => IsId(a)'
         /\ \A b, c : WithType(line, a, b, c) /\ IsType(b, c) /\ type' = type => IsType(b, c)'
<1>1. \A i \in Nat \ {0}, j \in 0..Len(line) : SubSeq(line', i, j) = SubSeq(line, i, j)
  BY Appended
<1>2. Len(line) \in Nat
  OBVIOUS
<1>3. ASSUME WithId(line, a), IsId(a) PROVE IsId(a)'
  <2>1. a \in 0..Len(line)
    BY <1>2, <1>3 DEF WithId
  <2>2. SubSeq(line', 1, a) = SubSeq(line, 1, a)
    BY <1>1, <2>1
  <2>3. QED
    BY <1>3, <2>2 DEF IsId
<1>4. ASSUME NEW b, NEW c, WithType(line, a, b, c), IsType(b, c), type' = type PROVE IsType(b, c)'
  <2>1. WithIdEnd(line, a, b) /\ c \in Nat /\ c <= Len(line)
    BY <1>4, ShapeIs
  <2>2. b \in Nat
    BY <2>1, ShapeIs
  <2>3. SubSeq(line', b + 1, c) = SubSeq(line, b + 1, c)
    BY <1>1, <1>2, <2>1, <2>2
  <2>4. QED
    BY <1>4, <2>3 DEF IsType
<1>5. QED
  BY <1>3, <1>4

LEMMA ShapeHasId ==
  ASSUME NEW l \in Seq(Word), NEW a, NEW b, NEW c, NEW d, NEW e
  PROVE  /\ WithIdEnd(l, a, b) => WithId(l, a)
         /\ WithType(l, a, b, c) => WithIdEnd(l, a, b) /\ WithId(l, a)
         /\ WithTypeEnd(l, a, b, c, d) => WithType(l, a, b, c) /\ WithId(l, a)
         /\ WithPath(l, a, b, c, d, e) =>
              WithTypeEnd(l, a, b, c, d) /\ WithType(l, a, b, c) /\ WithId(l, a)
<1>1. WithIdEnd(l, a, b) => WithId(l, a)
  BY ShapeIs
<1>2. WithType(l, a, b, c) => WithIdEnd(l, a, b) /\ WithId(l, a)
  BY <1>1, ShapeIs
<1>3. WithTypeEnd(l, a, b, c, d) => WithType(l, a, b, c) /\ WithId(l, a)
  BY <1>2, ShapeIs
<1>4. WithPath(l, a, b, c, d, e) =>
        WithTypeEnd(l, a, b, c, d) /\ WithType(l, a, b, c) /\ WithId(l, a)
  BY <1>3, ShapeIs
<1>5. QED
  BY <1>1, <1>2, <1>3, <1>4

LEMMA IdDigitParsed ==
  ASSUME Parsed, IdDigit
  PROVE  Parsed'
<1>1. PICK x \in Digit : Turn(x, "id_start", field_len + 1) /\ id' = id * 10 + value(x)
  BY DEF IdDigit
<1>2. status = "id_start" /\ type' = type /\ path' = path /\ carried' = carried /\ x \in Chars
  BY DEF IdDigit, Chars
<1>3. /\ Understood /\ line \in Seq(Word) /\ status' = "id_start" /\ field_len' = field_len + 1
      /\ line' = Append(line, x) /\ Len(line') = Len(line) + 1 /\ (Understood' => Parsed')
      /\ x \in Word
  BY <1>1, <1>2, Turned
<1>4. InId
  BY <1>2, <1>3, StatusIs
<1>5. id' = Number(carried', line')
  <2>1. Number(carried, line') = Number(carried, line) * 10 + value(x)
    BY <1>3, NumberAppend
  <2>2. QED
    BY <1>1, <1>2, <1>4, <2>1 DEF InId
<1>6. Span(line', 1, Len(line'), Digit)
  <2>1. Span(line, 1, Len(line), Digit)
    BY <1>4 DEF InId
  <2>2. Span(line', 1, Len(line) + 1, Digit)
    BY <1>3, <2>1, 1 \in Nat \ {0}, Appended
  <2>3. QED
    BY <1>3, <2>2
<1>7. InId'
  BY <1>2, <1>3, <1>4, <1>5, <1>6 DEF InId, Nothing
<1>8. QED
  BY <1>3, <1>7 DEF Understood

LEMMA EndOfIdParsed ==
  ASSUME Parsed, EndOfId
  PROVE  Parsed'
<1>1. /\ status = "id_start" /\ field_len > 0 /\ Turn("blank", "id_end", field_len)
      /\ UNCHANGED <<id, type, path, carried>> /\ "blank" \in Chars
  BY DEF EndOfId, Stays, Chars
<1>2. /\ Understood /\ line \in Seq(Word) /\ status' = "id_end"
      /\ line' = Append(line, "blank") /\ Len(line') = Len(line) + 1 /\ (Understood' => Parsed')
      /\ "blank" \in Word
  BY <1>1, Turned
<1>3. InId
  BY <1>1, <1>2, StatusIs
<1> DEFINE n == Len(line)
<1>4. Span(line, 1, n, Digit) /\ n > 0 /\ n \in Nat /\ id = Number(carried, line)
  BY <1>1, <1>2, <1>3 DEF InId
<1>5. WithIdEnd(line', n, n + 1)
  BY <1>2, <1>4, Grows
<1>6. id' = Number(carried', SubSeq(line', 1, n))
  <2>1. SubSeq(line', 1, n) = SubSeq(line, 1, n)
    BY <1>2, <1>4, Appended
  <2>2. SubSeq(line, 1, n) = line
    BY <1>2, SubSeqFull
  <2>3. QED
    BY <1>1, <1>4, <2>1, <2>2
<1>7. InIdEnd'
  <2>1. WithIdEnd(line', n, Len(line'))
    BY <1>2, <1>5
  <2>2. type' = 0 /\ path' = <<>>
    BY <1>1, <1>3 DEF InId, Nothing
  <2> HIDE DEF n
  <2>3. \E a : WithIdEnd(line', a, Len(line')) /\ id' = Number(carried', SubSeq(line', 1, a))
    BY <1>6, <2>1
  <2>4. QED
    BY <1>2, <2>2, <2>3 DEF InIdEnd, Nothing, IsId
<1>8. QED
  BY <1>2, <1>7 DEF Understood

LEMMA TypeDigitParsed ==
  ASSUME Parsed, TypeDigit
  PROVE  Parsed'
<1> DEFINE n == Len(line)
<1>1. PICK x \in Digit : /\ Turn(x, "type_start", IF status = "id_end" THEN 1 ELSE field_len + 1)
                         /\ type' = type * 10 + value(x)
  BY DEF TypeDigit
<1>2. /\ status \in {"id_end", "type_start"} /\ UNCHANGED <<id, path, carried>>
      /\ x \in Chars /\ x \in Digit
  BY DEF TypeDigit, Chars
<1>3. /\ Understood /\ line \in Seq(Word) /\ status' = "type_start" /\ n \in Nat /\ x \in Word
      /\ field_len' = (IF status = "id_end" THEN 1 ELSE field_len + 1)
      /\ line' = Append(line, x) /\ Len(line') = n + 1 /\ (Understood' => Parsed')
  BY <1>1, <1>2, Turned
<1>4. /\ path' = <<>> /\ field_len' \in Nat \ {0}
      /\ \E a, b : /\ WithType(line', a, b, n + 1)
                   /\ id' = Number(carried', SubSeq(line', 1, a))
                   /\ type' = Number(0, SubSeq(line', b + 1, n + 1))
  <2>1. ASSUME NEW b \in 0..n, type = Number(0, SubSeq(line, b + 1, n))
        PROVE  type' = Number(0, SubSeq(line', b + 1, n + 1))
    <3>1. b + 1 \in 1..(n + 1)
      BY <1>3
    <3>2. /\ SubSeq(line, b + 1, n) \in Seq(Word)
          /\ SubSeq(line', b + 1, n + 1) = Append(SubSeq(line, b + 1, n), x)
      <4>1. line \in Seq(Word) /\ x \in Word /\ line' = Append(line, x)
        BY <1>3
      <4>2. \A i \in 1..(n + 1) : /\ SubSeq(line, i, n) \in Seq(Word)
                                 /\ SubSeq(line', i, n + 1) = Append(SubSeq(line, i, n), x)
        BY <4>1, Appended
      <4>3. QED
        BY <3>1, <4>2
    <3>3. Number(0, Append(SubSeq(line, b + 1, n), x))
            = Number(0, SubSeq(line, b + 1, n)) * 10 + value(x)
      <4> DEFINE p == SubSeq(line, b + 1, n)
      <4>1. p \in Seq(Word) /\ x \in Word
        BY <1>3, <3>2
      <4> HIDE DEF p
      <4>2. Number(0, Append(p, x)) = Number(0, p) * 10 + value(x)
        BY <4>1, NumberAppend
      <4>3. QED
        BY <4>2 DEF p
    <3>4. QED
      BY <1>1, <2>1, <3>2, <3>3
  <2>2. CASE status = "id_end"
    <3>1. InIdEnd
      BY <1>3, <2>2, StatusIs
    <3>2. PICK a : WithIdEnd(line, a, n) /\ IsId(a)
      BY <3>1 DEF InIdEnd
    <3>3. type = 0 /\ path = <<>>
      BY <3>1 DEF InIdEnd, Nothing
    <3>4. WithType(line', a, n, n + 1)
      BY <1>2, <1>3, <3>2, Grows
    <3>5. id' = Number(carried', SubSeq(line', 1, a))
      <4>1. WithId(line, a)
        BY <1>3, <3>2, ShapeHasId
      <4>2. IsId(a)'
        BY <1>2, <1>3, <3>2, <4>1, KeepsFields
      <4>3. QED
        BY <4>2 DEF IsId
    <3>6. type = Number(0, SubSeq(line, n + 1, n))
      <4>1. SubSeq(line, n + 1, n) = <<>>
        BY <1>3, SubSeqEmpty
      <4>2. Number(0, <<>>) = 0
        BY <1>3, NumberAppend
      <4>3. QED
        BY <3>3, <4>1, <4>2
    <3>7. n \in 0..n
      BY <1>3
    <3>8. type' = Number(0, SubSeq(line', n + 1, n + 1))
      BY <2>1, <3>6, <3>7
    <3>9. field_len' \in Nat \ {0} /\ path' = <<>>
      BY <1>2, <1>3, <2>2, <3>3
    <3> HIDE DEF n
    <3>10. QED
      BY <3>4, <3>5, <3>8, <3>9
  <2>3. CASE status = "type_start"
    <3>1. InType
      BY <1>3, <2>3, StatusIs
    <3>2. PICK a, b : WithType(line, a, b, n) /\ IsId(a) /\ IsType(b, n)
      BY <3>1 DEF InType
    <3>3. field_len \in Nat \ {0} /\ path = <<>>
      BY <3>1 DEF InType
    <3>4. WithType(line', a, b, n + 1)
      BY <1>2, <1>3, <3>2, Grows
    <3>5. id' = Number(carried', SubSeq(line', 1, a))
      <4>1. WithId(line, a)
        BY <1>3, <3>2, ShapeHasId
      <4>2. IsId(a)'
        BY <1>2, <1>3, <3>2, <4>1, KeepsFields
      <4>3. QED
        BY <4>2 DEF IsId
    <3>6. b \in 0..n
      <4>1. WithIdEnd(line, a, b)
        BY <1>3, <3>2, ShapeHasId
      <4>2. b \in Nat /\ b <= n
        BY <1>3, <4>1, ShapeIs
      <4>3. QED
        BY <1>3, <4>2
    <3>7. type = Number(0, SubSeq(line, b + 1, n))
      BY <3>2 DEF IsType
    <3>8. type' = Number(0, SubSeq(line', b + 1, n + 1))
      BY <2>1, <3>6, <3>7
    <3>9. field_len' \in Nat \ {0} /\ path' = <<>>
      BY <1>2, <1>3, <2>3, <3>3
    <3> HIDE DEF n
    <3>10. QED
      BY <3>4, <3>5, <3>8, <3>9
  <2>4. QED
    BY <1>2, <2>2, <2>3
<1>5. InType'
  <2> HIDE DEF n
  <2>1. \E a, b : /\ WithType(line', a, b, Len(line'))
                  /\ id' = Number(carried', SubSeq(line', 1, a))
                  /\ type' = Number(0, SubSeq(line', b + 1, Len(line')))
    BY <1>3, <1>4
  <2>2. QED
    BY <1>3, <1>4, <2>1 DEF InType, IsId, IsType
<1>6. QED
  BY <1>3, <1>5 DEF Understood

LEMMA EndOfTypeParsed ==
  ASSUME Parsed, EndOfType
  PROVE  Parsed'
<1> DEFINE n == Len(line)
<1>1. /\ status = "type_start" /\ Turn("blank", "type_end", field_len)
      /\ UNCHANGED <<id, type, path, carried>> /\ "blank" \in Chars
  BY DEF EndOfType, Stays, Chars
<1>2. /\ Understood /\ line \in Seq(Word) /\ status' = "type_end" /\ n \in Nat
      /\ line' = Append(line, "blank") /\ Len(line') = n + 1 /\ (Understood' => Parsed')
      /\ "blank" \in Word
  BY <1>1, Turned
<1>3. InType
  BY <1>1, <1>2, StatusIs
<1>4. PICK a, b : WithType(line, a, b, n) /\ IsId(a) /\ IsType(b, n)
  BY <1>3 DEF InType
<1>5. WithTypeEnd(line', a, b, n, Len(line'))
  BY <1>2, <1>4, Grows
<1>6. id' = Number(carried', SubSeq(line', 1, a))
  <2>1. WithId(line, a)
    BY <1>2, <1>4, ShapeHasId
  <2>2. IsId(a)'
    BY <1>1, <1>2, <1>4, <2>1, KeepsFields
  <2>3. QED
    BY <2>2 DEF IsId
<1>7. type' = Number(0, SubSeq(line', b + 1, n))
  <2>1. WithIdEnd(line, a, b)
    BY <1>2, <1>4, ShapeHasId
  <2>2. b + 1 \in Nat \ {0} /\ n \in 0..n
    <3>1. b \in Nat
      BY <1>2, <2>1, ShapeIs
    <3>2. QED
      BY <1>2, <3>1
  <2>3. SubSeq(line', b + 1, n) = SubSeq(line, b + 1, n)
    BY <1>2, <2>2, Appended
  <2>4. QED
    BY <1>1, <1>4, <2>3 DEF IsType
<1>8. path' = <<>>
  BY <1>1, <1>3 DEF InType
<1>9. InTypeEnd'
  <2> HIDE DEF n
  <2>1. \E u, v, w : /\ WithTypeEnd(line', u, v, w, Len(line'))
                     /\ id' = Number(carried', SubSeq(line', 1, u))
                     /\ type' = Number(0, SubSeq(line', v + 1, w))
    BY <1>5, <1>6, <1>7
  <2>2. QED
    BY <1>2, <1>8, <2>1 DEF InTypeEnd, IsId, IsType
<1>10. QED
  BY <1>2, <1>9 DEF Understood

LEMMA StartsPathParsed ==
  ASSUME Parsed, StartsPath
  PROVE  Parsed'
<1> DEFINE n == Len(line)
<1>1. /\ status = "type_end" /\ Turn("quote", "path_start", 0)
      /\ UNCHANGED <<id, type, path, carried>> /\ "quote" \in Chars
  BY DEF StartsPath, Stays, Chars
<1>2. /\ Understood /\ line \in Seq(Word) /\ status' = "path_start" /\ n \in Nat /\ field_len' = 0
      /\ line' = Append(line, "quote") /\ Len(line') = n + 1 /\ (Understood' => Parsed')
      /\ "quote" \in Word
  BY <1>1, Turned
<1>3. InTypeEnd
  BY <1>1, <1>2, StatusIs
<1>4. PICK a, b, c : WithTypeEnd(line, a, b, c, n) /\ IsId(a) /\ IsType(b, c)
  BY <1>3 DEF InTypeEnd
<1>5. WithPath(line', a, b, c, n, Len(line'))
  BY <1>2, <1>4, Grows
<1>6. IsId(a)' /\ IsType(b, c)'
  <2>1. WithId(line, a) /\ WithType(line, a, b, c)
    BY <1>2, <1>4, ShapeHasId
  <2>2. QED
    BY <1>1, <1>2, <1>4, <2>1, KeepsFields
<1>7. path' = Bare(SubSeq(line', n + 2, Len(line'))) /\ Len(path') = 0
  <2>1. SubSeq(line', n + 2, n + 1) = <<>>
    BY <1>2, SubSeqEmpty
  <2>2. Bare(<<>>) = <<>>
    BY <1>2, BareAppend
  <2>3. path' = <<>>
    BY <1>1, <1>3 DEF InTypeEnd
  <2>4. QED
    BY <1>2, <2>1, <2>2, <2>3
<1>8. InPath'
  <2> HIDE DEF n
  <2>1. \E u, v, w, x : /\ WithPath(line', u, v, w, x, Len(line')) /\ IsId(u)' /\ IsType(v, w)'
                        /\ path' = Bare(SubSeq(line', x + 2, Len(line')))
    BY <1>5, <1>6, <1>7
  <2>2. QED
    BY <1>2, <1>7, <2>1 DEF InPath
<1>9. QED
  BY <1>2, <1>8 DEF Understood

(* A character of a path, or a blank in it.                                *)
LEMMA PathGrows ==
  ASSUME line \in Seq(Word), InPath, NEW x \in Field, x \in Word, line' = Append(line, x),
         status' = "path_start", UNCHANGED <<id, type, carried>>, path' = Adds(path, x),
         field_len' = Len(path')
  PROVE  InPath'
<1> DEFINE n == Len(line)
<1>1. n \in Nat /\ Len(line') = n + 1
  OBVIOUS
<1>2. PICK a, b, c, d : /\ WithPath(line, a, b, c, d, n) /\ IsId(a) /\ IsType(b, c)
                        /\ path = Bare(SubSeq(line, d + 2, n))
  BY DEF InPath
<1>3. WithPath(line', a, b, c, d, Len(line'))
  BY <1>1, <1>2, Grows
<1>4. IsId(a)' /\ IsType(b, c)'
  <2>1. WithId(line, a) /\ WithType(line, a, b, c)
    BY <1>2, ShapeHasId
  <2>2. QED
    BY <1>2, <2>1, KeepsFields
<1>5. path' = Bare(SubSeq(line', d + 2, Len(line')))
  <2> DEFINE p == SubSeq(line, d + 2, n)
  <2>1. d + 2 \in 1..(n + 1)
    <3>1. WithTypeEnd(line, a, b, c, d) /\ d < n
      BY <1>2, ShapeIs
    <3>2. d \in Nat
      BY <3>1, ShapeIs
    <3>3. QED
      BY <1>1, <3>1, <3>2
  <2>2. p \in Seq(Word) /\ SubSeq(line', d + 2, n + 1) = Append(p, x)
    <3>1. \A i \in 1..(n + 1) : /\ SubSeq(line, i, n) \in Seq(Word)
                               /\ SubSeq(line', i, n + 1) = Append(SubSeq(line, i, n), x)
      BY Appended
    <3>2. QED
      BY <2>1, <3>1
  <2>3. path = Bare(p)
    BY <1>2
  <2> HIDE DEF p, n
  <2>4. Bare(Append(p, x)) = Adds(Bare(p), x)
    BY <2>2, BareAppend
  <2>5. QED
    BY <1>1, <2>2, <2>3, <2>4
<1>6. QED
  <2> HIDE DEF n
  <2>1. \E u, v, w, y : /\ WithPath(line', u, v, w, y, Len(line')) /\ IsId(u)' /\ IsType(v, w)'
                        /\ path' = Bare(SubSeq(line', y + 2, Len(line')))
    BY <1>3, <1>4, <1>5
  <2>2. QED
    BY <2>1 DEF InPath

LEMMA PathByteParsed ==
  ASSUME Parsed, IInv, PathByte
  PROVE  Parsed'
<1>1. PICK x \in Letter \cup Digit : Turn(x, "path_start", field_len + 1) /\ path' = Append(path, x)
  BY DEF PathByte
<1>2. /\ status = "path_start" /\ UNCHANGED <<id, type, carried>> /\ x \in Chars /\ x \in Field
  BY DEF PathByte, Chars, Field
<1>3. /\ Understood /\ line \in Seq(Word) /\ status' = "path_start" /\ x \in Word
      /\ field_len' = field_len + 1 /\ line' = Append(line, x) /\ (Understood' => Parsed')
  BY <1>1, <1>2, Turned
<1>4. InPath
  BY <1>2, <1>3, StatusIs
<1>5. path' = Adds(path, x)
  <2>1. x # "blank"
    BY Apart
  <2>2. QED
    BY <1>1, <2>1 DEF Adds
<1>6. field_len' = Len(path')
  <2>1. path \in Seq(Letter \cup Digit) /\ field_len = Len(path)
    BY <1>4 DEF IInv, Reading, InPath
  <2>2. Len(Append(path, x)) = Len(path) + 1
    BY <2>1
  <2>3. QED
    BY <1>1, <1>3, <2>1, <2>2
<1>7. InPath'
  BY <1>2, <1>3, <1>4, <1>5, <1>6, PathGrows
<1>8. QED
  BY <1>3, <1>7 DEF Understood

(* Where the fields are.                                                   *)
LEMMA FieldRanges ==
  ASSUME NEW s \in Seq(Word), NEW a, NEW b, NEW c, NEW d, NEW e, WithPath(s, a, b, c, d, e)
  PROVE  /\ a \in 0..Len(s) /\ c \in 0..Len(s) /\ e \in 0..Len(s)
         /\ 1 \in Nat \ {0} /\ b + 1 \in Nat \ {0} /\ d + 2 \in Nat \ {0}
<1>1. WithId(s, a) /\ WithType(s, a, b, c) /\ WithTypeEnd(s, a, b, c, d)
  BY ShapeHasId
<1>2. WithIdEnd(s, a, b)
  BY <1>1, ShapeHasId
<1>3. /\ a \in Nat /\ a <= Len(s) /\ b \in Nat /\ c \in Nat /\ c <= Len(s)
      /\ d \in Nat /\ e \in Nat /\ e <= Len(s)
  BY <1>1, <1>2, ShapeIs
<1>4. QED
  BY <1>3

LEMMA NamedGrows ==
  ASSUME line \in Seq(Word), "blank" \in Word, line' = Append(line, "blank"),
         UNCHANGED <<carried, volumes>>,
         NEW a, NEW b, NEW c, NEW d, NEW e, Named(line, a, b, c, d, e), Added(a, b, c, d, e)
  PROVE  Named(line', a, b, c, d, e) /\ Added(a, b, c, d, e)'
<1>1. Whole(line, a, b, c, d, e) /\ WithPath(line, a, b, c, d, e)
  BY DEF Named, Whole
<1>2. Whole(line', a, b, c, d, e)
  BY <1>1, Grows
<1>3. /\ SubSeq(line', 1, a) = SubSeq(line, 1, a) /\ SubSeq(line', b + 1, c) = SubSeq(line, b + 1, c)
      /\ SubSeq(line', d + 2, e) = SubSeq(line, d + 2, e)
  <2>1. \A i \in Nat \ {0}, j \in 0..Len(line) : SubSeq(line', i, j) = SubSeq(line, i, j)
    BY Appended
  <2>2. QED
    BY <1>1, <2>1, FieldRanges
<1>4. Named(line', a, b, c, d, e)
  BY <1>2, <1>3 DEF Named
<1>5. Added(a, b, c, d, e)'
  BY <1>3 DEF Added
<1>6. QED
  BY <1>4, <1>5

LEMMA SkipBlankParsed ==
  ASSUME Parsed, SkipBlank
  PROVE  Parsed'
<1> DEFINE n == Len(line)
<1>1. /\ status \in {"id_end", "type_end", "path_start", "path_end"}
      /\ Turn("blank", status, field_len)
      /\ UNCHANGED <<id, type, path, carried>> /\ volumes' = volumes /\ "blank" \in Chars
  BY DEF SkipBlank, Stays, Chars, managerVars
<1>2. /\ Understood /\ line \in Seq(Word) /\ status' = status /\ n \in Nat /\ field_len' = field_len
      /\ line' = Append(line, "blank") /\ Len(line') = n + 1 /\ (Understood' => Parsed')
      /\ "blank" \in Word
  BY <1>1, Turned
<1>3. CASE status = "id_end"
  <2>1. InIdEnd
    BY <1>2, <1>3, StatusIs
  <2>2. PICK a : WithIdEnd(line, a, n) /\ IsId(a)
    BY <2>1 DEF InIdEnd
  <2>3. WithIdEnd(line', a, Len(line'))
    BY <1>2, <2>2, Grows
  <2>4. IsId(a)'
    <3>1. WithId(line, a)
      BY <1>2, <2>2, ShapeHasId
    <3>2. QED
      BY <1>1, <1>2, <2>2, <3>1, KeepsFields
  <2>5. InIdEnd'
    <3>1. \E u : WithIdEnd(line', u, Len(line')) /\ IsId(u)'
      BY <2>3, <2>4
    <3>2. QED
      BY <1>1, <1>2, <2>1, <3>1 DEF InIdEnd, Nothing
  <2>6. QED
    BY <1>2, <2>5 DEF Understood
<1>4. CASE status = "type_end"
  <2>1. InTypeEnd
    BY <1>2, <1>4, StatusIs
  <2>2. PICK a, b, c : WithTypeEnd(line, a, b, c, n) /\ IsId(a) /\ IsType(b, c)
    BY <2>1 DEF InTypeEnd
  <2>3. WithTypeEnd(line', a, b, c, Len(line'))
    BY <1>2, <2>2, Grows
  <2>4. IsId(a)' /\ IsType(b, c)'
    <3>1. WithId(line, a) /\ WithType(line, a, b, c)
      BY <1>2, <2>2, ShapeHasId
    <3>2. QED
      BY <1>1, <1>2, <2>2, <3>1, KeepsFields
  <2>5. InTypeEnd'
    <3>1. \E u, v, w : WithTypeEnd(line', u, v, w, Len(line')) /\ IsId(u)' /\ IsType(v, w)'
      BY <2>3, <2>4
    <3>2. QED
      BY <1>1, <1>2, <2>1, <3>1 DEF InTypeEnd
  <2>6. QED
    BY <1>2, <2>5 DEF Understood
<1>5. CASE status = "path_start"
  <2>1. InPath
    BY <1>2, <1>5, StatusIs
  <2>2. "blank" \in Field /\ path' = Adds(path, "blank") /\ field_len' = Len(path')
    BY <1>1, <1>2, <2>1 DEF Field, Adds, InPath
  <2>3. InPath'
    BY <1>1, <1>2, <1>5, <2>1, <2>2, PathGrows
  <2>4. QED
    BY <1>2, <2>3 DEF Understood
<1>6. CASE status = "path_end"
  <2>1. InPathEnd
    BY <1>2, <1>6, StatusIs
  <2>2. PICK a, b, c, d, e : Named(line, a, b, c, d, e) /\ Added(a, b, c, d, e)
    BY <2>1 DEF InPathEnd
  <2>3. Named(line', a, b, c, d, e) /\ Added(a, b, c, d, e)'
    BY <1>1, <1>2, <2>2, NamedGrows
  <2>4. InPathEnd'
    <3>1. \E u, v, w, x, y : Named(line', u, v, w, x, y) /\ Added(u, v, w, x, y)'
      BY <2>3
    <3>2. QED
      BY <1>1, <1>2, <2>1, <3>1 DEF InPathEnd, Nothing
  <2>5. QED
    BY <1>2, <2>4 DEF Understood
<1>7. QED
  BY <1>1, <1>3, <1>4, <1>5, <1>6

(* The line of a volume is complete, and the volume is put in front.       *)
LEMMA EndOfPathParsed ==
  ASSUME Parsed, IInv, EndOfPath
  PROVE  Parsed'
<1> DEFINE n == Len(line)
           v == [id |-> id, type |-> type, path |-> path, fd |-> NewFile]
<1>1. /\ status = "path_start" /\ field_len > 0 /\ Turn("quote", "path_end", field_len)
      /\ id' = 0 /\ type' = 0 /\ path' = <<>> /\ carried' = carried
      /\ volumes' = [volumes EXCEPT ![Kind(type)] = <<v>> \o @]
      /\ "quote" \in Chars
  BY DEF EndOfPath, EndsPath, loadVolume, Chars
<1>2. /\ Understood /\ line \in Seq(Word) /\ status' = "path_end" /\ n \in Nat
      /\ line' = Append(line, "quote") /\ Len(line') = n + 1 /\ (Understood' => Parsed')
      /\ "quote" \in Word
  BY <1>1, Turned
<1>3. InPath
  BY <1>1, <1>2, StatusIs
<1>4. PICK a, b, c, d : /\ WithPath(line, a, b, c, d, n) /\ IsId(a) /\ IsType(b, c)
                        /\ path = Bare(SubSeq(line, d + 2, n))
  BY <1>3 DEF InPath
<1>5. Whole(line', a, b, c, d, n)
  BY <1>2, <1>4, Grows
<1>6. /\ id = Number(carried, SubSeq(line', 1, a)) /\ type = Number(0, SubSeq(line', b + 1, c))
      /\ path = Bare(SubSeq(line', d + 2, n))
  <2>1. /\ SubSeq(line', 1, a) = SubSeq(line, 1, a) /\ SubSeq(line', b + 1, c) = SubSeq(line, b + 1, c)
        /\ SubSeq(line', d + 2, n) = SubSeq(line, d + 2, n)
    <3>1. \A i \in Nat \ {0}, j \in 0..n : SubSeq(line', i, j) = SubSeq(line, i, j)
      BY <1>2, Appended
    <3>2. QED
      BY <1>2, <1>4, <3>1, FieldRanges
  <2>2. QED
    BY <1>4, <2>1 DEF IsId, IsType
<1>7. type < LAST_VOLUME_TYPE /\ path # <<>>
  <2>1. at # "rest"
    BY DEF EndOfPath, Turn
  <2>2. type < LAST_VOLUME_TYPE
    BY <1>1, <2>1 DEF IInv, Reading
  <2>3. field_len = Len(path)
    BY <1>3 DEF InPath
  <2>4. QED
    BY <1>1, <2>2, <2>3
<1>8. Named(line', a, b, c, d, n)
  BY <1>5, <1>6, <1>7 DEF Named
<1>9. Head(volumes'[Kind(type)]) = v
  <2>1. volumes \in [Kinds -> Seq(Volume)] /\ Kind(type) \in Kinds
    BY KindIsKnown DEF IInv, Ownership
  <2>2. volumes'[Kind(type)] = <<v>> \o volumes[Kind(type)] /\ volumes[Kind(type)] \in Seq(Volume)
    BY <1>1, <2>1
  <2> HIDE DEF v
  <2>3. Head(<<v>> \o volumes[Kind(type)]) = v
    BY <2>2
  <2>4. QED
    BY <2>2, <2>3
<1>10. InPathEnd'
  <2>1. v.id = id /\ v.type = type /\ v.path = path
    OBVIOUS
  <2> HIDE DEF v
  <2>2. LET w == Head(volumes'[Kind(Number(0, SubSeq(line', b + 1, c)))])
        IN  /\ w.id = Number(carried', SubSeq(line', 1, a))
            /\ w.type = Number(0, SubSeq(line', b + 1, c))
            /\ w.path = Bare(SubSeq(line', d + 2, n))
    BY <1>1, <1>6, <1>9, <2>1
  <2> HIDE DEF n
  <2>3. \E p, q, r, s, e : 
          /\ Named(line', p, q, r, s, e)
          /\ LET w == Head(volumes'[Kind(Number(0, SubSeq(line', q + 1, r)))])
             IN  /\ w.id = Number(carried', SubSeq(line', 1, p))
                 /\ w.type = Number(0, SubSeq(line', q + 1, r))
                 /\ w.path = Bare(SubSeq(line', s + 2, e))
    BY <1>8, <2>2
  <2>4. QED
    BY <1>1, <1>2, <2>3 DEF InPathEnd, Nothing, Added
<1>11. QED
  BY <1>2, <1>10 DEF Understood

-----------------------------------------------------------------------------

LEMMA StartParsed == Init => Parsed
BY DEF Init, Parsed

LEMMA StepParsed ==
  ASSUME FInv, [Next]_vars
  PROVE  Parsed'
<1>1. CASE Parse
  BY <1>1, CommentParsed, NewLineParsed, IdDigitParsed, EndOfIdParsed, TypeDigitParsed,
     EndOfTypeParsed, StartsPathParsed, PathByteParsed, EndOfPathParsed, SkipBlankParsed,
     RefuseParsed, FailuresParsed DEF Parse, FInv
<1>2. CASE OpenConfFails \/ InitStringFails \/ ReadFails
  BY <1>2, FailuresParsed DEF FInv
<1>3. CASE OpenConf \/ InitStrings \/ ReadSome \/ ReadEnd
  BY <1>3, WaitsParsed DEF FInv
<1>4. CASE initVolumeManager
  BY <1>4, InitVolumeManagerParsed DEF FInv
<1>5. CASE EndOfFile
  BY <1>5, EndOfFileParsed DEF FInv
<1>6. CASE \/ \E k \in Kinds : allocPages(k) \/ NoVolumeOfType(k)
           \/ \E n \in 0..MaxNumber : freePages(n) \/ loadPage(n) \/ savePage(n)
           \/ destroyVolumeManager
  BY <1>6, CallsParsed
<1>7. CASE UNCHANGED vars
  <2>1. UNCHANGED parseVars /\ UNCHANGED volumes /\ at' = at /\ answer' = answer
        /\ line' = line /\ status' = status
    BY <1>7 DEF vars, managerVars, parseVars, callVars
  <2>2. at # "rest" => Understood'
    BY <2>1, SameUnderstood DEF FInv, Parsed
  <2>3. QED
    BY <2>1, <2>2 DEF FInv, Parsed
<1>8. QED
  BY <1>1, <1>2, <1>3, <1>4, <1>5, <1>6, <1>7 DEF Next

LEMMA CompletionsAre == Completions \subseteq Seq(Word)
<1>1. ASSUME NEW dd \in Digit, NEW x \in Letter, NEW i \in 1..8
      PROVE  SubSeq(<<dd, "blank", dd, "blank", "quote", x, "quote">>, i, 7) \in Seq(Word)
  <2> DEFINE w == <<dd, "blank", dd, "blank", "quote", x, "quote">>
  <2>1. w \in Seq(Word) /\ Len(w) = 7
    BY DEF Word, Chars
  <2>2. \A m \in i..7 : w[m] \in Word
    BY <2>1
  <2> HIDE DEF w
  <2>3. SubSeq(w, i, 7) \in Seq(Word)
    BY <2>2, SubSeqProperties
  <2>4. QED
    BY <2>3 DEF w
<1>2. ASSUME NEW t \in Completions PROVE t \in Seq(Word)
  <2> DEFINE W(dd, x) == {SubSeq(<<dd, "blank", dd, "blank", "quote", x, "quote">>, i, 7) : i \in 1..8}
  <2>1. Completions = UNION {W(dd, x) : dd \in Digit, x \in Letter}
    BY DEF Completions
  <2>2. \A dd \in Digit, x \in Letter : \A r \in W(dd, x) : r \in Seq(Word)
    BY <1>1
  <2> HIDE DEF W
  <2>3. PICK dd \in Digit, x \in Letter : t \in W(dd, x)
    BY <2>1
  <2>4. QED
    BY <2>2, <2>3
<1>3. QED
  BY <1>2

LEMMA ParsedReads == FInv => ReadsFormat
<1>1. SUFFICES ASSUME FInv PROVE ReadsFormat
  OBVIOUS
<1>2. line \in Seq(Word) /\ (at # "rest" => Understood)
  BY <1>1 DEF FInv, Parsed
<1>3. ASSUME at # "rest", status = "path_end"
      PROVE  /\ IsVolumeLine(line)
             /\ LET f == Fields(line) IN Is(Head(volumes[Kind(Number(0, f.type))]), f)
  <2>1. PICK a, b, c, d, e : Named(line, a, b, c, d, e) /\ Added(a, b, c, d, e)
    BY <1>2, <1>3, StatusIs DEF InPathEnd
  <2>2. IsVolumeLine(line)
    BY <1>2, <2>1, VolumeLineIs
  <2> DEFINE f == Fields(line)
  <2>3. f = [id |-> SubSeq(line, 1, a), type |-> SubSeq(line, b + 1, c),
             path |-> Bare(SubSeq(line, d + 2, e)), well_formed |-> TRUE]
    <3>1. Whole(line, a, b, c, d, e)
      BY <2>1 DEF Named
    <3>2. QED
      BY <1>2, <3>1, FieldsOf
  <2> HIDE DEF f
  <2>4. /\ f.id = SubSeq(line, 1, a) /\ f.type = SubSeq(line, b + 1, c)
        /\ f.path = Bare(SubSeq(line, d + 2, e))
    BY <2>3
  <2>5. Is(Head(volumes[Kind(Number(0, f.type))]), f)
    BY <2>1, <2>4 DEF Added, Is
  <2>6. QED
    BY <2>2, <2>5 DEF f
<1>4. ASSUME at # "rest", status = "comment"
      PROVE  \/ IsVolumeLine(Front(line))
             \/ \A i \in 1..(Len(line) - 1) : line[i] \in Digit
  BY <1>2, <1>4, StatusIs DEF InRemark, Remarked
<1>5. ASSUME at = "rest", answer = "conf"
      PROVE  status = "comment" \/ \A t \in Completions : ~IsVolumeLine(line \o t)
  <2>1. status = "comment" \/ Hopeless(line)
    BY <1>1, <1>5 DEF FInv, Parsed
  <2>2. QED
    BY <2>1, CompletionsAre DEF Hopeless
<1>6. QED
  BY <1>3, <1>4, <1>5 DEF ReadsFormat

(* However a configuration file is cut into reads and buffers, a volume is *)
(* loaded, with these fields, for each line that has the format of line 60 *)
(* of the source and for no other, and the file is refused only where no   *)
(* continuation of the line has that format, or in a comment.              *)
THEOREM LinesAreRead == Spec => []ReadsFormat
<1>1. Init => FInv
  BY StartInv, StartParsed DEF FInv
<1>2. FInv /\ [Next]_vars => FInv'
  BY StepInv, StepParsed DEF FInv
<1>3. QED
  BY <1>1, <1>2, ParsedReads, PTL DEF Spec

(* Where it is refused otherwise than in a comment, nothing that could     *)
(* follow makes the line one of a volume, of whatever length: TLC tries    *)
(* the shortest lines only.                                                *)
THEOREM RefusedLinesAreLost ==
  Spec => [](at = "rest" /\ answer = "conf" => status = "comment" \/ Hopeless(line))
<1>1. Init => FInv
  BY StartInv, StartParsed DEF FInv
<1>2. FInv /\ [Next]_vars => FInv'
  BY StepInv, StepParsed DEF FInv
<1>3. FInv => (at = "rest" /\ answer = "conf" => status = "comment" \/ Hopeless(line))
  BY DEF FInv, Parsed
<1>4. QED
  BY <1>1, <1>2, <1>3, PTL DEF Spec

=============================================================================
