----------------------------- MODULE IniFile_proofs -----------------------------
(***************************************************************************)
(* For any files, keys, values and lines: memory agrees with the file, and *)
(* the two maps over the lines of the files implement the store of         *)
(* ConfStore.                                                              *)
(***************************************************************************)
EXTENDS IniFile, SequenceTheorems, WellFoundedInduction, TLAPS

-----------------------------------------------------------------------------
(***************************************************************************)
(* The lines of a key.                                                     *)
(***************************************************************************)

\* A set of indices has a greatest.
LEMMA GreatestIndex ==
  ASSUME NEW n \in Nat, NEW S \in SUBSET (1 .. n), S # {}
  PROVE  Max(S) \in S /\ \A i \in S : Max(S) >= i
<1> DEFINE R == OpToRel(<, Nat)
           T == {n - i : i \in S}
<1>1. IsWellFoundedOn(R, Nat)
  BY NatLessThanWellFounded
<1>2. \A x, y \in Nat : x < y => <<x, y>> \in R
  <2>1. R = {ss \in Nat \X Nat : ss[1] < ss[2]}
    BY DEF OpToRel
  <2> HIDE DEF R
  <2> QED BY <2>1
<1> HIDE DEF R
<1>3. T \subseteq Nat /\ T # {}
  <2>1. \A i \in S : n - i \in Nat
    OBVIOUS
  <2> QED BY <2>1
<1>4. PICK x \in T : \A y \in T : ~ (<<y, x>> \in R)
  <2> HIDE DEF T
  <2> QED BY <1>1, <1>3, WFMin
<1>5. PICK m \in S : x = n - m
  OBVIOUS
<1>6. \A i \in S : m >= i
  <2>1. SUFFICES ASSUME NEW i \in S PROVE m >= i
    OBVIOUS
  <2>2. n - i \in T /\ n - i \in Nat /\ n - m \in Nat
    OBVIOUS
  <2>3. ~ (n - i < n - m)
    BY <1>2, <1>4, <1>5, <2>2
  <2> QED BY <2>2, <2>3
<1>7. \E k \in S : \A i \in S : k >= i
  BY <1>6
<1> QED BY <1>7 DEF Max

Active(lines) == {i \in DOMAIN lines : ~ lines[i].off}

\* The value of a key is that of its last active line.
LEMMA ValueOfLast ==
  ASSUME NEW lines \in Lines
  PROVE  /\ Active(lines) = {} => ValueIn(lines) = Missing
         /\ \A m \in Active(lines) :
              (\A i \in Active(lines) : m >= i) => ValueIn(lines) = lines[m].val
         /\ Active(lines) # {} =>
              \E m \in Active(lines) : \A i \in Active(lines) : m >= i
<1> DEFINE S == Active(lines)
<1>1. Len(lines) \in Nat /\ DOMAIN lines = 1 .. Len(lines)
  BY DEF Lines
<1>2. S \in SUBSET (1 .. Len(lines))
  BY <1>1 DEF Active
<1>3. ValueIn(lines) = IF S = {} THEN Missing ELSE lines[Max(S)].val
  BY DEF ValueIn, Active
<1> HIDE DEF S
<1>4. S # {} => Max(S) \in S /\ \A i \in S : Max(S) >= i
  BY <1>1, <1>2, GreatestIndex
<1>5. \A m \in S : (\A i \in S : m >= i) => m = Max(S)
  <2>1. SUFFICES ASSUME NEW m \in S, \A i \in S : m >= i PROVE m = Max(S)
    OBVIOUS
  <2>2. Max(S) \in S /\ Max(S) >= m /\ m >= Max(S)
    BY <1>4, <2>1
  <2>3. Max(S) \in Nat /\ m \in Nat
    <3> DEFINE x == Max(S)
    <3>1. x \in S
      BY <2>2
    <3> HIDE DEF x
    <3>2. x \in Nat /\ m \in Nat
      BY <1>1, <1>2, <3>1
    <3> QED BY <3>2 DEF x
  <2> QED BY <2>2, <2>3
<1> QED BY <1>3, <1>4, <1>5 DEF S

LEMMA ValueInType ==
  ASSUME NEW lines \in Lines
  PROVE  ValueIn(lines) \in Values \cup {Missing}
<1>1. \A i \in DOMAIN lines : lines[i].val \in Values
  <2>1. \A i \in DOMAIN lines : lines[i] \in [off : BOOLEAN, val : Values]
    <3> DEFINE Line == [off : BOOLEAN, val : Values]
    <3>1. lines \in Seq(Line)
      BY DEF Lines
    <3> HIDE DEF Line
    <3>2. DOMAIN lines = 1 .. Len(lines)
      BY <3>1
    <3>3. \A i \in DOMAIN lines : lines[i] \in Line
      BY <3>1, <3>2, ElementOfSeq
    <3> QED BY <3>3 DEF Line
  <2> QED BY <2>1
<1>2. CASE Active(lines) = {}
  BY <1>2, ValueOfLast
<1>3. CASE Active(lines) # {}
  <2>1. PICK m \in Active(lines) : \A i \in Active(lines) : m >= i
    BY <1>3, ValueOfLast
  <2>2. ValueIn(lines) = lines[m].val /\ m \in DOMAIN lines
    BY <2>1, ValueOfLast DEF Active
  <2> QED BY <1>1, <2>2
<1> QED BY <1>2, <1>3

LEMMA EmptyHasNoValue == <<>> \in Lines /\ ValueIn(<<>>) = Missing
<1>1. <<>> \in Lines /\ Active(<<>>) = {}
  BY DEF Lines, Active
<1> QED BY <1>1, ValueOfLast

LEMMA ReplacedType ==
  ASSUME NEW lines \in Lines, NEW v \in Values
  PROVE  /\ Replaced(lines, v) \in Lines
         /\ Len(Replaced(lines, v)) = IF lines = <<>> THEN 1 ELSE Len(lines)
<1>1. On(v) \in [off : BOOLEAN, val : Values]
  BY DEF On
<1> HIDE DEF On
<1>2. CASE lines = <<>>
  BY <1>1, <1>2 DEF Replaced, Lines
<1>3. CASE lines # <<>>
  BY <1>1, <1>3 DEF Replaced, Lines
<1> QED BY <1>2, <1>3

\* A save makes the value that is set the value of the key, unless another line
\* of it comes later: then the old one wins.
LEMMA ReplacedValue ==
  ASSUME NEW lines \in Lines, NEW v \in Values
  PROVE  /\ ValueIn(Replaced(lines, v)) \in {v, ValueIn(lines)}
         /\ Len(Replaced(lines, v)) <= 1 => ValueIn(Replaced(lines, v)) = v
<1> DEFINE new == Replaced(lines, v)
<1>1. new \in Lines /\ Len(new) = IF lines = <<>> THEN 1 ELSE Len(lines)
  BY ReplacedType
<1>2. /\ DOMAIN new = 1 .. Len(new) /\ Len(new) \in Nat /\ Len(new) >= 1
      /\ new[1].off = FALSE /\ new[1].val = v
      /\ lines # <<>> => /\ DOMAIN lines = DOMAIN new
                         /\ \A i \in DOMAIN lines : i # 1 => new[i] = lines[i]
  <2>1. CASE lines = <<>>
    <3>1. new = <<On(v)>>
      BY <2>1 DEF Replaced
    <3>2. Len(new) = 1 /\ new[1] = On(v) /\ DOMAIN new = 1 .. 1
      BY <3>1
    <3> QED BY <2>1, <3>2 DEF On
  <2>2. CASE lines # <<>>
    <3>1. new = [lines EXCEPT ![1] = On(v)]
      BY <2>2 DEF Replaced
    <3>2. DOMAIN lines = 1 .. Len(lines) /\ Len(lines) \in Nat /\ Len(lines) >= 1
      BY <2>2 DEF Lines
    <3>3. /\ DOMAIN new = DOMAIN lines /\ new[1] = On(v)
          /\ \A i \in DOMAIN lines : i # 1 => new[i] = lines[i]
      BY <3>1, <3>2
    <3> QED BY <1>1, <2>2, <3>2, <3>3 DEF On
  <2> QED BY <2>1, <2>2
<1> HIDE DEF new
<1>3. 1 \in Active(new)
  BY <1>2 DEF Active
<1>4. PICK m \in Active(new) : \A i \in Active(new) : m >= i
  BY <1>1, <1>3, ValueOfLast
<1>5. m \in 1 .. Len(new) /\ ValueIn(new) = new[m].val
  BY <1>1, <1>2, <1>4, ValueOfLast DEF Active
<1>6. CASE m = 1
  BY <1>2, <1>5, <1>6 DEF new
<1>7. CASE m # 1
  <2>1. lines # <<>> /\ ~ Len(new) <= 1
    BY <1>1, <1>2, <1>5, <1>7
  <2>2. m \in Active(lines) /\ new[m] = lines[m]
    BY <1>2, <1>4, <1>5, <1>7, <2>1 DEF Active
  <2>3. \A i \in Active(lines) : m >= i
    <3>1. SUFFICES ASSUME NEW i \in Active(lines), i # 1 PROVE m >= i
      BY <1>2, <1>5
    <3>2. i \in Active(new)
      BY <1>2, <2>1, <3>1 DEF Active
    <3> QED BY <1>4, <3>2
  <2>4. ValueIn(lines) = lines[m].val
    BY <2>2, <2>3, ValueOfLast
  <2> QED BY <1>5, <2>1, <2>2, <2>4 DEF new
<1> QED BY <1>6, <1>7

-----------------------------------------------------------------------------
(***************************************************************************)
(* The inductive invariant.                                                *)
(***************************************************************************)

\* A key that is set and not saved is pending.
UnsavedIsPending == \A k \in unsaved : mPendingWrites[k] # Missing

\* Values that no file holds came from the fallback: a file is never removed.
FallbackIsRead == file[mFilePath] = NoFile /\ mFallback # NoFile => onFallback

ConfInv ==
  /\ TypeOK
  /\ UnsavedIsPending
  /\ FallbackIsRead
  /\ MemoryAgrees

FileOrNone == {NoFile} \cup [Keys -> Lines]

LEMMA FilesAreLines == Files \subseteq FileOrNone
<1>1. SUFFICES ASSUME NEW f \in Files, f # NoFile PROVE f \in [Keys -> Lines]
  BY DEF FileOrNone
<1>2. /\ f \in [Keys -> UNION {Contents[k] : k \in Keys}]
      /\ \A k \in Keys : f[k] \in Contents[k]
  BY <1>1 DEF Files
<1>3. \A k \in Keys : f[k] \in Lines
  BY <1>2, ConfAssumption
<1> QED BY <1>2, <1>3

\* A file, its fallback or nothing: each key has a value or none.
LEMMA LoadFromType ==
  ASSUME NEW files, NEW p, files[p] \in FileOrNone, mFallback \in FileOrNone
  PROVE  LoadFrom(files, p) \in [Keys -> Values \cup {Missing}]
<1>1. Content(files, p) \in FileOrNone
  BY DEF Content
<1>2. CASE Content(files, p) = NoFile
  BY <1>2 DEF LoadFrom, Nothing
<1>3. CASE Content(files, p) # NoFile
  <2>1. Content(files, p) \in [Keys -> Lines]
    BY <1>1, <1>3 DEF FileOrNone
  <2>2. \A k \in Keys : ValueIn(Content(files, p)[k]) \in Values \cup {Missing}
    BY <2>1, ValueInType
  <2>3. LoadFrom(files, p) = [k \in Keys |-> ValueIn(Content(files, p)[k])]
    BY <1>3 DEF LoadFrom
  <2> QED BY <2>2, <2>3
<1> QED BY <1>2, <1>3

LEMMA LoadFromFile ==
  ASSUME NEW files, NEW p, files[p] # NoFile
  PROVE  LoadFrom(files, p) = [k \in Keys |-> ValueIn(files[p][k])]
BY DEF LoadFrom, Content

\* What is left of the lines of a key, and of a file, when the writing stops.
LEMMA CutLinesType ==
  ASSUME NEW k \in Keys, NEW lines \in Lines
  PROVE  CutLines(k, lines) \subseteq Lines
<1> DEFINE Line == [off : BOOLEAN, val : Values]
<1>1. lines \in Seq(Line) /\ Len(lines) \in Nat
  BY DEF Lines
<1>2. \A l \in Line : \A v \in ValuesOf[k] : [l EXCEPT !.val = v] \in Line
  BY DEF Values
<1>3. Lines = Seq(Line)
  BY DEF Lines
<1> HIDE DEF Line
<1>4. ASSUME NEW n \in 0 .. Len(lines) PROVE SubSeq(lines, 1, n) \in Seq(Line) /\ Len(SubSeq(lines, 1, n)) = n
  BY <1>1
<1>5. ASSUME NEW n \in 1 .. Len(lines), NEW v \in ValuesOf[k]
      PROVE  [SubSeq(lines, 1, n) EXCEPT ![n].val = v] \in Seq(Line)
  <2> DEFINE t == SubSeq(lines, 1, n)
             l == [t[n] EXCEPT !.val = v]
  <2>1. t \in Seq(Line) /\ Len(t) = n /\ n \in 1 .. n
    BY <1>1, <1>4
  <2> HIDE DEF t
  <2>2. t[n] \in Line
    BY <2>1
  <2>3. l \in Line
    BY <1>2, <2>2
  <2>4. [t EXCEPT ![n].val = v] = [t EXCEPT ![n] = l]
    BY Zenon
  <2> HIDE DEF l
  <2>5. [t EXCEPT ![n] = l] \in Seq(Line)
    BY <2>1, <2>3
  <2>6. [t EXCEPT ![n].val = v] \in Seq(Line)
    BY <2>4, <2>5
  <2> QED BY <2>6 DEF t
<1> DEFINE First(n) == SubSeq(lines, 1, n)
           Short(n, v) == [SubSeq(lines, 1, n) EXCEPT ![n].val = v]
<1>6. CutLines(k, lines) = {First(n) : n \in 0 .. Len(lines)}
                             \cup {Short(n, v) : n \in 1 .. Len(lines), v \in ValuesOf[k]}
  BY DEF CutLines
<1>7. \A n \in 0 .. Len(lines) : First(n) \in Seq(Line)
  BY <1>4
<1>8. \A n \in 1 .. Len(lines) : \A v \in ValuesOf[k] : Short(n, v) \in Seq(Line)
  BY <1>5
<1> HIDE DEF First, Short
<1> QED BY <1>3, <1>6, <1>7, <1>8

LEMMA SavedContentType ==
  ASSUME TypeOK
  PROVE  SavedContent \in [Keys -> Lines]
<1> DEFINE old == IF file[mFilePath] = NoFile THEN [k \in Keys |-> <<>>] ELSE file[mFilePath]
<1>1. old \in [Keys -> Lines]
  BY EmptyHasNoValue DEF TypeOK
<1>2. SavedContent = [k \in Keys |-> IF mPendingWrites[k] = Missing THEN old[k]
                                     ELSE Replaced(old[k], mPendingWrites[k])]
  BY DEF SavedContent
<1> HIDE DEF old
<1>3. \A k \in Keys : mPendingWrites[k] # Missing => Replaced(old[k], mPendingWrites[k]) \in Lines
  BY <1>1, ReplacedType DEF TypeOK
<1> QED BY <1>1, <1>2, <1>3

LEMMA CutShortType ==
  ASSUME TypeOK, NEW content \in CutShort
  PROVE  content \in [Keys -> Lines] /\ content # NoFile
<1>1. /\ content \in [Keys -> UNION {CutLines(k, SavedContent[k]) : k \in Keys}]
      /\ \A k \in Keys : content[k] \in CutLines(k, SavedContent[k])
  BY DEF CutShort
<1>2. \A k \in Keys : CutLines(k, SavedContent[k]) \subseteq Lines
  BY SavedContentType, CutLinesType
<1>3. content \in [Keys -> Lines]
  BY <1>1, <1>2
<1> QED BY <1>3, ConfAssumption

\* What a save makes of the file in use.
LEMMA SavedFile ==
  ASSUME TypeOK
  PROVE  /\ Saved \in [Paths -> FileOrNone]
         /\ \A p \in Paths : p # mFilePath => Saved[p] = file[p]
         /\ mPendingWrites = Nothing => Saved = file
         /\ mPendingWrites # Nothing =>
              /\ Saved[mFilePath] \in [Keys -> Lines]
              /\ Saved[mFilePath] # NoFile
              /\ \A k \in Keys : mPendingWrites[k] = Missing =>
                   Saved[mFilePath][k] = IF file[mFilePath] = NoFile THEN <<>>
                                         ELSE file[mFilePath][k]
              /\ \A k \in Keys : mPendingWrites[k] # Missing =>
                   LET new == ValueIn(Saved[mFilePath][k])
                   IN  /\ \/ new = mPendingWrites[k]
                          \/ file[mFilePath] # NoFile /\ new = ValueIn(file[mFilePath][k])
                       /\ Len(Saved[mFilePath][k]) <= 1 => new = mPendingWrites[k]
<1> DEFINE old == IF file[mFilePath] = NoFile THEN [k \in Keys |-> <<>>] ELSE file[mFilePath]
<1>1. old \in [Keys -> Lines]
  BY EmptyHasNoValue DEF TypeOK
<1>2. SavedContent = [k \in Keys |-> IF mPendingWrites[k] = Missing THEN old[k]
                                     ELSE Replaced(old[k], mPendingWrites[k])]
  BY DEF SavedContent
<1>3. \A k \in Keys : file[mFilePath] = NoFile => old[k] = <<>>
  OBVIOUS
<1>4. file[mFilePath] # NoFile => old = file[mFilePath]
  OBVIOUS
<1> HIDE DEF old
<1>5. \A k \in Keys : mPendingWrites[k] # Missing => mPendingWrites[k] \in Values
  BY DEF TypeOK
<1>6. SavedContent \in [Keys -> Lines]
  BY SavedContentType
<1>7. SavedContent # NoFile
  BY <1>6, ConfAssumption
<1>8. file \in [Paths -> FileOrNone] /\ mFilePath \in Paths
  BY DEF TypeOK, FileOrNone
<1>9. CASE mPendingWrites = Nothing
  BY <1>8, <1>9 DEF Saved
<1>10. CASE mPendingWrites # Nothing
  <2>1. Saved = [file EXCEPT ![mFilePath] = SavedContent]
    BY <1>10 DEF Saved
  <2>2. /\ Saved \in [Paths -> FileOrNone]
        /\ Saved[mFilePath] = SavedContent
        /\ \A p \in Paths : p # mFilePath => Saved[p] = file[p]
    BY <2>1, <1>6, <1>8 DEF FileOrNone
  <2>3. \A k \in Keys : mPendingWrites[k] = Missing =>
          SavedContent[k] = IF file[mFilePath] = NoFile THEN <<>> ELSE file[mFilePath][k]
    BY <1>2, <1>3, <1>4
  <2>4. ASSUME NEW k \in Keys, mPendingWrites[k] # Missing
        PROVE  LET new == ValueIn(SavedContent[k])
               IN  /\ \/ new = mPendingWrites[k]
                      \/ file[mFilePath] # NoFile /\ new = ValueIn(file[mFilePath][k])
                   /\ Len(SavedContent[k]) <= 1 => new = mPendingWrites[k]
    <3>1. SavedContent[k] = Replaced(old[k], mPendingWrites[k])
      BY <1>2, <2>4
    <3>2. old[k] \in Lines /\ mPendingWrites[k] \in Values
      BY <1>1, <1>5, <2>4
    <3>3. /\ ValueIn(SavedContent[k]) \in {mPendingWrites[k], ValueIn(old[k])}
          /\ Len(SavedContent[k]) <= 1 => ValueIn(SavedContent[k]) = mPendingWrites[k]
      BY <3>1, <3>2, ReplacedValue
    <3>4. CASE file[mFilePath] = NoFile
      <4>1. old[k] = <<>>
        BY <1>3, <3>4
      <4>2. Len(SavedContent[k]) = 1
        BY <3>1, <3>2, <4>1, ReplacedType
      <4> QED BY <3>3, <4>2
    <3>5. CASE file[mFilePath] # NoFile
      BY <1>4, <3>3, <3>5
    <3> QED BY <3>4, <3>5
  <2> QED BY <1>6, <1>7, <1>10, <2>2, <2>3, <2>4
<1> QED BY <1>9, <1>10

-----------------------------------------------------------------------------
\* Whatever is read, the maps hold it and nothing is pending.
LEMMA ReloadReads ==
  ASSUME TypeOK, NEW p \in Paths, NEW files, files \in [Paths -> FileOrNone],
         Reload(files, p)
  PROVE  /\ mFilePath' = p /\ mFallback' = mFallback
         /\ mConfiguration' = LoadFrom(files, p)
         /\ LoadFrom(files, p) \in [Keys -> Values \cup {Missing}]
         /\ mPendingWrites' = Nothing
         /\ unsaved' = {} /\ changed' = {} /\ torn' = {}
         /\ onFallback' = (files[p] = NoFile /\ mFallback # NoFile)
<1>1. files[p] \in FileOrNone /\ mFallback \in FileOrNone
  BY FilesAreLines DEF TypeOK
<1> QED BY <1>1, LoadFromType DEF Reload

LEMMA ReloadKeepsInv ==
  ASSUME ConfInv, NEW p \in Paths, NEW files, files \in [Paths -> FileOrNone],
         Reload(files, p), file' = files
  PROVE  ConfInv'
<1> USE DEF ConfInv
<1>1. /\ mFilePath' = p /\ mFallback' = mFallback
      /\ mConfiguration' = LoadFrom(files, p)
      /\ LoadFrom(files, p) \in [Keys -> Values \cup {Missing}]
      /\ mPendingWrites' = Nothing
      /\ unsaved' = {} /\ changed' = {} /\ torn' = {}
      /\ onFallback' = (files[p] = NoFile /\ mFallback # NoFile)
  BY ReloadReads
<1>2. TypeOK'
  BY <1>1 DEF TypeOK, Nothing, FileOrNone
<1>3. UnsavedIsPending' /\ FallbackIsRead'
  BY <1>1 DEF UnsavedIsPending, FallbackIsRead
<1>4. LoadFrom(file, mFilePath)' = LoadFrom(files, p)
  BY <1>1 DEF LoadFrom, Content
<1>5. \A k \in Keys : ExtractValue(k)' = mConfiguration'[k]
  BY <1>1 DEF ExtractValue, Nothing
<1>6. MemoryAgrees'
  BY <1>1, <1>4, <1>5 DEF MemoryAgrees
<1> QED BY <1>2, <1>3, <1>6

LEMMA InitConfInv == Init => ConfInv
<1> SUFFICES ASSUME Init PROVE ConfInv
  OBVIOUS
<1>1. file \in [Paths -> Files] /\ mFallback \in Files /\ mFilePath \in Paths
  BY ConfAssumption DEF Init
<1>2. file \in [Paths -> FileOrNone] /\ file[mFilePath] \in FileOrNone /\ mFallback \in FileOrNone
  BY <1>1, FilesAreLines
<1>3. mConfiguration \in [Keys -> Values \cup {Missing}]
  BY <1>2, LoadFromType DEF Init
<1>4. TypeOK
  BY <1>1, <1>2, <1>3 DEF TypeOK, Init, Nothing, FileOrNone
<1>5. UnsavedIsPending /\ FallbackIsRead
  BY DEF UnsavedIsPending, FallbackIsRead, Init
<1>6. MemoryAgrees
  BY DEF MemoryAgrees, Init, ExtractValue, Nothing
<1> QED BY <1>4, <1>5, <1>6 DEF ConfInv

LEMMA SetKeepsInv ==
  ASSUME ConfInv, NEW k \in Keys, NEW v \in ValuesOf[k], Set(k, v)
  PROVE  ConfInv'
<1> USE DEF ConfInv
<1>1. v \in Values /\ v # Missing
  BY ConfAssumption DEF Values
<1>2. /\ mPendingWrites' = [mPendingWrites EXCEPT ![k] = v]
      /\ unsaved' = unsaved \cup {k}
      /\ mFilePath' = mFilePath /\ mFallback' = mFallback /\ file' = file
      /\ mConfiguration' = mConfiguration /\ changed' = changed /\ torn' = torn
      /\ onFallback' = onFallback
  BY DEF Set, pathVars
<1>3. TypeOK'
  BY <1>1, <1>2 DEF TypeOK
<1>4. UnsavedIsPending' /\ FallbackIsRead'
  BY <1>1, <1>2 DEF UnsavedIsPending, FallbackIsRead, TypeOK
<1>5. LoadFrom(file, mFilePath)' = LoadFrom(file, mFilePath)
  BY <1>2 DEF LoadFrom, Content
<1>6. \A l \in Keys : l # k => ExtractValue(l)' = ExtractValue(l)
  BY <1>2 DEF ExtractValue, TypeOK
<1>7. \A l \in Keys : OneLine(l)' = OneLine(l)
  BY <1>2 DEF OneLine
<1>8. MemoryAgrees'
  BY <1>2, <1>5, <1>6, <1>7 DEF MemoryAgrees
<1> QED BY <1>3, <1>4, <1>8

LEMMA SaveWrittenKeepsInv ==
  ASSUME ConfInv, SaveWritten
  PROVE  ConfInv'
<1> USE DEF ConfInv
<1>1. /\ file' = Saved /\ unsaved' = {}
      /\ changed' = {k \in changed : mPendingWrites[k] = Missing}
      /\ torn' = {k \in torn : mPendingWrites[k] = Missing}
      /\ mFilePath' = mFilePath /\ mFallback' = mFallback
      /\ mConfiguration' = mConfiguration /\ mPendingWrites' = mPendingWrites
      /\ onFallback' = onFallback
  BY DEF SaveWritten, pathVars, confVars
<1>2. TypeOK'
  BY <1>1, SavedFile DEF TypeOK, FileOrNone
<1>3. UnsavedIsPending'
  BY <1>1 DEF UnsavedIsPending
<1>4. FallbackIsRead'
  BY <1>1, SavedFile DEF FallbackIsRead
<1>5. \A k \in Keys : ExtractValue(k)' = ExtractValue(k)
  BY <1>1 DEF ExtractValue
<1>6. MemoryAgrees'
  <2>1. SUFFICES ASSUME ~ onFallback, NEW k \in Keys \ (changed' \cup torn'), OneLine(k)'
                 PROVE  ExtractValue(k) = LoadFrom(file, mFilePath)'[k]
    BY <1>1, <1>5 DEF MemoryAgrees
  <2>2. CASE mPendingWrites = Nothing
    <3>1. file' = file
      BY <1>1, <2>2, SavedFile
    <3>2. k \notin unsaved /\ k \notin changed /\ k \notin torn
      BY <1>1, <2>1, <2>2 DEF UnsavedIsPending, Nothing
    <3>3. OneLine(k) /\ LoadFrom(file, mFilePath)' = LoadFrom(file, mFilePath)
      BY <1>1, <2>1, <3>1 DEF OneLine, LoadFrom, Content
    <3> QED BY <2>1, <3>2, <3>3 DEF MemoryAgrees
  <2>3. CASE mPendingWrites # Nothing
    <3>1. /\ Saved[mFilePath] \in [Keys -> Lines]
          /\ Saved[mFilePath] # NoFile
          /\ mPendingWrites[k] = Missing =>
               Saved[mFilePath][k] = IF file[mFilePath] = NoFile THEN <<>>
                                     ELSE file[mFilePath][k]
          /\ mPendingWrites[k] # Missing /\ Len(Saved[mFilePath][k]) <= 1 =>
               ValueIn(Saved[mFilePath][k]) = mPendingWrites[k]
      BY <2>3, SavedFile
    <3>2. LoadFrom(file, mFilePath)' = [l \in Keys |-> ValueIn(Saved[mFilePath][l])]
      BY <1>1, <3>1 DEF LoadFrom, Content
    <3>3. LoadFrom(file, mFilePath)'[k] = ValueIn(Saved[mFilePath][k])
      BY <3>2
    <3>4. Len(Saved[mFilePath][k]) <= 1
      BY <1>1, <2>1, <3>1 DEF OneLine
    <3>5. CASE mPendingWrites[k] # Missing
      BY <3>1, <3>3, <3>4, <3>5 DEF ExtractValue
    <3>6. CASE mPendingWrites[k] = Missing
      <4>1. k \notin unsaved /\ k \notin changed /\ k \notin torn
        BY <1>1, <3>6 DEF UnsavedIsPending
      <4>2. OneLine(k)
        BY <3>1, <3>4, <3>6 DEF OneLine
      <4>3. ExtractValue(k) = LoadFrom(file, mFilePath)[k]
        BY <2>1, <4>1, <4>2 DEF MemoryAgrees
      <4>4. LoadFrom(file, mFilePath)[k] = ValueIn(Saved[mFilePath][k])
        <5>1. CASE file[mFilePath] = NoFile
          <6>1. mFallback = NoFile
            BY <2>1, <5>1 DEF FallbackIsRead
          <6>2. LoadFrom(file, mFilePath) = Nothing
            BY <5>1, <6>1 DEF LoadFrom, Content
          <6>3. Saved[mFilePath][k] = <<>>
            BY <3>1, <3>6, <5>1
          <6> QED BY <6>2, <6>3, EmptyHasNoValue DEF Nothing
        <5>2. CASE file[mFilePath] # NoFile
          <6>1. LoadFrom(file, mFilePath) = [l \in Keys |-> ValueIn(file[mFilePath][l])]
            BY <5>2, LoadFromFile
          <6>2. LoadFrom(file, mFilePath)[k] = ValueIn(file[mFilePath][k])
            BY <6>1
          <6> QED BY <3>1, <3>6, <5>2, <6>2
        <5> QED BY <5>1, <5>2
      <4> QED BY <3>3, <4>3, <4>4
    <3> QED BY <3>5, <3>6
  <2> QED BY <2>2, <2>3
<1> QED BY <1>2, <1>3, <1>4, <1>6

LEMMA SaveCutShortKeepsInv ==
  ASSUME ConfInv, SaveCutShort
  PROVE  ConfInv'
<1> USE DEF ConfInv
<1>1. PICK content \in CutShort : file' = [file EXCEPT ![mFilePath] = content]
  BY DEF SaveCutShort
<1>2. /\ torn' = Keys /\ unsaved' = unsaved /\ changed' = changed
      /\ mFilePath' = mFilePath /\ mFallback' = mFallback
      /\ mConfiguration' = mConfiguration /\ mPendingWrites' = mPendingWrites
      /\ onFallback' = onFallback
  BY DEF SaveCutShort, pathVars, confVars
<1>3. content \in [Keys -> Lines] /\ content # NoFile
  BY CutShortType
<1>4. file' \in [Paths -> FileOrNone] /\ file'[mFilePath] = content
  BY <1>1, <1>3 DEF TypeOK, FileOrNone
<1>5. TypeOK'
  BY <1>2, <1>4 DEF TypeOK, FileOrNone
<1>6. UnsavedIsPending' /\ FallbackIsRead'
  BY <1>2, <1>3, <1>4 DEF UnsavedIsPending, FallbackIsRead
<1>7. MemoryAgrees'
  BY <1>2 DEF MemoryAgrees
<1> QED BY <1>5, <1>6, <1>7

LEMMA ReloadValueKeepsInv ==
  ASSUME ConfInv, NEW k \in Keys, ReloadValue(k)
  PROVE  ConfInv'
<1> USE DEF ConfInv
<1> DEFINE read == LoadFrom(file, mFilePath)
<1>1. read \in [Keys -> Values \cup {Missing}]
  <2>1. file[mFilePath] \in FileOrNone /\ mFallback \in FileOrNone
    BY FilesAreLines DEF TypeOK, FileOrNone
  <2> QED BY <2>1, LoadFromType
<1>2. /\ mConfiguration' = [mConfiguration EXCEPT ![k] = read[k]]
      /\ mPendingWrites' = [mPendingWrites EXCEPT ![k] = Missing]
      /\ unsaved' = unsaved \ {k} /\ changed' = changed \ {k} /\ torn' = torn \ {k}
      /\ mFilePath' = mFilePath /\ mFallback' = mFallback /\ file' = file
      /\ onFallback' = onFallback
  BY DEF ReloadValue, pathVars
<1>3. LoadFrom(file, mFilePath)' = read
  BY <1>2 DEF LoadFrom, Content
<1>4. LoadFrom(file, mFilePath) = read
  OBVIOUS
<1> HIDE DEF read
<1>5. TypeOK'
  BY <1>1, <1>2 DEF TypeOK
<1>6. UnsavedIsPending' /\ FallbackIsRead'
  BY <1>2 DEF UnsavedIsPending, FallbackIsRead, TypeOK
<1>7. \A l \in Keys : l # k => ExtractValue(l)' = ExtractValue(l)
  BY <1>2 DEF ExtractValue, TypeOK
<1>8. ExtractValue(k)' = read[k]
  BY <1>2 DEF ExtractValue, TypeOK
<1>9. \A l \in Keys : OneLine(l)' = OneLine(l)
  BY <1>2 DEF OneLine
<1>10. MemoryAgrees'
  BY <1>2, <1>3, <1>4, <1>7, <1>8, <1>9 DEF MemoryAgrees
<1> QED BY <1>5, <1>6, <1>10

LEMMA ChangeOutsideKeepsInv ==
  ASSUME ConfInv, NEW k \in Keys, ChangeOutside(k)
  PROVE  ConfInv'
<1> USE DEF ConfInv
<1>1. PICK lines \in Contents[k] : file' = [file EXCEPT ![mFilePath][k] = lines]
  BY DEF ChangeOutside
<1>2. /\ file[mFilePath] # NoFile /\ changed' = changed \cup {k}
      /\ mFilePath' = mFilePath /\ mFallback' = mFallback
      /\ mConfiguration' = mConfiguration /\ mPendingWrites' = mPendingWrites
      /\ unsaved' = unsaved /\ torn' = torn /\ onFallback' = onFallback
  BY DEF ChangeOutside, pathVars, confVars
<1>3. lines \in Lines /\ file[mFilePath] \in [Keys -> Lines]
  BY <1>2, ConfAssumption DEF TypeOK
<1>4. /\ file' \in [Paths -> FileOrNone]
      /\ file'[mFilePath] = [file[mFilePath] EXCEPT ![k] = lines]
      /\ file'[mFilePath] \in [Keys -> Lines]
  BY <1>1, <1>3 DEF TypeOK, FileOrNone
<1>5. file'[mFilePath] # NoFile
  BY <1>4, ConfAssumption
<1>6. TypeOK'
  BY <1>2, <1>4 DEF TypeOK, FileOrNone
<1>7. UnsavedIsPending' /\ FallbackIsRead'
  BY <1>2, <1>5 DEF UnsavedIsPending, FallbackIsRead
<1>8. MemoryAgrees'
  <2>1. SUFFICES ASSUME ~ onFallback, NEW l \in Keys \ (unsaved \cup changed \cup torn), l # k, OneLine(l)'
                 PROVE  ExtractValue(l)' = LoadFrom(file, mFilePath)'[l]
    BY <1>2 DEF MemoryAgrees
  <2>2. file'[mFilePath][l] = file[mFilePath][l]
    BY <1>3, <1>4, <2>1
  <2>3. OneLine(l) /\ ExtractValue(l)' = ExtractValue(l)
    BY <1>2, <1>5, <2>1, <2>2 DEF OneLine, ExtractValue
  <2>4. LoadFrom(file, mFilePath) = [m \in Keys |-> ValueIn(file[mFilePath][m])]
    BY <1>2, LoadFromFile
  <2>5. LoadFrom(file, mFilePath)' = [m \in Keys |-> ValueIn(file'[mFilePath][m])]
    BY <1>2, <1>5 DEF LoadFrom, Content
  <2>6. LoadFrom(file, mFilePath)'[l] = LoadFrom(file, mFilePath)[l]
    BY <2>2, <2>4, <2>5
  <2> QED BY <2>1, <2>3, <2>6 DEF MemoryAgrees
<1> QED BY <1>6, <1>7, <1>8

LEMMA FrameKeepsInv ==
  ASSUME ConfInv, UNCHANGED vars
  PROVE  ConfInv'
<1> USE DEF ConfInv, vars, pathVars, confVars, historyVars
<1>1. TypeOK' /\ UnsavedIsPending' /\ FallbackIsRead'
  BY DEF TypeOK, UnsavedIsPending, FallbackIsRead
<1>2. MemoryAgrees'
  BY DEF MemoryAgrees, OneLine, ExtractValue, LoadFrom, Content
<1> QED BY <1>1, <1>2

\* The files that a save, or the end of the program, leaves.
LEMMA FilesLeft ==
  ASSUME ConfInv
  PROVE  /\ file \in [Paths -> FileOrNone] /\ Saved \in [Paths -> FileOrNone]
         /\ mFilePath \in Paths
         /\ Outcomes \subseteq [Paths -> FileOrNone]
<1>1. file \in [Paths -> FileOrNone] /\ mFilePath \in Paths
  BY DEF ConfInv, TypeOK, FileOrNone
<1>2. \A content \in CutShort : [file EXCEPT ![mFilePath] = content] \in [Paths -> FileOrNone]
  BY <1>1, CutShortType DEF ConfInv, FileOrNone
<1>3. Saved \in [Paths -> FileOrNone]
  BY SavedFile DEF ConfInv
<1> QED BY <1>1, <1>2, <1>3 DEF Outcomes

LEMMA ConfInvariant == Spec => []ConfInv
<1>1. Init => ConfInv
  BY InitConfInv
<1>2. ConfInv /\ [Next]_vars => ConfInv'
  <2> SUFFICES ASSUME ConfInv, [Next]_vars PROVE ConfInv'
    OBVIOUS
  <2>1. CASE \E k \in Keys : \E v \in ValuesOf[k] : Set(k, v)
    BY <2>1, SetKeepsInv
  <2>2. CASE Save
    BY <2>2, SaveWrittenKeepsInv, SaveCutShortKeepsInv, FrameKeepsInv DEF Save
  <2>3. CASE ReloadAll
    BY <2>3, FilesLeft, ReloadKeepsInv DEF ReloadAll
  <2>4. CASE \E p \in Paths : LoadFromNewPath(p)
    BY <2>4, FilesLeft, ReloadKeepsInv DEF LoadFromNewPath
  <2>5. CASE \E k \in Keys : ReloadValue(k)
    BY <2>5, ReloadValueKeepsInv
  <2>6. CASE Restart
    <3>1. PICK files \in Outcomes : file' = files /\ Reload(files, mFilePath)
      BY <2>6 DEF Restart, Reload, LoadFrom, Content
    <3> QED BY <3>1, FilesLeft, ReloadKeepsInv
  <2>7. CASE \E k \in Keys : ChangeOutside(k)
    BY <2>7, ChangeOutsideKeepsInv
  <2>8. CASE UNCHANGED vars
    BY <2>8, FrameKeepsInv
  <2> QED
    BY <2>1, <2>2, <2>3, <2>4, <2>5, <2>6, <2>7, <2>8 DEF Next
<1> QED
  BY <1>1, <1>2, PTL DEF Spec

\* The two maps, the files and the fallback keep their types.
THEOREM TypeCorrect == Spec => []TypeOK
<1>1. ConfInv => TypeOK
  BY DEF ConfInv
<1> QED
  BY <1>1, ConfInvariant, PTL

\* For any keys, values and files, and whatever becomes of a save: a key that was
\* neither set since the last save that was written, nor changed outside since it
\* was read, nor cut off by a save, has in memory the value that the file gives
\* it, if the file has one line of it at most and the values are not those of the
\* fallback (IniFile::Save, Load).
THEOREM MemoryIsTheFile == Spec => []MemoryAgrees
<1>1. ConfInv => MemoryAgrees
  BY DEF ConfInv
<1> QED
  BY <1>1, ConfInvariant, PTL

-----------------------------------------------------------------------------
(***************************************************************************)
(* Each step is a step of the store, or changes nothing of it.             *)
(***************************************************************************)
View == [k \in Keys |-> ExtractValue(k)]
Disk == [p \in Paths |-> LoadFrom(file, p)]
Exists == {p \in Paths : file[p] # NoFile}
Touched == {k \in Keys : mPendingWrites[k] # Missing}

LEMMA DiskType ==
  ASSUME ConfInv
  PROVE  /\ Disk \in [Paths -> [Keys -> Values \cup {Missing}]]
         /\ View \in [Keys -> Values \cup {Missing}]
         /\ Disk[mFilePath] = LoadFrom(file, mFilePath) /\ mFilePath \in Paths
<1>1. \A p \in Paths : file[p] \in FileOrNone /\ mFallback \in FileOrNone
  BY FilesAreLines DEF ConfInv, TypeOK, FileOrNone
<1>2. \A p \in Paths : LoadFrom(file, p) \in [Keys -> Values \cup {Missing}]
  BY <1>1, LoadFromType
<1>3. View \in [Keys -> Values \cup {Missing}]
  BY DEF View, ExtractValue, ConfInv, TypeOK
<1>4. mFilePath \in Paths
  BY DEF ConfInv, TypeOK
<1> QED BY <1>2, <1>3, <1>4 DEF Disk

\* The same files and fallback are the same store.
LEMMA SameDisk ==
  ASSUME file' = file, mFallback' = mFallback
  PROVE  Disk' = Disk /\ Exists' = Exists
BY DEF Disk, Exists, LoadFrom, Content

\* What a save does to the store when there is something to write.
LEMMA SavedIsWritten ==
  ASSUME ConfInv, file' = Saved, mFallback' = mFallback, mPendingWrites # Nothing
  PROVE  \E here \in [Keys -> Values \cup {Missing}] :
           /\ \A k \in Touched : here[k] \in {View[k], Disk[mFilePath][k]}
           /\ \A k \in Keys \ Touched :
                here[k] = IF mFilePath \in Exists THEN Disk[mFilePath][k] ELSE Missing
           /\ Disk' = [Disk EXCEPT ![mFilePath] = here]
           /\ Exists' = Exists \cup {mFilePath}
<1> DEFINE here == [k \in Keys |-> ValueIn(Saved[mFilePath][k])]
<1>1. /\ Saved \in [Paths -> FileOrNone]
      /\ \A p \in Paths : p # mFilePath => Saved[p] = file[p]
      /\ Saved[mFilePath] \in [Keys -> Lines]
      /\ Saved[mFilePath] # NoFile
      /\ \A k \in Keys : mPendingWrites[k] = Missing =>
           Saved[mFilePath][k] = IF file[mFilePath] = NoFile THEN <<>> ELSE file[mFilePath][k]
      /\ \A k \in Keys : mPendingWrites[k] # Missing =>
           \/ ValueIn(Saved[mFilePath][k]) = mPendingWrites[k]
           \/ /\ file[mFilePath] # NoFile
              /\ ValueIn(Saved[mFilePath][k]) = ValueIn(file[mFilePath][k])
  BY SavedFile DEF ConfInv
<1>2. here \in [Keys -> Values \cup {Missing}]
  BY <1>1, ValueInType
<1>3. mFilePath \in Paths /\ Disk[mFilePath] = LoadFrom(file, mFilePath)
      /\ (file[mFilePath] # NoFile => \A k \in Keys : Disk[mFilePath][k] = ValueIn(file[mFilePath][k]))
  <2>1. mFilePath \in Paths /\ Disk[mFilePath] = LoadFrom(file, mFilePath)
    BY DiskType
  <2>2. file[mFilePath] # NoFile => LoadFrom(file, mFilePath) = [k \in Keys |-> ValueIn(file[mFilePath][k])]
    BY LoadFromFile
  <2> QED BY <2>1, <2>2
<1>4. \A k \in Keys : here[k] = ValueIn(Saved[mFilePath][k])
  OBVIOUS
<1>5. Disk' = [Disk EXCEPT ![mFilePath] = here]
  <2>1. \A p \in Paths : p # mFilePath => LoadFrom(Saved, p) = LoadFrom(file, p)
    BY <1>1 DEF LoadFrom, Content
  <2>2. LoadFrom(Saved, mFilePath) = here
    BY <1>1, LoadFromFile
  <2>3. Disk' = [p \in Paths |-> LoadFrom(Saved, p)]
    BY DEF Disk, LoadFrom, Content
  <2> HIDE DEF here
  <2> QED BY <1>3, <2>1, <2>2, <2>3 DEF Disk
<1>6. Exists' = Exists \cup {mFilePath}
  BY <1>1, <1>3 DEF Exists
<1> HIDE DEF here
<1>7. \A k \in Touched : here[k] \in {View[k], Disk[mFilePath][k]}
  BY <1>1, <1>3, <1>4 DEF Touched, View, ExtractValue
<1>8. \A k \in Keys \ Touched :
        here[k] = IF mFilePath \in Exists THEN Disk[mFilePath][k] ELSE Missing
  BY <1>1, <1>3, <1>4, EmptyHasNoValue DEF Touched, Exists
<1> QED BY <1>2, <1>5, <1>6, <1>7, <1>8

\* What an object reads anew is what the store has for the path.
LEMMA ReloadIsOpen ==
  ASSUME ConfInv, NEW p \in Paths, NEW files, files \in [Paths -> FileOrNone],
         Reload(files, p), file' = files
  PROVE  /\ mFilePath' = p /\ mFallback' = mFallback
         /\ View' = Disk'[p] /\ Touched' = {} /\ torn' = {}
<1>1. /\ mFilePath' = p /\ mFallback' = mFallback
      /\ mConfiguration' = LoadFrom(files, p)
      /\ LoadFrom(files, p) \in [Keys -> Values \cup {Missing}]
      /\ mPendingWrites' = Nothing /\ torn' = {}
  BY ReloadReads DEF ConfInv
<1>2. Disk'[p] = LoadFrom(files, p)
  BY <1>1 DEF Disk, LoadFrom, Content
<1>3. View' = LoadFrom(files, p)
  BY <1>1 DEF View, ExtractValue, Nothing
<1>4. Touched' = {}
  BY <1>1 DEF Touched, Nothing
<1> QED BY <1>1, <1>2, <1>3, <1>4

LEMMA InitIsStoreInit == Init => Store!Init
<1> SUFFICES ASSUME Init PROVE Store!Init
  OBVIOUS
<1>1. ConfInv
  BY InitConfInv
<1>2. View = LoadFrom(file, mFilePath)
  BY <1>1, DiskType DEF View, ExtractValue, Init, Nothing
<1>3. Touched = {}
  BY DEF Touched, Init, Nothing
<1> QED
  BY <1>1, <1>2, <1>3, DiskType DEF Store!Init, Store!Store, View, Disk, Exists, Touched, Init

LEMMA SetIsStoreSet ==
  ASSUME ConfInv, NEW k \in Keys, NEW v \in ValuesOf[k], Set(k, v)
  PROVE  v \in Values /\ Store!Set(k, v)
<1>1. v \in Values /\ v # Missing
  BY ConfAssumption DEF Values
<1>2. /\ mPendingWrites' = [mPendingWrites EXCEPT ![k] = v]
      /\ mFilePath' = mFilePath /\ mFallback' = mFallback /\ file' = file
      /\ mConfiguration' = mConfiguration /\ torn' = torn
      /\ mPendingWrites \in [Keys -> Values \cup {Missing}]
  BY DEF Set, pathVars, ConfInv, TypeOK
<1>3. Disk' = Disk /\ Exists' = Exists
  BY <1>2, SameDisk
<1>4. View' = [View EXCEPT ![k] = v]
  BY <1>1, <1>2 DEF View, ExtractValue
<1>5. Touched' = Touched \cup {k}
  BY <1>1, <1>2 DEF Touched
<1> QED
  BY <1>1, <1>2, <1>3, <1>4, <1>5 DEF Store!Set, View, Disk, Exists, Touched

LEMMA SaveIsStoreSave ==
  ASSUME ConfInv, SaveWritten
  PROVE  Store!Save \/ UNCHANGED Store!vars
<1>1. /\ file' = Saved /\ mFilePath' = mFilePath /\ mFallback' = mFallback
      /\ mConfiguration' = mConfiguration /\ mPendingWrites' = mPendingWrites
      /\ torn' = {k \in torn : mPendingWrites[k] = Missing}
  BY DEF SaveWritten, pathVars, confVars
<1>2. View' = View /\ Touched' = Touched
  BY <1>1 DEF View, ExtractValue, Touched
<1>a. torn \subseteq Keys
  BY DEF ConfInv, TypeOK
<1>3. CASE mPendingWrites = Nothing
  <2>1. file' = file
    BY <1>1, <1>3, SavedFile DEF ConfInv
  <2>2. Disk' = Disk /\ Exists' = Exists
    BY <1>1, <2>1, SameDisk
  <2>3. torn' = torn
    BY <1>1, <1>a, <1>3 DEF Nothing
  <2> QED BY <1>1, <1>2, <2>2, <2>3 DEF Store!vars, View, Disk, Exists, Touched
<1>4. CASE mPendingWrites # Nothing
  <2>1. \E here \in [Keys -> Values \cup {Missing}] :
           /\ \A k \in Touched : here[k] \in {View[k], Disk[mFilePath][k]}
           /\ \A k \in Keys \ Touched :
                here[k] = IF mFilePath \in Exists THEN Disk[mFilePath][k] ELSE Missing
           /\ Disk' = [Disk EXCEPT ![mFilePath] = here]
           /\ Exists' = Exists \cup {mFilePath}
    BY <1>1, <1>4, SavedIsWritten
  <2>2. Store!Written
    BY <2>1 DEF Store!Written, Store!Store, View, Disk, Exists, Touched
  <2>3. torn' = torn \ Touched
    BY <1>1, <1>a DEF Touched
  <2> QED BY <1>1, <1>2, <2>2, <2>3 DEF Store!Save, View, Touched
<1> QED BY <1>3, <1>4

\* A part of the file in use is lost, and nothing of another one.
LEMMA CutIsTorn ==
  ASSUME ConfInv, mPendingWrites # Nothing, mFilePath' = mFilePath, mFallback' = mFallback,
         NEW content \in CutShort, file' = [file EXCEPT ![mFilePath] = content]
  PROVE  Store!Torn
<1> DEFINE here == [k \in Keys |-> ValueIn(content[k])]
<1>1. content \in [Keys -> Lines] /\ content # NoFile
  BY CutShortType DEF ConfInv
<1>2. here \in [Keys -> Values \cup {Missing}]
  BY <1>1, ValueInType
<1>3. /\ file \in [Paths -> FileOrNone] /\ mFilePath \in Paths
      /\ file'[mFilePath] = content
      /\ \A p \in Paths : p # mFilePath => file'[p] = file[p]
  <2>1. file \in [Paths -> FileOrNone] /\ mFilePath \in Paths
    BY FilesLeft
  <2> QED BY <2>1
<1>4. Exists' = Exists \cup {mFilePath}
  BY <1>1, <1>3 DEF Exists
<1>5. Touched # {}
  <2>1. mPendingWrites \in [Keys -> Values \cup {Missing}]
    BY DEF ConfInv, TypeOK
  <2> QED BY <2>1 DEF Touched, Nothing
<1>6. Disk' = [Disk EXCEPT ![mFilePath] = here]
  <2>1. LoadFrom(file, mFilePath)' = here
    BY <1>1, <1>3 DEF LoadFrom, Content
  <2>2. \A p \in Paths : p # mFilePath => LoadFrom(file, p)' = LoadFrom(file, p)
    BY <1>3 DEF LoadFrom, Content
  <2> HIDE DEF here
  <2> QED BY <1>3, <2>1, <2>2 DEF Disk
<1> HIDE DEF here
<1> QED
  BY <1>2, <1>4, <1>5, <1>6 DEF Store!Torn, Store!Store, View, Disk, Exists, Touched

LEMMA SaveCutShortIsStoreSaveCutShort ==
  ASSUME ConfInv, SaveCutShort
  PROVE  Store!SaveCutShort
<1>1. /\ mPendingWrites # Nothing /\ mFilePath' = mFilePath /\ mFallback' = mFallback
      /\ mConfiguration' = mConfiguration /\ mPendingWrites' = mPendingWrites
      /\ torn' = Keys
  BY DEF SaveCutShort, pathVars, confVars
<1>2. PICK content \in CutShort : file' = [file EXCEPT ![mFilePath] = content]
  BY DEF SaveCutShort
<1>3. Store!Torn
  BY <1>1, <1>2, CutIsTorn
<1>4. View' = View /\ Touched' = Touched
  BY <1>1 DEF View, ExtractValue, Touched
<1> QED BY <1>1, <1>3, <1>4 DEF Store!SaveCutShort, View, Touched

LEMMA ReadIsStoreOpen ==
  ASSUME ConfInv, NEW p \in Paths, Reload(file, p), file' = file
  PROVE  Store!Open(p)
<1>1. /\ mFilePath' = p /\ mFallback' = mFallback
      /\ View' = Disk'[p] /\ Touched' = {} /\ torn' = {}
  BY FilesLeft, ReloadIsOpen
<1>2. Disk' = Disk /\ Exists' = Exists
  BY <1>1, SameDisk
<1> QED BY <1>1, <1>2 DEF Store!Open, View, Disk, Exists, Touched

LEMMA ReloadValueIsStoreReloadValue ==
  ASSUME ConfInv, NEW k \in Keys, ReloadValue(k)
  PROVE  Store!ReloadValue(k)
<1> DEFINE read == LoadFrom(file, mFilePath)
<1>1. /\ read[k] # Missing
      /\ mConfiguration' = [mConfiguration EXCEPT ![k] = read[k]]
      /\ mPendingWrites' = [mPendingWrites EXCEPT ![k] = Missing]
      /\ mFilePath' = mFilePath /\ mFallback' = mFallback /\ file' = file
      /\ torn' = torn \ {k}
      /\ mPendingWrites \in [Keys -> Values \cup {Missing}]
      /\ mConfiguration \in [Keys -> Values \cup {Missing}]
  BY DEF ReloadValue, pathVars, ConfInv, TypeOK
<1>2. Disk[mFilePath] = read
  BY DiskType
<1> HIDE DEF read
<1>3. Disk' = Disk /\ Exists' = Exists
  BY <1>1, SameDisk
<1>4. View' = [View EXCEPT ![k] = read[k]]
  BY <1>1 DEF View, ExtractValue
<1>5. Touched' = Touched \ {k}
  BY <1>1 DEF Touched
<1> QED
  BY <1>1, <1>2, <1>3, <1>4, <1>5 DEF Store!ReloadValue, View, Disk, Exists, Touched

LEMMA RestartIsStoreRestart ==
  ASSUME ConfInv, Restart
  PROVE  Store!Restart
<1>1. PICK files \in Outcomes : file' = files /\ Reload(files, mFilePath)
  BY DEF Restart, Reload, LoadFrom, Content
<1>2. /\ mFilePath' = mFilePath /\ mFallback' = mFallback
      /\ View' = Disk'[mFilePath] /\ Touched' = {} /\ torn' = {}
  BY <1>1, FilesLeft, ReloadIsOpen
<1>3. Store!Written \/ Store!Torn \/ (Disk' = Disk /\ Exists' = Exists)
  <2>1. CASE files = file \/ mPendingWrites = Nothing
    <3>1. file' = file
      BY <1>1, <2>1, SavedFile DEF ConfInv, Outcomes
    <3> QED BY <1>2, <3>1, SameDisk
  <2>2. CASE files = Saved /\ mPendingWrites # Nothing
    <3>1. \E here \in [Keys -> Values \cup {Missing}] :
             /\ \A k \in Touched : here[k] \in {View[k], Disk[mFilePath][k]}
             /\ \A k \in Keys \ Touched :
                  here[k] = IF mFilePath \in Exists THEN Disk[mFilePath][k] ELSE Missing
             /\ Disk' = [Disk EXCEPT ![mFilePath] = here]
             /\ Exists' = Exists \cup {mFilePath}
      BY <1>1, <1>2, <2>2, SavedIsWritten
    <3> QED BY <3>1 DEF Store!Written, Store!Store, View, Disk, Exists, Touched
  <2>3. CASE /\ mPendingWrites # Nothing
             /\ \E content \in CutShort : files = [file EXCEPT ![mFilePath] = content]
    BY <1>1, <1>2, <2>3, CutIsTorn
  <2> QED BY <2>1, <2>2, <2>3 DEF Outcomes
<1> QED BY <1>2, <1>3 DEF Store!Restart, View, Disk, Exists, Touched

LEMMA ChangeIsStoreChange ==
  ASSUME ConfInv, NEW k \in Keys, ChangeOutside(k)
  PROVE  Store!ChangeOutside(k)
<1>1. PICK lines \in Contents[k] : file' = [file EXCEPT ![mFilePath][k] = lines]
  BY DEF ChangeOutside
<1>2. /\ file[mFilePath] # NoFile
      /\ mFilePath' = mFilePath /\ mFallback' = mFallback
      /\ mConfiguration' = mConfiguration /\ mPendingWrites' = mPendingWrites
      /\ torn' = torn
      /\ mFilePath \in Paths /\ file \in [Paths -> FileOrNone]
  BY FilesLeft DEF ChangeOutside, pathVars, confVars
<1>3. lines \in Lines /\ file[mFilePath] \in [Keys -> Lines]
  BY <1>2, ConfAssumption DEF FileOrNone
<1>4. /\ file'[mFilePath] = [file[mFilePath] EXCEPT ![k] = lines]
      /\ file'[mFilePath] \in [Keys -> Lines]
      /\ \A p \in Paths : p # mFilePath => file'[p] = file[p]
  BY <1>1, <1>2, <1>3
<1>5. file'[mFilePath] # NoFile
  BY <1>4, ConfAssumption
<1>6. View' = View /\ Touched' = Touched
  BY <1>2 DEF View, ExtractValue, Touched
<1>7. Exists' = Exists /\ mFilePath \in Exists
  BY <1>2, <1>4, <1>5 DEF Exists
<1>8. ValueIn(lines) \in Values \cup {Missing}
  BY <1>3, ValueInType
<1>9. Disk' = [Disk EXCEPT ![mFilePath][k] = ValueIn(lines)]
  <2>1. LoadFrom(file, mFilePath) = [l \in Keys |-> ValueIn(file[mFilePath][l])]
    BY <1>2, LoadFromFile
  <2>2. LoadFrom(file, mFilePath)' = [l \in Keys |-> ValueIn(file'[mFilePath][l])]
    BY <1>2, <1>5 DEF LoadFrom, Content
  <2>3. \A l \in Keys : file'[mFilePath][l] = IF l = k THEN lines ELSE file[mFilePath][l]
    BY <1>3, <1>4
  <2>4. LoadFrom(file, mFilePath)' = [LoadFrom(file, mFilePath) EXCEPT ![k] = ValueIn(lines)]
    BY <2>1, <2>2, <2>3
  <2>5. \A p \in Paths : p # mFilePath => LoadFrom(file, p)' = LoadFrom(file, p)
    BY <1>2, <1>4 DEF LoadFrom, Content
  <2> QED BY <1>2, <2>4, <2>5 DEF Disk
<1> QED
  BY <1>2, <1>6, <1>7, <1>8, <1>9 DEF Store!ChangeOutside, View, Disk, Exists, Touched

\* Every step of IniFile is a step of the store its users see, or changes
\* nothing of it: a set, a save, a reload, another file, a restart and a change
\* from outside, for any files, keys, values and lines.
THEOREM ImplementsStore == Spec => StoreSpec
<1>1. Init => Store!Init
  BY InitIsStoreInit
<1>2. ConfInv /\ [Next]_vars => [Store!Next]_(Store!vars)
  <2> SUFFICES ASSUME ConfInv, [Next]_vars PROVE Store!Next \/ UNCHANGED Store!vars
    OBVIOUS
  <2> USE DEF Store!Next
  <2>1. CASE \E k \in Keys : \E v \in ValuesOf[k] : Set(k, v)
    BY <2>1, SetIsStoreSet
  <2>2. CASE Save
    <3>1. SaveWritten => Store!Save \/ UNCHANGED Store!vars
      BY SaveIsStoreSave
    <3>2. SaveCutShort => Store!SaveCutShort
      BY SaveCutShortIsStoreSaveCutShort
    <3>3. ASSUME UNCHANGED vars PROVE UNCHANGED Store!vars
      <4>1. Disk' = Disk /\ Exists' = Exists /\ View' = View /\ Touched' = Touched
        BY <3>3, SameDisk DEF vars, pathVars, confVars, View, ExtractValue, Touched
      <4> QED
        BY <3>3, <4>1 DEF vars, pathVars, historyVars, Store!vars, View, Disk, Exists, Touched
    <3> QED BY <2>2, <3>1, <3>2, <3>3 DEF Save
  <2>3. CASE ReloadAll
    <3>1. mFilePath \in Paths /\ Reload(file, mFilePath) /\ file' = file
      BY <2>3, DiskType DEF ReloadAll
    <3> QED BY <3>1, ReadIsStoreOpen
  <2>4. CASE \E p \in Paths : LoadFromNewPath(p)
    BY <2>4, ReadIsStoreOpen DEF LoadFromNewPath
  <2>5. CASE \E k \in Keys : ReloadValue(k)
    BY <2>5, ReloadValueIsStoreReloadValue
  <2>6. CASE Restart
    BY <2>6, RestartIsStoreRestart
  <2>7. CASE \E k \in Keys : ChangeOutside(k)
    BY <2>7, ChangeIsStoreChange
  <2>8. CASE UNCHANGED vars
    <3>1. Disk' = Disk /\ Exists' = Exists /\ View' = View /\ Touched' = Touched
      BY <2>8, SameDisk DEF vars, pathVars, confVars, View, ExtractValue, Touched
    <3> QED
      BY <2>8, <3>1 DEF vars, pathVars, historyVars, Store!vars, View, Disk, Exists, Touched
  <2> QED
    BY <2>1, <2>2, <2>3, <2>4, <2>5, <2>6, <2>7, <2>8 DEF Next
<1> QED
  BY <1>1, <1>2, ConfInvariant, PTL DEF Spec, StoreSpec, Store!Spec
=============================================================================
