-------------------------- MODULE LogRotationProofs --------------------------
(* What is proved of LogRotation for any number of lines, failures and     *)
(* days, any clock and any age of archives.                                *)
EXTENDS LogRotation, TLAPS

-----------------------------------------------------------------------------
(* The inductive invariant.                                                *)

FilesTyped ==
  /\ DOMAIN files \subseteq Nat
  /\ \A f \in DOMAIN files : /\ files[f] \in Seq(Nat)
                             /\ \A i \in DOMAIN files[f] : files[f][i] \in written

RotationTyped ==
  /\ maxAge \in Int /\ today \in Nat \ {0} /\ back \in Nat
  /\ step \in {"down", "opening", "archiving", "cleaning", "writing", "idle"}
  /\ starting \in BOOLEAN /\ late \in BOOLEAN /\ doubled \in BOOLEAN
  /\ fileDay \in Nat /\ openDay \in Nat /\ mtime \in Nat
  /\ FilesTyped
  /\ asked \in Seq(Nat)
  /\ written \subseteq 1..Len(asked)
  /\ \A e \in expired : e[1] \in written /\ e[2] \in Nat

(* A Write is under way: the last line is still to be written.             *)
InWrite == \/ step \in {"archiving", "writing"}
           \/ step \in {"opening", "cleaning"} /\ ~starting

(* currentDay is that of a file this process has opened.                   *)
AtWork == step \in {"idle", "cleaning"} \/ InWrite

(* File 0 holds the lines of one day, the day it was last written to; for  *)
(* a writer at work that is currentDay, unless a line came late, or the    *)
(* file was created after midnight and is empty.                           *)
DaysAgree ==
  /\ step \in {"idle", "archiving", "writing"} => ~starting
  /\ InWrite => Len(asked) >= 1 /\ Len(asked) \notin written
  /\ 0 \in DOMAIN files => mtime >= 1
  /\ step = "opening" => openDay >= 1
  /\ AtWork => fileDay >= 1
  /\ AtWork /\ 0 \in DOMAIN files /\ ~late => mtime = fileDay \/ files[0] = <<>>
  /\ back = 0 => openDay <= today /\ fileDay <= today
  /\ AtWork /\ 0 \in DOMAIN files /\ back = 0 => fileDay <= mtime

Filed ==
  ~late => \A f \in DOMAIN files : \A i \in DOMAIN files[f] :
             asked[files[f][i]] = IF f = 0 THEN mtime ELSE f

Expiry ==
  \A e \in expired : maxAge > 0 /\ (asked[e[1]] <= e[2] - maxAge + Early \/ late)

IsIn(l, fs) == \E f \in DOMAIN fs : \E i \in DOMAIN fs[f] : fs[f][i] = l

LinesKept == \A l \in written : IsIn(l, files) \/ \E e \in expired : e[1] = l

Once ==
  doubled \/ \A f, g \in DOMAIN files : \A i \in DOMAIN files[f], j \in DOMAIN files[g] :
               files[f][i] = files[g][j] => f = g /\ i = j

(* The border moves only when a file is opened, and then comes a cleanup.  *)
Young ==
  AtWork /\ step # "cleaning" /\ maxAge > 0 /\ back = 0 =>
    \A d \in Archives \ spared : d >= fileDay - maxAge + Early

LogInv == RotationTyped /\ DaysAgree /\ Filed /\ Expiry /\ LinesKept /\ Once /\ Young

-----------------------------------------------------------------------------
(* What happens to files.                                                  *)

LEMMA Joined ==
  ASSUME NEW s \in Seq(Nat), NEW t \in Seq(Nat)
  PROVE  /\ s \o t \in Seq(Nat)
         /\ DOMAIN (s \o t) = 1..Len(s) + Len(t)
         /\ \A i \in DOMAIN s : i \in DOMAIN (s \o t) /\ (s \o t)[i] = s[i]
         /\ \A j \in DOMAIN t : Len(s) + j \in DOMAIN (s \o t) /\ (s \o t)[Len(s) + j] = t[j]
         /\ \A i \in DOMAIN (s \o t) :
              \/ i \in DOMAIN s
              \/ \E j \in DOMAIN t : i = Len(s) + j
<1>1. /\ s \o t \in Seq(Nat) /\ Len(s \o t) = Len(s) + Len(t)
      /\ Len(s) \in Nat /\ Len(t) \in Nat
      /\ DOMAIN s = 1..Len(s) /\ DOMAIN t = 1..Len(t)
  OBVIOUS
<1>2. DOMAIN (s \o t) = 1..Len(s) + Len(t)
  BY <1>1
<1>3. \A i \in DOMAIN s : i \in DOMAIN (s \o t) /\ (s \o t)[i] = s[i]
  BY <1>1, <1>2
<1>4. \A j \in DOMAIN t : Len(s) + j \in DOMAIN (s \o t) /\ (s \o t)[Len(s) + j] = t[j]
  BY <1>1, <1>2
<1>5. ASSUME NEW i \in DOMAIN (s \o t), i \notin DOMAIN s
      PROVE  \E j \in DOMAIN t : i = Len(s) + j
  <2>1. i - Len(s) \in DOMAIN t /\ i = Len(s) + (i - Len(s))
    BY <1>1, <1>2, <1>5
  <2> QED
    BY <2>1
<1> QED
  BY <1>1, <1>2, <1>3, <1>4, <1>5

LEMMA LinesType == ASSUME RotationTyped, NEW f PROVE Lines(f) \in Seq(Nat)
BY DEF RotationTyped, FilesTyped, Lines

LEMMA ArchivedIs ==
  ASSUME RotationTyped, 0 \in DOMAIN files, NEW d, d # 0
  PROVE  /\ DOMAIN Archived(d) = (DOMAIN files \cup {d}) \ {0}
         /\ Archived(d)[d] = Lines(d) \o files[0]
         /\ \A g \in DOMAIN files \ {0, d} : Archived(d)[g] = files[g]
BY DEF Archived, With, Without, Lines

(* Every line of an archived file has moved, and the others are where they *)
(* were.                                                                   *)
LEMMA Moved ==
  ASSUME RotationTyped, 0 \in DOMAIN files, NEW d \in Nat \ {0}, NEW A, A = Archived(d)
  PROVE  /\ DOMAIN A \subseteq Nat \ {0} /\ DOMAIN A \ {d} \subseteq Archives
         /\ \A g \in DOMAIN A : A[g] \in Seq(Nat)
         /\ \A g \in DOMAIN A : \A i \in DOMAIN A[g] :
              \E f \in DOMAIN files : \E j \in DOMAIN files[f] :
                /\ A[g][i] = files[f][j]
                /\ \/ f = g /\ f # 0 /\ j = i
                   \/ f = 0 /\ g = d /\ i = Len(Lines(d)) + j
         /\ \A l : IsIn(l, files) => IsIn(l, A)
<1>1. /\ DOMAIN A = (DOMAIN files \cup {d}) \ {0}
      /\ A[d] = Lines(d) \o files[0]
      /\ \A g \in DOMAIN files \ {0, d} : A[g] = files[g]
  BY ArchivedIs
<1>2. /\ Lines(d) \in Seq(Nat)
      /\ \A f \in DOMAIN files : files[f] \in Seq(Nat)
      /\ DOMAIN files \subseteq Nat
  BY LinesType DEF RotationTyped, FilesTyped
<1>3. d \in DOMAIN files => Lines(d) = files[d]
  BY DEF Lines
<1>4. d \notin DOMAIN files => DOMAIN Lines(d) = {}
  BY DEF Lines
<1>5. /\ A[d] \in Seq(Nat)
      /\ \A i \in DOMAIN Lines(d) : i \in DOMAIN A[d] /\ A[d][i] = Lines(d)[i]
      /\ \A j \in DOMAIN files[0] : /\ Len(Lines(d)) + j \in DOMAIN A[d]
                                   /\ A[d][Len(Lines(d)) + j] = files[0][j]
      /\ \A i \in DOMAIN A[d] : \/ i \in DOMAIN Lines(d)
                               \/ \E j \in DOMAIN files[0] : i = Len(Lines(d)) + j
  <2>1. Lines(d) \in Seq(Nat) /\ files[0] \in Seq(Nat) /\ A[d] = Lines(d) \o files[0]
    BY <1>1, <1>2
  <2> QED
    BY <2>1, Joined
<1>a. \A g \in DOMAIN A : A[g] \in Seq(Nat)
  BY <1>1, <1>2, <1>5
<1>6. ASSUME NEW g \in DOMAIN A, NEW i \in DOMAIN A[g]
      PROVE  \E f \in DOMAIN files : \E j \in DOMAIN files[f] :
                /\ A[g][i] = files[f][j]
                /\ \/ f = g /\ f # 0 /\ j = i
                   \/ f = 0 /\ g = d /\ i = Len(Lines(d)) + j
  <2>1. CASE g # d
    BY <1>1, <2>1
  <2>2. CASE g = d /\ i \in DOMAIN Lines(d)
    <3>1. A[d][i] = Lines(d)[i]
      BY <1>5, <2>2
    <3> QED
      BY <1>3, <1>4, <2>2, <3>1
  <2>3. CASE g = d /\ i \notin DOMAIN Lines(d)
    <3>1. PICK j \in DOMAIN files[0] : i = Len(Lines(d)) + j
      BY <1>5, <2>3
    <3>2. A[d][i] = files[0][j]
      BY <1>5, <3>1
    <3> QED
      BY <2>3, <3>1, <3>2
  <2> QED
    BY <2>1, <2>2, <2>3
<1>7. ASSUME NEW f \in DOMAIN files, NEW j \in DOMAIN files[f]
      PROVE  \E g \in DOMAIN A : \E i \in DOMAIN A[g] : A[g][i] = files[f][j]
  <2>1. CASE f \notin {0, d}
    BY <1>1, <2>1
  <2>2. CASE f = d
    <3>1. j \in DOMAIN A[d] /\ A[d][j] = files[d][j]
      BY <1>3, <1>5, <2>2
    <3> QED
      BY <1>1, <2>2, <3>1
  <2>3. CASE f = 0
    <3>1. /\ Len(Lines(d)) + j \in DOMAIN A[d]
          /\ A[d][Len(Lines(d)) + j] = files[0][j]
      BY <1>5, <2>3
    <3> QED
      BY <1>1, <2>3, <3>1
  <2> QED
    BY <2>1, <2>2, <2>3
<1> QED
  BY <1>1, <1>2, <1>a, <1>6, <1>7 DEF IsIn, Archives

(* A part of file 0 is copied to the end of an archive.                    *)
CopiedTo(A, d) ==
  /\ DOMAIN A = DOMAIN files
  /\ \A g \in DOMAIN A : A[g] \in Seq(Nat)
  /\ \A g \in DOMAIN A : \A i \in DOMAIN A[g] :
       \E f \in DOMAIN files : \E j \in DOMAIN files[f] :
         A[g][i] = files[f][j] /\ (f = g \/ (f = 0 /\ g = d))
  /\ \A l : IsIn(l, files) => IsIn(l, A)

LEMMA Copied ==
  ASSUME RotationTyped, 0 \in DOMAIN files, NEW d \in Archives,
         NEW p \in Seq(Nat), \A j \in DOMAIN p : j \in DOMAIN files[0] /\ p[j] = files[0][j],
         NEW A, A = With(d, files[d] \o p)
  PROVE  CopiedTo(A, d)
<1>1. /\ DOMAIN A = DOMAIN files
      /\ A[d] = files[d] \o p
      /\ \A g \in DOMAIN files \ {d} : A[g] = files[g]
  BY DEF With, Archives
<1>2. \A f \in DOMAIN files : files[f] \in Seq(Nat)
  BY DEF RotationTyped, FilesTyped
<1>4. d \in DOMAIN files /\ files[d] \in Seq(Nat)
  BY <1>2 DEF Archives
<1>5. /\ A[d] \in Seq(Nat)
      /\ \A i \in DOMAIN files[d] : i \in DOMAIN A[d] /\ A[d][i] = files[d][i]
      /\ \A j \in DOMAIN p : Len(files[d]) + j \in DOMAIN A[d] /\ A[d][Len(files[d]) + j] = p[j]
      /\ \A i \in DOMAIN A[d] : \/ i \in DOMAIN files[d]
                               \/ \E j \in DOMAIN p : i = Len(files[d]) + j
  <2>1. PICK s \in Seq(Nat) : s = files[d]
    BY <1>4
  <2>2. /\ s \o p \in Seq(Nat)
        /\ \A i \in DOMAIN s : i \in DOMAIN (s \o p) /\ (s \o p)[i] = s[i]
        /\ \A j \in DOMAIN p : Len(s) + j \in DOMAIN (s \o p) /\ (s \o p)[Len(s) + j] = p[j]
        /\ \A i \in DOMAIN (s \o p) : i \in DOMAIN s \/ \E j \in DOMAIN p : i = Len(s) + j
    BY Joined
  <2> QED
    BY <1>1, <2>1, <2>2
<1>a. \A g \in DOMAIN A : A[g] \in Seq(Nat)
  BY <1>1, <1>2, <1>5
<1>6. ASSUME NEW g \in DOMAIN A, NEW i \in DOMAIN A[g]
      PROVE  \E f \in DOMAIN files : \E j \in DOMAIN files[f] :
                A[g][i] = files[f][j] /\ (f = g \/ (f = 0 /\ g = d))
  <2>1. CASE g # d
    BY <1>1, <2>1
  <2>2. CASE g = d /\ i \in DOMAIN files[d]
    BY <1>4, <1>5, <2>2
  <2>3. CASE g = d /\ i \notin DOMAIN files[d]
    <3>1. PICK j \in DOMAIN p : i = Len(files[d]) + j
      BY <1>5, <2>3
    <3>2. A[d][i] = p[j]
      BY <1>5, <3>1
    <3> QED
      BY <2>3, <3>2
  <2> QED
    BY <2>1, <2>2, <2>3
<1>7. ASSUME NEW f \in DOMAIN files, NEW j \in DOMAIN files[f]
      PROVE  j \in DOMAIN A[f] /\ A[f][j] = files[f][j]
  <2>1. CASE f # d
    BY <1>1, <2>1
  <2>2. CASE f = d
    BY <1>4, <1>5, <2>2
  <2> QED
    BY <2>1, <2>2
<1>8. ASSUME NEW l, IsIn(l, files) PROVE IsIn(l, A)
  BY <1>1, <1>7, <1>8 DEF IsIn
<1> QED
  BY <1>1, <1>a, <1>6, <1>8 DEF CopiedTo

(* A holds the files and one more line, at the end of file 0, which is     *)
(* created if there is none.                                               *)
OneMore(A, l) ==
  /\ DOMAIN A = DOMAIN files \cup {0}
  /\ \A g \in DOMAIN A : A[g] \in Seq(Nat)
  /\ \A g \in DOMAIN A : \A i \in DOMAIN A[g] :
       \/ g \in DOMAIN files /\ i \in DOMAIN files[g] /\ A[g][i] = files[g][i]
       \/ g = 0 /\ i = Len(Lines(0)) + 1 /\ A[g][i] = l
  /\ \A k : IsIn(k, files) => IsIn(k, A)
  /\ IsIn(l, A)

LEMMA Written ==
  ASSUME RotationTyped, NEW l \in Nat
  PROVE  OneMore(With(0, Append(Lines(0), l)), l)
<1> DEFINE A == With(0, Append(Lines(0), l))
<1>1. /\ DOMAIN A = DOMAIN files \cup {0}
      /\ A[0] = Append(Lines(0), l)
      /\ \A g \in DOMAIN files \ {0} : A[g] = files[g]
  BY DEF With
<1> HIDE DEF A
<1>2. /\ Lines(0) \in Seq(Nat)
      /\ \A f \in DOMAIN files : files[f] \in Seq(Nat)
  BY LinesType DEF RotationTyped, FilesTyped
<1>3. /\ A[0] \in Seq(Nat)
      /\ Len(Lines(0)) + 1 \in DOMAIN A[0] /\ A[0][Len(Lines(0)) + 1] = l
      /\ \A i \in DOMAIN Lines(0) : i \in DOMAIN A[0] /\ A[0][i] = Lines(0)[i]
      /\ \A i \in DOMAIN A[0] : i \in DOMAIN Lines(0) \/ i = Len(Lines(0)) + 1
  <2>1. A[0] \in Seq(Nat) /\ Len(A[0]) = Len(Lines(0)) + 1 /\ Len(Lines(0)) \in Nat
    BY <1>1, <1>2
  <2>2. DOMAIN A[0] = 1..Len(Lines(0)) + 1 /\ DOMAIN Lines(0) = 1..Len(Lines(0))
    BY <1>2, <2>1
  <2>3. /\ A[0][Len(Lines(0)) + 1] = l
        /\ \A i \in 1..Len(Lines(0)) : A[0][i] = Lines(0)[i]
    BY <1>1, <1>2
  <2> QED
    BY <2>1, <2>2, <2>3
<1>4. IF 0 \in DOMAIN files THEN Lines(0) = files[0] ELSE DOMAIN Lines(0) = {}
  BY DEF Lines
<1>5. ASSUME NEW f \in DOMAIN files, NEW j \in DOMAIN files[f]
      PROVE  j \in DOMAIN A[f] /\ A[f][j] = files[f][j]
  <2>1. CASE f # 0
    BY <1>1, <2>1
  <2>2. CASE f = 0
    <3>1. files[f] = Lines(0)
      BY <1>4, <2>2
    <3> QED
      BY <1>3, <2>2, <3>1
  <2> QED
    BY <2>1, <2>2
<1>6. \A g \in DOMAIN A : A[g] \in Seq(Nat)
  BY <1>1, <1>2, <1>3
<1>7. ASSUME NEW g \in DOMAIN A, NEW i \in DOMAIN A[g]
      PROVE  \/ g \in DOMAIN files /\ i \in DOMAIN files[g] /\ A[g][i] = files[g][i]
             \/ g = 0 /\ i = Len(Lines(0)) + 1 /\ A[g][i] = l
  <2>1. CASE g # 0
    BY <1>1, <2>1
  <2>2. CASE g = 0 /\ i \in DOMAIN Lines(0)
    <3>1. 0 \in DOMAIN files /\ Lines(0) = files[0]
      BY <1>4, <2>2
    <3> QED
      BY <1>3, <2>2, <3>1
  <2>3. CASE g = 0 /\ i \notin DOMAIN Lines(0)
    BY <1>3, <2>3
  <2> QED
    BY <2>1, <2>2, <2>3
<1>8. ASSUME NEW k, IsIn(k, files) PROVE IsIn(k, A)
  BY <1>1, <1>5, <1>8 DEF IsIn
<1>9. IsIn(l, A)
  BY <1>1, <1>3 DEF IsIn
<1> QED
  BY <1>1, <1>6, <1>7, <1>8, <1>9 DEF OneMore, A

-----------------------------------------------------------------------------
(* Steps.                                                                  *)

LEMMA ArchiveKeeps ==
  ASSUME LogInv, NEW d \in Nat \ {0}, ArchiveDone(d) \/ ArchiveFailed(d),
         0 \in DOMAIN files /\ ~late => d = mtime \/ files[0] = <<>>,
         asked' = asked, written' = written, expired' = expired, late' = late, mtime' = mtime
  PROVE  /\ FilesTyped' /\ Filed' /\ LinesKept' /\ Once'
         /\ Archives' \subseteq Archives \cup {d}
         /\ 0 \in DOMAIN files' => 0 \in DOMAIN files /\ files'[0] = files[0]
<1>0. RotationTyped /\ FilesTyped
  BY DEF LogInv, RotationTyped
<1>1. CASE UNCHANGED <<files, doubled>>
  BY <1>1 DEF LogInv, RotationTyped, FilesTyped, Filed, LinesKept, IsIn, Once, Archives
<1>2. CASE ArchiveDone(d)
  <2>0. 0 \in DOMAIN files /\ files' = Archived(d) /\ doubled' = doubled
    BY <1>2 DEF ArchiveDone
  <2>1. /\ DOMAIN files' \subseteq Nat \ {0} /\ DOMAIN files' \ {d} \subseteq Archives
        /\ \A g \in DOMAIN files' : files'[g] \in Seq(Nat)
        /\ \A g \in DOMAIN files' : \A i \in DOMAIN files'[g] :
             \E f \in DOMAIN files : \E j \in DOMAIN files[f] :
               /\ files'[g][i] = files[f][j]
               /\ \/ f = g /\ f # 0 /\ j = i
                  \/ f = 0 /\ g = d /\ i = Len(Lines(d)) + j
        /\ \A l : IsIn(l, files) => IsIn(l, files')
    BY <1>0, <2>0, Moved
  <2>2. FilesTyped'
    BY <1>0, <2>1 DEF FilesTyped
  <2>3. Filed'
    <3> SUFFICES ASSUME ~late, NEW g \in DOMAIN files', NEW i \in DOMAIN files'[g]
                 PROVE  asked[files'[g][i]] = g /\ g # 0
      BY <2>1 DEF Filed
    <3>1. PICK f \in DOMAIN files : \E j \in DOMAIN files[f] :
               /\ files'[g][i] = files[f][j]
               /\ (f = g /\ f # 0) \/ (f = 0 /\ g = d)
      BY <2>1
    <3>2. f = 0 => files[0] # <<>>
      BY <3>1
    <3> QED
      BY <2>0, <2>1, <3>1, <3>2 DEF LogInv, Filed
  <2>4. LinesKept'
    BY <2>1 DEF LogInv, LinesKept
  <2>5. Once'
    <3> SUFFICES ASSUME ~doubled, NEW f \in DOMAIN files', NEW g \in DOMAIN files',
                        NEW i \in DOMAIN files'[f], NEW j \in DOMAIN files'[g],
                        files'[f][i] = files'[g][j]
                 PROVE  f = g /\ i = j
      BY <2>0 DEF Once
    <3>1. PICK f1, i1 :
               /\ f1 \in DOMAIN files /\ i1 \in DOMAIN files[f1]
               /\ files'[f][i] = files[f1][i1]
               /\ \/ f1 = f /\ f1 # 0 /\ i1 = i
                  \/ f1 = 0 /\ f = d /\ i = Len(Lines(d)) + i1
      BY <2>1
    <3>2. PICK g1, j1 :
               /\ g1 \in DOMAIN files /\ j1 \in DOMAIN files[g1]
               /\ files'[g][j] = files[g1][j1]
               /\ \/ g1 = g /\ g1 # 0 /\ j1 = j
                  \/ g1 = 0 /\ g = d /\ j = Len(Lines(d)) + j1
      BY <2>1
    <3>3. f1 = g1 /\ i1 = j1
      <4>1. files[f1][i1] = files[g1][j1]
        BY <3>1, <3>2
      <4>2. \A x, y \in DOMAIN files : \A k \in DOMAIN files[x], l \in DOMAIN files[y] :
               files[x][k] = files[y][l] => x = y /\ k = l
        BY DEF LogInv, Once
      <4> QED
        BY <3>1, <3>2, <4>1, <4>2
    <3> QED
      BY <3>1, <3>2, <3>3
  <2> QED
    BY <2>0, <2>1, <2>2, <2>3, <2>4, <2>5 DEF Archives
<1>3. CASE ArchiveFailed(d) /\ ~UNCHANGED <<files, doubled>>
  <2>0. PICK n \in 0..(IF d \in Archives THEN Len(files[0]) ELSE 0) :
             /\ 0 \in DOMAIN files
             /\ files' = IF n = 0 THEN files ELSE With(d, files[d] \o SubSeq(files[0], 1, n))
             /\ doubled' = (doubled \/ n > 0)
    BY <1>3 DEF ArchiveFailed
  <2>1. n # 0 /\ d \in Archives /\ n \in 1..Len(files[0])
    <3>1. n # 0
      <4> SUFFICES ASSUME n = 0 PROVE FALSE
        OBVIOUS
      <4>1. files' = files
        BY <2>0
      <4>2. doubled' = doubled
        BY <2>0, <1>0 DEF RotationTyped
      <4> QED
        BY <1>3, <4>1, <4>2
    <3>2. d \in Archives
      BY <2>0, <3>1
    <3> QED
      BY <2>0, <3>1, <3>2
  <2>2. doubled'
    <3>1. n > 0
      BY <2>1
    <3> QED
      BY <2>0, <3>1, Zenon
  <2>3. /\ DOMAIN files' = DOMAIN files
        /\ \A g \in DOMAIN files' : files'[g] \in Seq(Nat)
        /\ \A g \in DOMAIN files' : \A i \in DOMAIN files'[g] :
             \E f \in DOMAIN files : \E j \in DOMAIN files[f] :
               files'[g][i] = files[f][j] /\ (f = g \/ (f = 0 /\ g = d))
        /\ \A l : IsIn(l, files) => IsIn(l, files')
    <3>1. PICK p : p = SubSeq(files[0], 1, n)
      OBVIOUS
    <3>2. files' = With(d, files[d] \o p) /\ 0 \in DOMAIN files
      BY <2>0, <2>1, <3>1
    <3>3. p \in Seq(Nat) /\ \A j \in DOMAIN p : j \in DOMAIN files[0] /\ p[j] = files[0][j]
      <4>1. files[0] \in Seq(Nat)
        BY <1>0, <2>0 DEF FilesTyped
      <4>2. n \in 1..Len(files[0])
        BY <2>1
      <4>3. PICK file : file = files[0]
        OBVIOUS
      <4>4. file \in Seq(Nat) /\ n \in 1..Len(file) /\ p = SubSeq(file, 1, n)
        BY <3>1, <4>1, <4>2, <4>3
      <4>5. p \in Seq(Nat) /\ \A j \in DOMAIN p : j \in DOMAIN file /\ p[j] = file[j]
        <5> HIDE DEF RotationTyped
        <5> QED
          BY <4>4
      <4> QED
        BY <4>3, <4>5
    <3> QED
      <4>1. RotationTyped /\ 0 \in DOMAIN files /\ d \in Archives
        BY <1>0, <2>0, <2>1
      <4>2. PICK A : A = files'
        OBVIOUS
      <4>3. A = With(d, files[d] \o p)
        BY <3>2, <4>2, Zenon
      <4>4. CopiedTo(A, d)
        <5>1. p \in Seq(Nat)
          BY <3>3
        <5>2. \A j \in DOMAIN p : j \in DOMAIN files[0] /\ p[j] = files[0][j]
          BY <3>3
        <5> QED
          BY <4>1, <4>3, <5>1, <5>2, Copied
      <4> QED
        BY <4>2, <4>4 DEF CopiedTo
  <2>4. FilesTyped'
    BY <1>0, <2>3 DEF FilesTyped
  <2>5. Filed'
    <3> SUFFICES ASSUME ~late', NEW g \in DOMAIN files', NEW i \in DOMAIN files'[g]
                 PROVE  asked'[files'[g][i]] = IF g = 0 THEN mtime' ELSE g
      BY DEF Filed
    <3>1. PICK f, j : /\ f \in DOMAIN files /\ j \in DOMAIN files[f]
                      /\ files'[g][i] = files[f][j]
                      /\ f = g \/ (f = 0 /\ g = d)
      BY <2>3
    <3>2. asked[files[f][j]] = IF f = 0 THEN mtime ELSE f
      <4>1. ~late
        OBVIOUS
      <4> QED
        BY <3>1, <4>1 DEF LogInv, Filed
    <3>3. CASE f = g
      BY <3>1, <3>2, <3>3
    <3>4. CASE f = 0 /\ g = d
      <4>1. files[0] # <<>>
        BY <3>1, <3>4
      <4>2. d = mtime
        BY <2>0, <4>1
      <4> QED
        BY <3>1, <3>2, <3>4, <4>2
    <3> QED
      BY <3>1, <3>3, <3>4
  <2>6. LinesKept'
    BY <2>3 DEF LogInv, LinesKept
  <2>7. Once'
    BY <2>2 DEF Once
  <2>8. files'[0] = files[0]
    BY <2>0, <2>1 DEF With
  <2> QED
    BY <2>3, <2>4, <2>5, <2>6, <2>7, <2>8 DEF Archives
<1> QED
  BY <1>1, <1>2, <1>3

LEMMA InitLog ==
  ASSUME NEW a \in MaxAges, NEW z \in Zones, RotationInitWith(a, z) PROVE LogInv
<1>1. RotationTyped
  <2>1. /\ maxAge \in Int /\ asked \in Seq(Nat) /\ FilesTyped
        /\ written \subseteq 1..Len(asked) /\ expired = {}
    BY RotationAssumption DEF RotationInitWith, FilesTyped
  <2>2. /\ today \in Nat \ {0} /\ back \in Nat
        /\ fileDay \in Nat /\ openDay \in Nat /\ mtime \in Nat
        /\ step \in {"down", "opening", "archiving", "cleaning", "writing", "idle"}
    BY DEF RotationInitWith
  <2>3. starting \in BOOLEAN /\ late \in BOOLEAN /\ doubled \in BOOLEAN
    BY DEF RotationInitWith
  <2> QED
    BY <2>1, <2>2, <2>3 DEF RotationTyped
<1>2. DaysAgree /\ Young
  BY DEF RotationInitWith, DaysAgree, Young, AtWork, InWrite, Archives
<1>3. Filed /\ Expiry /\ LinesKept /\ Once
  BY DEF RotationInitWith, Filed, Expiry, LinesKept, Once
<1> QED
  BY <1>1, <1>2, <1>3 DEF LogInv

(* A step that changes neither files nor lines. *)
LEMMA NoFileChanges ==
  ASSUME LogInv, files' = files, asked' = asked, written' = written,
         expired' = expired, late' = late, doubled' = doubled, maxAge' = maxAge, zone' = zone,
         0 \in DOMAIN files => mtime' = mtime
  PROVE  FilesTyped' /\ Filed' /\ Expiry' /\ LinesKept' /\ Once' /\ Archives' = Archives
<1>1. FilesTyped' /\ Archives' = Archives
  BY DEF LogInv, RotationTyped, FilesTyped, Archives
<1>2. Filed'
  BY DEF LogInv, Filed
<1>3. Expiry' /\ LinesKept' /\ Once'
  BY DEF LogInv, Expiry, Early, LinesKept, IsIn, Once
<1> QED
  BY <1>1, <1>2, <1>3

(* Steps that change neither files nor lines. *)
LEMMA RestKeeps ==
  ASSUME LogInv, StartWriter \/ WriteFails \/ KillWriter \/ ClockTick \/ UNCHANGED rotationVars
  PROVE  LogInv'
<1>0. /\ files' = files /\ asked' = asked /\ written' = written
      /\ expired' = expired /\ spared' = spared /\ late' = late /\ doubled' = doubled
      /\ maxAge' = maxAge /\ zone' = zone /\ mtime' = mtime /\ fileDay' = fileDay
  BY DEF StartWriter, WriteFails, KillWriter, ClockTick, rotationVars, clockVars, lineVars, goneVars
<1>1. FilesTyped' /\ Filed' /\ Expiry' /\ LinesKept' /\ Once' /\ Archives' = Archives
  BY <1>0, NoFileChanges
<1>t. RotationTyped /\ DaysAgree /\ Young
  BY DEF LogInv
<1>2. today' \in Nat \ {0} /\ back' \in Nat /\ (back' = 0 => back = 0 /\ today' >= today)
  BY <1>t DEF RotationTyped, StartWriter, WriteFails, KillWriter, ClockTick, rotationVars, clockVars
<1>3. \/ step' = "down"
      \/ step = "down" /\ step' = "opening" /\ starting'
      \/ step = "writing" /\ step' = "idle" /\ starting' = starting
      \/ step' = step /\ starting' = starting
  BY DEF StartWriter, WriteFails, KillWriter, ClockTick, rotationVars
<1>8. /\ openDay' \in Nat
      /\ openDay' = openDay \/ openDay' = 0 \/ (openDay' = today /\ today' = today)
      /\ step' = "opening" => \/ step = "opening" /\ openDay' = openDay
                             \/ openDay' = today
  BY <1>t DEF RotationTyped, StartWriter, WriteFails, KillWriter, ClockTick, rotationVars, clockVars
<1>4. starting' \in BOOLEAN
  BY <1>t DEF RotationTyped, StartWriter, WriteFails, KillWriter, ClockTick, rotationVars
<1>5. RotationTyped'
  BY <1>0, <1>1, <1>2, <1>3, <1>4, <1>8, <1>t DEF RotationTyped
<1>6. DaysAgree'
  BY <1>0, <1>2, <1>3, <1>8, <1>t DEF DaysAgree, AtWork, InWrite, RotationTyped
<1>7. Young'
  BY <1>0, <1>1, <1>2, <1>3, <1>t DEF Young, Early, AtWork, InWrite
<1> QED
  BY <1>1, <1>5, <1>6, <1>7 DEF LogInv

LEMMA BeginKeeps == ASSUME LogInv, BeginWrite PROVE LogInv'
<1>0. /\ files' = files /\ written' = written /\ fileDay' = fileDay /\ mtime' = mtime
      /\ expired' = expired /\ spared' = spared /\ late' = late /\ doubled' = doubled
      /\ maxAge' = maxAge /\ zone' = zone /\ today' = today /\ back' = back
      /\ starting' = starting
      /\ step = "idle" /\ step' \in {"writing", "archiving"} /\ openDay' = openDay
  BY DEF BeginWrite, clockVars, goneVars
<1>t. RotationTyped /\ DaysAgree /\ Filed /\ Expiry /\ Young
  BY DEF LogInv
<1>1. /\ asked' \in Seq(Nat) /\ Len(asked') = Len(asked) + 1 /\ Len(asked) \in Nat
      /\ \A l \in written : asked'[l] = asked[l]
  BY <1>t DEF BeginWrite, RotationTyped
<1>2. FilesTyped' /\ LinesKept' /\ Once' /\ Archives' = Archives
  BY <1>0, <1>t DEF LogInv, RotationTyped, FilesTyped, LinesKept, IsIn, Once, Archives
<1>3. Filed'
  <2>1. \A f \in DOMAIN files : \A i \in DOMAIN files[f] : files[f][i] \in written
    BY <1>t DEF RotationTyped, FilesTyped
  <2> QED
    BY <1>0, <1>1, <1>t, <2>1 DEF Filed
<1>4. Expiry'
  BY <1>0, <1>1, <1>t DEF Expiry, Early, RotationTyped
<1>5. RotationTyped'
  BY <1>0, <1>1, <1>2, <1>t DEF RotationTyped
<1>6. DaysAgree'
  BY <1>0, <1>1, <1>t DEF DaysAgree, AtWork, InWrite, RotationTyped
<1>7. Young'
  BY <1>0, <1>2, <1>t DEF Young, Early, AtWork, InWrite
<1> QED
  BY <1>2, <1>3, <1>4, <1>5, <1>6, <1>7 DEF LogInv

LEMMA ArchiveOldKeeps == ASSUME LogInv, ArchiveOld PROVE LogInv'
<1>0. /\ asked' = asked /\ written' = written /\ fileDay' = fileDay /\ mtime' = mtime
      /\ expired' = expired /\ spared' = spared /\ late' = late
      /\ maxAge' = maxAge /\ zone' = zone /\ today' = today /\ back' = back
      /\ starting' = starting
      /\ step = "archiving" /\ step' = "opening" /\ openDay' = today
  BY DEF ArchiveOld, clockVars, goneVars, lineVars
<1>t. RotationTyped /\ DaysAgree /\ Expiry /\ Young
  BY DEF LogInv
<1>1. /\ fileDay \in Nat \ {0} /\ ~starting
      /\ ArchiveDone(fileDay) \/ ArchiveFailed(fileDay)
      /\ 0 \in DOMAIN files /\ ~late => fileDay = mtime \/ files[0] = <<>>
  BY <1>0, <1>t DEF ArchiveOld, ArchiveDay, DaysAgree, AtWork, InWrite, RotationTyped
<1>2. /\ FilesTyped' /\ Filed' /\ LinesKept' /\ Once'
      /\ Archives' \subseteq Archives \cup {fileDay}
      /\ 0 \in DOMAIN files' => 0 \in DOMAIN files /\ files'[0] = files[0]
  BY <1>0, <1>1, ArchiveKeeps
<1>3. doubled' \in BOOLEAN
  BY <1>1, <1>t DEF ArchiveDone, ArchiveFailed, RotationTyped
<1>4. RotationTyped'
  BY <1>0, <1>2, <1>3, <1>t DEF RotationTyped
<1>5. DaysAgree'
  BY <1>0, <1>1, <1>2, <1>t DEF DaysAgree, AtWork, InWrite, RotationTyped
<1>6. Expiry'
  BY <1>0, <1>t DEF Expiry, Early
<1>7. Young'
  BY <1>0, <1>1, <1>2, <1>t DEF Young, Early, AtWork, InWrite, RotationTyped
<1> QED
  BY <1>2, <1>4, <1>5, <1>6, <1>7 DEF LogInv

LEMMA ArchiveFoundKeeps == ASSUME LogInv, ArchiveFound PROVE LogInv'
<1>0. /\ asked' = asked /\ written' = written /\ fileDay' = fileDay /\ mtime' = mtime
      /\ expired' = expired /\ spared' = spared /\ late' = late
      /\ maxAge' = maxAge /\ zone' = zone /\ today' = today /\ back' = back
      /\ starting' = starting
      /\ step = "opening"
      /\ \/ step' = "opening" /\ openDay' = openDay
         \/ step' = (IF starting THEN "down" ELSE "idle") /\ openDay' = 0
      /\ 0 \in DOMAIN files
      /\ ArchiveDone(mtime) \/ ArchiveFailed(mtime)
  BY DEF ArchiveFound, IsOld, GiveUp, clockVars, goneVars, lineVars
<1>t. RotationTyped /\ DaysAgree /\ Expiry /\ Young
  BY DEF LogInv
<1>1. mtime \in Nat \ {0}
  BY <1>0, <1>t DEF DaysAgree, RotationTyped
<1>2. /\ FilesTyped' /\ Filed' /\ LinesKept' /\ Once'
      /\ Archives' \subseteq Archives \cup {mtime}
      /\ 0 \in DOMAIN files' => 0 \in DOMAIN files /\ files'[0] = files[0]
  BY <1>0, <1>1, ArchiveKeeps
<1>3. doubled' \in BOOLEAN
  BY <1>0, <1>t DEF ArchiveDone, ArchiveFailed, RotationTyped
<1>4. RotationTyped'
  BY <1>0, <1>2, <1>3, <1>t DEF RotationTyped
<1>5. DaysAgree'
  BY <1>0, <1>2, <1>t DEF DaysAgree, AtWork, InWrite, RotationTyped
<1>6. Expiry'
  BY <1>0, <1>t DEF Expiry, Early
<1>7. Young'
  <2>1. AtWork' => AtWork /\ step # "cleaning"
    BY <1>0, <1>t DEF AtWork, InWrite, RotationTyped
  <2>2. AtWork /\ back = 0 => fileDay <= mtime
    BY <1>0, <1>t DEF DaysAgree
  <2> QED
    BY <1>0, <1>1, <1>2, <1>t, <2>1, <2>2 DEF Young, Early, RotationTyped
<1> QED
  BY <1>2, <1>4, <1>5, <1>6, <1>7 DEF LogInv

LEMMA OpenKeeps == ASSUME LogInv, OpenFile PROVE LogInv'
<1>0. /\ asked' = asked /\ written' = written
      /\ expired' = expired /\ spared' = spared /\ late' = late /\ doubled' = doubled
      /\ maxAge' = maxAge /\ zone' = zone /\ today' = today /\ back' = back
      /\ starting' = starting
      /\ step = "opening" /\ ~IsOld
  BY DEF OpenFile, clockVars, goneVars, lineVars
<1>t. RotationTyped /\ FilesTyped /\ DaysAgree /\ Filed /\ Expiry /\ LinesKept /\ Once /\ Young
  BY DEF LogInv, RotationTyped
<1>1. CASE files' = files /\ mtime' = mtime /\ fileDay' = fileDay /\ GiveUp
  <2>1. FilesTyped' /\ Filed' /\ Expiry' /\ LinesKept' /\ Once' /\ Archives' = Archives
    BY <1>0, <1>1, NoFileChanges
  <2>2. RotationTyped'
    BY <1>0, <1>1, <1>t, <2>1 DEF RotationTyped, GiveUp
  <2>3. DaysAgree'
    BY <1>0, <1>1, <1>t DEF DaysAgree, AtWork, InWrite, GiveUp, RotationTyped
  <2>4. Young'
    BY <1>0, <1>1, <1>t, <2>1 DEF Young, Early, AtWork, InWrite, GiveUp
  <2> QED
    BY <2>1, <2>2, <2>3, <2>4 DEF LogInv
<1>2. CASE /\ files' = With(0, Lines(0)) /\ mtime' = IF 0 \in DOMAIN files THEN mtime ELSE today
           /\ fileDay' = openDay /\ step' = "cleaning" /\ openDay' = 0
  <2>1. /\ DOMAIN files' = DOMAIN files \cup {0} /\ Archives' = Archives
        /\ \A f \in DOMAIN files : files'[f] = files[f]
        /\ 0 \notin DOMAIN files => files'[0] = <<>>
        /\ 0 \in DOMAIN files => mtime' = mtime /\ mtime = openDay
        /\ 0 \notin DOMAIN files => mtime' = today
    BY <1>0, <1>2 DEF With, Lines, Archives, IsOld
  <2>2. \A f \in DOMAIN files' : \A i \in DOMAIN files'[f] :
          f \in DOMAIN files /\ i \in DOMAIN files[f] /\ files'[f][i] = files[f][i]
    BY <2>1
  <2>3. FilesTyped'
    <3>1. \A f \in DOMAIN files' : files'[f] \in Seq(Nat)
      <4>1. <<>> \in Seq(Nat)
        OBVIOUS
      <4>2. \A f \in DOMAIN files : files[f] \in Seq(Nat)
        BY <1>t DEF FilesTyped
      <4> QED
        BY <2>1, <4>1, <4>2
    <3> QED
      BY <1>0, <1>t, <2>1, <2>2, <3>1 DEF FilesTyped
  <2>4. Filed'
    BY <1>0, <1>t, <2>1, <2>2 DEF Filed, IsOld
  <2>5. LinesKept'
    BY <1>0, <1>t, <2>1 DEF LinesKept, IsIn
  <2>6. Once'
    BY <1>0, <1>t, <2>2 DEF Once
  <2>7. RotationTyped'
    BY <1>0, <1>2, <1>t, <2>1, <2>3 DEF RotationTyped
  <2>8. DaysAgree'
    BY <1>0, <1>2, <1>t, <2>1 DEF DaysAgree, AtWork, InWrite, RotationTyped
  <2>9. Expiry' /\ Young'
    BY <1>0, <1>2, <1>t DEF Expiry, Young, Early
  <2> QED
    BY <2>3, <2>4, <2>5, <2>6, <2>7, <2>8, <2>9 DEF LogInv
<1> QED
  BY <1>1, <1>2 DEF OpenFile

LEMMA CleanupKeeps == ASSUME LogInv, CleanupExpired PROVE LogInv'
<1>0. /\ asked' = asked /\ written' = written /\ fileDay' = fileDay /\ mtime' = mtime
      /\ late' = late /\ doubled' = doubled
      /\ maxAge' = maxAge /\ zone' = zone /\ today' = today /\ back' = back
      /\ openDay' = openDay
      /\ step = "cleaning" /\ step' = (IF starting THEN "idle" ELSE "writing")
      /\ starting' = FALSE
  BY DEF CleanupExpired, clockVars, lineVars
<1>t. RotationTyped /\ FilesTyped /\ DaysAgree /\ Filed /\ Expiry /\ LinesKept /\ Once
  BY DEF LogInv, RotationTyped
<1>1. PICK gone \in SUBSET Archives :
        /\ gone # {} => maxAge > 0
        /\ \A d \in gone : d <= today - maxAge + Early
        /\ maxAge > 0 => \A d \in (Archives \ gone) \ spared' : d >= today - maxAge + Early
        /\ files' = Without(gone, files)
        /\ expired' = expired \cup UNION {{<<files[d][i], today>> : i \in DOMAIN files[d]}
                                          : d \in gone}
  <2>1. PICK border, gone :
          /\ border \in Borders /\ gone \subseteq Removed(border)
          /\ spared' = Removed(border) \ gone
          /\ files' = Without(gone, files)
          /\ expired' = expired \cup UNION {{<<files[d][i], today>> : i \in DOMAIN files[d]}
                                            : d \in gone}
    BY DEF CleanupExpired
  <2>2. Archives \subseteq Nat /\ maxAge \in Int /\ today \in Nat
    BY <1>t DEF FilesTyped, Archives, RotationTyped
  <2>3. /\ Removed(border) \subseteq Archives
        /\ Removed(border) # {} => maxAge > 0
        /\ \A d \in Removed(border) : d <= today - maxAge + Early
        /\ maxAge > 0 => \A d \in Archives \ Removed(border) : d >= today - maxAge + Early
    <3>1. CASE maxAge <= 0
      BY <2>2, <3>1 DEF Removed
    <3>2. CASE maxAge > 0
      <4>1. Removed(border) = {d \in Archives : d < today - maxAge + border}
        BY <2>2, <3>2 DEF Removed
      <4>2. Early \in {0, 1} /\ (border = Early \/ border = Early + 1)
        BY <2>1 DEF Borders, Early
      <4>3. ASSUME NEW d \in Archives
            PROVE  /\ d \in Removed(border) => d <= today - maxAge + Early
                   /\ d \notin Removed(border) => d >= today - maxAge + Early
        <5>1. d \in Nat /\ (d \in Removed(border) <=> d < today - maxAge + border)
          BY <2>2, <4>1
        <5>2. CASE border = Early
          BY <2>2, <4>2, <5>1, <5>2
        <5>3. CASE border = Early + 1
          BY <2>2, <4>2, <5>1, <5>3
        <5> QED
          BY <4>2, <5>2, <5>3
      <4>4. Removed(border) \subseteq Archives
        BY <4>1
      <4> QED
        BY <3>2, <4>3, <4>4
    <3> QED
      BY <2>2, <3>1, <3>2
  <2> QED
    BY <2>1, <2>3
<1>2. /\ DOMAIN files' = DOMAIN files \ gone
      /\ 0 \in DOMAIN files' <=> 0 \in DOMAIN files
      /\ Archives' = Archives \ gone
      /\ \A f \in DOMAIN files' : files'[f] = files[f]
  BY <1>1 DEF Without, Archives
<1>3. FilesTyped' /\ Filed' /\ Once'
  BY <1>0, <1>2, <1>t DEF FilesTyped, Filed, Once
<1>4. \A e \in expired' : \/ e \in expired
                          \/ \E d \in gone : \E i \in DOMAIN files[d] : e = <<files[d][i], today>>
  BY <1>1
<1>5. \A d \in gone : d \in DOMAIN files /\ d # 0 /\ d \in Nat
  BY <1>t DEF Archives, FilesTyped
<1>6. LinesKept'
  <2> SUFFICES ASSUME NEW l \in written, ~IsIn(l, files') PROVE \E e \in expired' : e[1] = l
    BY <1>0 DEF LinesKept
  <2>1. CASE \E e \in expired : e[1] = l
    BY <1>1, <2>1
  <2>2. CASE IsIn(l, files)
    <3>1. PICK f, i : f \in DOMAIN files /\ i \in DOMAIN files[f] /\ files[f][i] = l
      BY <2>2 DEF IsIn
    <3>2. f \in gone
      BY <1>2, <3>1 DEF IsIn
    <3>3. <<l, today>> \in expired'
      BY <1>1, <3>1, <3>2
    <3> QED
      BY <3>3
  <2> QED
    BY <1>t, <2>1, <2>2 DEF LinesKept
<1>7. \A d \in gone : \A i \in DOMAIN files[d] :
        files[d][i] \in written /\ (asked[files[d][i]] = d \/ late)
  BY <1>5, <1>t DEF FilesTyped, Filed
<1>8. Expiry'
  <2> SUFFICES ASSUME NEW e \in expired', e \notin expired
               PROVE  maxAge > 0 /\ (asked[e[1]] <= e[2] - maxAge + Early \/ late)
    BY <1>0, <1>t DEF Expiry, Early
  <2>1. PICK d, i : d \in gone /\ i \in DOMAIN files[d] /\ e = <<files[d][i], today>>
    BY <1>4
  <2>2. e[1] = files[d][i] /\ e[2] = today
    BY <2>1
  <2> QED
    BY <1>1, <1>7, <2>1, <2>2
<1>9. RotationTyped'
  <2>1. \A e \in expired' : e[1] \in written /\ e[2] \in Nat
    <3> SUFFICES ASSUME NEW e \in expired', e \notin expired PROVE e[1] \in written /\ e[2] \in Nat
      BY <1>t DEF RotationTyped
    <3>1. PICK d, i : d \in gone /\ i \in DOMAIN files[d] /\ e = <<files[d][i], today>>
      BY <1>4
    <3>2. e[1] = files[d][i] /\ e[2] = today
      BY <3>1
    <3> QED
      BY <1>7, <1>t, <3>1, <3>2 DEF RotationTyped
  <2> QED
    BY <1>0, <1>3, <1>t, <2>1 DEF RotationTyped
<1>10. DaysAgree'
  BY <1>0, <1>2, <1>t DEF DaysAgree, AtWork, InWrite, RotationTyped
<1>11. Young'
  <2>1. back = 0 => fileDay <= today
    BY <1>t DEF DaysAgree
  <2>2. Archives' \subseteq Nat
    BY <1>3 DEF FilesTyped, Archives
  <2> QED
    BY <1>0, <1>1, <1>2, <1>t, <2>1, <2>2 DEF Young, Early, RotationTyped
<1> QED
  BY <1>3, <1>6, <1>8, <1>9, <1>10, <1>11 DEF LogInv

LEMMA WriteKeeps == ASSUME LogInv, WriteLine PROVE LogInv'
<1> DEFINE n == Len(asked)
<1>0. /\ asked' = asked /\ written' = written \cup {n} /\ fileDay' = fileDay
      /\ mtime' = today /\ late' = (late \/ {today, asked[n]} # {fileDay})
      /\ expired' = expired /\ spared' = spared /\ doubled' = doubled
      /\ maxAge' = maxAge /\ zone' = zone /\ today' = today /\ back' = back
      /\ starting' = starting /\ openDay' = openDay
      /\ step = "writing" /\ step' = "idle"
      /\ files' = With(0, Append(Lines(0), n))
  BY DEF WriteLine, clockVars, goneVars
<1>t. RotationTyped /\ FilesTyped /\ DaysAgree /\ Filed /\ Expiry /\ LinesKept /\ Once /\ Young
  BY DEF LogInv, RotationTyped
<1>1. n \in Nat /\ n >= 1 /\ n \notin written /\ ~starting /\ AtWork /\ InWrite
  BY <1>0, <1>t DEF DaysAgree, AtWork, InWrite, RotationTyped
<1>2. /\ DOMAIN files' = DOMAIN files \cup {0}
      /\ \A g \in DOMAIN files' : files'[g] \in Seq(Nat)
      /\ \A g \in DOMAIN files' : \A i \in DOMAIN files'[g] :
           \/ g \in DOMAIN files /\ i \in DOMAIN files[g] /\ files'[g][i] = files[g][i]
           \/ g = 0 /\ i = Len(Lines(0)) + 1 /\ files'[g][i] = n
      /\ \A k : IsIn(k, files) => IsIn(k, files')
      /\ IsIn(n, files')
  <2>1. OneMore(With(0, Append(Lines(0), n)), n)
    <3> HIDE DEF n
    <3> QED
      BY <1>1, <1>t, Written
  <2>2. OneMore(files', n)
    <3> HIDE DEF n
    <3> QED
      BY <1>0, <2>1
  <2> HIDE DEF n
  <2> QED
    BY <2>2 DEF OneMore
<1>3. FilesTyped'
  BY <1>0, <1>2, <1>t DEF FilesTyped
<1>4. ASSUME ~late' PROVE ~late /\ today = fileDay /\ asked[n] = fileDay
  BY <1>0, <1>4
<1>5. Filed'
  <2> SUFFICES ASSUME ~late', NEW f \in DOMAIN files', NEW i \in DOMAIN files'[f]
               PROVE  asked'[files'[f][i]] = IF f = 0 THEN mtime' ELSE f
    BY DEF Filed
  <2>1. ~late /\ today = fileDay /\ asked[n] = fileDay
    BY <1>4
  <2>2. CASE f = 0 /\ files'[f][i] = n
    BY <1>0, <2>1, <2>2
  <2>3. CASE f \in DOMAIN files /\ i \in DOMAIN files[f] /\ files'[f][i] = files[f][i]
    <3>1. asked[files[f][i]] = IF f = 0 THEN mtime ELSE f
      BY <1>t, <2>1, <2>3 DEF Filed
    <3>2. f = 0 => mtime = fileDay
      BY <1>1, <1>t, <2>1, <2>3 DEF DaysAgree
    <3> QED
      BY <1>0, <2>1, <2>3, <3>1, <3>2
  <2> QED
    BY <1>2, <2>2, <2>3
<1>6. LinesKept'
  BY <1>0, <1>2, <1>t DEF LinesKept
<1>7. Once'
  <2>1. \A f \in DOMAIN files : \A i \in DOMAIN files[f] : files[f][i] # n
    BY <1>1, <1>t DEF FilesTyped
  <2> SUFFICES ASSUME ~doubled, NEW f \in DOMAIN files', NEW g \in DOMAIN files',
                      NEW i \in DOMAIN files'[f], NEW j \in DOMAIN files'[g],
                      files'[f][i] = files'[g][j]
               PROVE  f = g /\ i = j
    BY <1>0 DEF Once
  <2>2. CASE files'[f][i] = n
    <3>1. f = 0 /\ i = Len(Lines(0)) + 1
      BY <1>2, <2>1, <2>2
    <3>2. g = 0 /\ j = Len(Lines(0)) + 1
      BY <1>2, <2>1, <2>2
    <3> QED
      BY <3>1, <3>2
  <2>3. CASE files'[f][i] # n
    <3>1. /\ f \in DOMAIN files /\ i \in DOMAIN files[f] /\ files'[f][i] = files[f][i]
          /\ g \in DOMAIN files /\ j \in DOMAIN files[g] /\ files'[g][j] = files[g][j]
      BY <1>2, <2>3
    <3>2. files[f][i] = files[g][j]
      BY <3>1
    <3> QED
      BY <1>t, <3>1, <3>2 DEF Once
  <2> QED
    BY <2>2, <2>3
<1>8. RotationTyped'
  <2>1. late' \in BOOLEAN
    BY <1>0
  <2>2. written' \subseteq 1..Len(asked') /\ (\A e \in expired' : e[1] \in written' /\ e[2] \in Nat)
    <3>1. Len(asked') = n /\ n \in 1..n
      BY <1>0, <1>1
    <3> HIDE DEF n
    <3>2. written \subseteq 1..n
      BY <1>t DEF RotationTyped, n
    <3> QED
      BY <1>0, <1>t, <3>1, <3>2 DEF RotationTyped
  <2> HIDE DEF n
  <2> QED
    BY <1>0, <1>3, <1>t, <2>1, <2>2 DEF RotationTyped
<1>9. DaysAgree'
  <2>1. fileDay >= 1 /\ today >= 1 /\ (back = 0 => fileDay <= today)
    BY <1>1, <1>t DEF DaysAgree, RotationTyped
  <2>2. ~late' => mtime' = fileDay'
    BY <1>0, <1>4
  <2>3. step' = "idle" /\ ~starting' /\ ~InWrite' /\ mtime' >= 1 /\ fileDay' >= 1
        /\ (back' = 0 => openDay' <= today' /\ fileDay' <= today' /\ fileDay' <= mtime')
    BY <1>0, <1>1, <1>t, <2>1 DEF DaysAgree, InWrite
  <2> HIDE DEF n
  <2> QED
    BY <2>2, <2>3 DEF DaysAgree
<1>10. Expiry'
  BY <1>0, <1>4, <1>t DEF Expiry, Early
<1>11. Young'
  BY <1>0, <1>1, <1>2, <1>t DEF Young, Early, Archives
<1> QED
  BY <1>3, <1>5, <1>6, <1>7, <1>8, <1>9, <1>10, <1>11 DEF LogInv

LEMMA StepLog == LogInv /\ [RotationNext]_rotationVars => LogInv'
BY RestKeeps, BeginKeeps, ArchiveOldKeeps, ArchiveFoundKeeps, OpenKeeps, CleanupKeeps,
   WriteKeeps DEF RotationNext

(* The invariant that the three properties follow from. *)
THEOREM LogIsSound == RotationSpec => []LogInv
<1>1. RotationInit => LogInv
  BY InitLog DEF RotationInit
<1> QED
  BY <1>1, StepLog, PTL DEF RotationSpec

(* No failure, no kill and no clock set back makes a line disappear that   *)
(* Write has accepted, or puts it into two files, but for a merge whose    *)
(* source could not be removed (logger.go:152-176).                        *)
THEOREM LinesAreKept == RotationSpec => []EveryLineKept
<1>1. LogInv => EveryLineKept
  <2> SUFFICES ASSUME LogInv, NEW l \in written
               PROVE  /\ Places(l) # {} \/ \E e \in expired : e[1] = l
                      /\ doubled \/ \A p, q \in Places(l) : p = q
    BY DEF EveryLineKept
  <2>1. \A f, i : f \in DOMAIN files /\ i \in DOMAIN files[f] /\ files[f][i] = l
                    => <<f, i>> \in Places(l)
    BY DEF Places
  <2>2. \A p \in Places(l) : /\ p = <<p[1], p[2]>>
                             /\ p[1] \in DOMAIN files /\ p[2] \in DOMAIN files[p[1]]
                             /\ files[p[1]][p[2]] = l
    BY DEF Places
  <2>3. Places(l) # {} \/ \E e \in expired : e[1] = l
    BY <2>1 DEF LogInv, LinesKept, IsIn
  <2>4. ASSUME ~doubled, NEW p \in Places(l), NEW q \in Places(l) PROVE p = q
    <3>1. p[1] = q[1] /\ p[2] = q[2]
      BY <2>2, <2>4 DEF LogInv, Once
    <3> QED
      BY <2>2, <3>1
  <2> QED
    BY <2>3, <2>4
<1> QED
  BY <1>1, LogIsSound, PTL

(* A line is archived under the day it was logged on, as long as none was  *)
(* written after midnight that was begun before (logger.go:128-137, 242).  *)
THEOREM LinesAreFiled == RotationSpec => []FiledUnderItsDay
<1>1. LogInv => FiledUnderItsDay
  BY DEF LogInv, Filed, FiledUnderItsDay, Archives
<1> QED
  BY <1>1, LogIsSound, PTL

(* Nothing is removed before its age, which is a day less west of UTC, and *)
(* a writer at work has no archive beyond it, but one that it failed to    *)
(* remove (logger.go:94-96, 178-227).                                      *)
THEOREM ArchivesComeOfAge == RotationSpec => []ArchivesKeptForMaxAge
<1>1. LogInv => ArchivesKeptForMaxAge
  BY DEF LogInv, Expiry, Young, AtWork, InWrite, ArchivesKeptForMaxAge
<1> QED
  BY <1>1, LogIsSound, PTL
=============================================================================
