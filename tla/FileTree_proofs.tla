--------------------------- MODULE FileTree_proofs ---------------------------
(***************************************************************************)
(* For every list of files, every directory and everything other           *)
(* processes do meanwhile: the walks copy or remove what is in the tree,   *)
(* or report what they did not.  And for every torrent: its files have the *)
(* paths that were meant.                                                  *)
(***************************************************************************)
EXTENDS FileTree, Torrent, Induction, SequenceTheorems

-----------------------------------------------------------------------------
(* Paths.                                                                  *)

\* What Front() and Last() are, component by component.
LEMMA FrontOf ==
  ASSUME NEW S, NEW s \in Seq(S), s # <<>>
  PROVE  /\ Front(s) \in Seq(S) /\ Len(Front(s)) = Len(s) - 1
         /\ \A i \in 1..(Len(s) - 1) : Front(s)[i] = s[i]
         /\ Last(s) \in S /\ Last(s) = s[Len(s)]
<1>1. Len(s) \in Nat \ {0} /\ Len(s) \in DOMAIN s
  BY EmptySeq, LenProperties
<1>2. \A i \in 1..(Len(s) - 1) : s[i] \in S
  BY <1>1
<1>3. Front(s) = [i \in 1..(Len(s) - 1) |-> s[i]]
  BY <1>1 DEF Front
<1>4. Len(s) - 1 \in Nat
  BY <1>1
<1>5. Front(s) \in Seq(S) /\ Len(Front(s)) = Len(s) - 1
  BY <1>2, <1>3, <1>4
<1>6. Last(s) = s[Len(s)] /\ s[Len(s)] \in S
  BY <1>1, ElementOfSeq DEF Last
<1> QED
  BY <1>3, <1>5, <1>6

\* The last element of a sequence, and what is before it.
LEMMA LastApart ==
  ASSUME NEW S, NEW s \in Seq(S), s # <<>>
  PROVE  s = Append(Front(s), Last(s))
<1>1. PICK f : f = Front(s)
  OBVIOUS
<1>2. f \in Seq(S) /\ Len(f) = Len(s) - 1 /\ Last(s) \in S /\ Last(s) = s[Len(s)]
      /\ \A i \in 1..(Len(s) - 1) : f[i] = s[i]
  BY <1>1, FrontOf
<1>3. Len(s) \in Nat \ {0}
  BY EmptySeq, LenProperties
<1>4. PICK t : t = Append(f, Last(s))
  OBVIOUS
<1>5. t \in Seq(S) /\ Len(t) = Len(s) /\ \A i \in 1..(Len(s) - 1) : t[i] = f[i]
  BY <1>2, <1>3, <1>4, AppendProperties
<1>6. t[Len(s)] = Last(s)
  BY <1>2, <1>3, <1>4, AppendProperties
<1>7. \A i \in 1..Len(s) : t[i] = s[i]
  <2>1. ASSUME NEW i \in 1..Len(s) PROVE i = Len(s) \/ i \in 1..(Len(s) - 1)
    BY <1>3
  <2> QED
    BY <1>2, <1>5, <1>6, <2>1
<1> QED
  BY <1>1, <1>4, <1>5, <1>7, SeqEqual

\* And what is left of a sequence when the last of it is taken away again.
LEMMA FrontAppend ==
  ASSUME NEW S, NEW s \in Seq(S), NEW c \in S
  PROVE  Append(s, c) # <<>> /\ Front(Append(s, c)) = s
<1>1. PICK t : t = Append(s, c)
  OBVIOUS
<1>2. t \in Seq(S) /\ Len(t) = Len(s) + 1 /\ \A i \in 1..Len(s) : t[i] = s[i]
  BY <1>1, AppendProperties
<1>3. Len(s) \in Nat
  BY LenProperties
<1>4. t # <<>>
  BY <1>2, <1>3, EmptySeq
<1>5. Front(t) \in Seq(S) /\ Len(Front(t)) = Len(t) - 1 /\ \A i \in 1..(Len(t) - 1) : Front(t)[i] = t[i]
  BY <1>2, <1>4, FrontOf
<1>6. Len(Front(t)) = Len(s) /\ \A i \in 1..Len(s) : Front(t)[i] = s[i]
  BY <1>2, <1>3, <1>5
<1>7. Front(t) = s
  BY <1>5, <1>6, SeqEqual
<1> QED
  BY <1>1, <1>4, <1>7

\* What a path may be made of, and what is left in its normal form.
Words == {W \in SUBSET (Component \cup {".name"}) : ".." \in W}
Plain(W) == W \ {"", "."}

LEMMA JoinedType ==
  ASSUME NEW W \in Words, NEW abs, NEW done \in Seq(Plain(W)), NEW c \in W
  PROVE  Joined(abs, done, c) \in Seq(Plain(W))
<1>1. CASE c \in {"", "."}
  BY <1>1 DEF Joined
<1>2. CASE c = ".."
  <2>1. ".." \in Plain(W)
    BY DEF Plain, Words
  <2>2. done # <<>> => Front(done) \in Seq(Plain(W))
    BY FrontOf
  <2>3. Append(done, "..") \in Seq(Plain(W))
    BY <2>1
  <2>4. Up(abs, done) \in Seq(Plain(W))
    BY <2>2, <2>3 DEF Up
  <2> QED
    BY <1>2, <2>4 DEF Joined
<1>3. CASE c \notin {"", ".", ".."}
  <2>1. c \in Plain(W)
    BY <1>3 DEF Plain
  <2>2. Append(done, c) \in Seq(Plain(W))
    BY <2>1
  <2>3. Joined(abs, done, c) = Append(done, c)
    BY <1>3 DEF Joined
  <2> QED
    BY <2>2, <2>3
<1> QED
  BY <1>1, <1>2, <1>3

\* The components that are left after each component of the path.
Joining(X, abs, before, path, g) ==
  /\ g \in [0..Len(path) -> X]
  /\ g[0] = before
  /\ \A n \in 1..Len(path) : g[n] = Joined(abs, g[n - 1], path[n])

LEMMA JoinsAre ==
  ASSUME NEW W, NEW X, NEW abs, NEW before \in X, NEW path \in Seq(W),
         \A d \in X, c \in W : Joined(abs, d, c) \in X
  PROVE  \E g : Joining(X, abs, before, path, g) /\ Joins(abs, before, path) = g[Len(path)]
<1> DEFINE N == Len(path)
           step == [n \in 1..N |-> [d \in X |-> Joined(abs, d, path[n])]]
           done[n \in 0..N] == IF n = 0 THEN before ELSE Joined(abs, done[n - 1], path[n])
<1>1. Joins(abs, before, path) = done[N]
  BY DEF Joins
<1>2. N \in Nat /\ \A n \in 1..N : path[n] \in W
  OBVIOUS
<1>4. \A d \in X, n \in 1..N : Joined(abs, d, path[n]) \in X
  BY <1>2
<1> HIDE DEF N
<1>5. \A d \in X, n \in 1..N : step[n][d] = Joined(abs, d, path[n])
  OBVIOUS
<1>6. step \in Steps(N, X)
  BY <1>4 DEF Steps
<1> HIDE DEF step
<1>7. PICK g \in [0..N -> X] : g[0] = before /\ \A n \in 1..N : g[n] = step[n][g[n - 1]]
  <2>1. Runs(N, X, before, step) # {}
    BY <1>2, <1>6, Recursion
  <2> QED
    BY <2>1 DEF Runs
<1>8. ASSUME NEW n \in 1..N PROVE n - 1 \in 0..N /\ g[n - 1] \in X /\ g[n] = Joined(abs, g[n - 1], path[n])
  <2>1. n - 1 \in 0..N
    BY <1>2
  <2> QED
    BY <1>5, <1>7, <2>1
<1>9. g = [n \in 0..N |-> IF n = 0 THEN before ELSE Joined(abs, g[n - 1], path[n])]
  <2>1. ASSUME NEW n \in 0..N PROVE g[n] = IF n = 0 THEN before ELSE Joined(abs, g[n - 1], path[n])
    <3>1. n = 0 \/ n \in 1..N
      BY <1>2
    <3> QED
      BY <1>7, <1>8, <3>1
  <2> QED
    BY <1>7, <2>1
<1>10. done = [n \in 0..N |-> IF n = 0 THEN before ELSE Joined(abs, done[n - 1], path[n])]
  BY <1>9
<1> HIDE DEF done
<1>11. \A n \in 0..N : done[n] = g[n]
  <2>1. done[0] = g[0]
    BY <1>2, <1>7, <1>10
  <2>2. ASSUME NEW n \in 1..N, done[n - 1] = g[n - 1]
        PROVE  done[n] = g[n]
    <3>1. done[n] = Joined(abs, done[n - 1], path[n])
      BY <1>2, <1>10, <2>2
    <3> QED
      BY <1>8, <2>2, <3>1
  <2>3. Alike(N, done, g)
    BY <2>1, <2>2 DEF Alike
  <2> QED
    BY <1>2, <2>3, SameValue
<1>12. done[N] = g[N]
  BY <1>2, <1>11
<1>13. Joining(X, abs, before, path, g)
  BY <1>7, <1>8 DEF Joining, N
<1> QED
  BY <1>1, <1>12, <1>13 DEF N

\* So what is joined stays in a set that every component leaves it in.
LEMMA JoinsIn ==
  ASSUME NEW W, NEW X, NEW abs, NEW before \in X, NEW path \in Seq(W),
         \A d \in X, c \in W : Joined(abs, d, c) \in X
  PROVE  Joins(abs, before, path) \in X
<1>1. PICK g : Joining(X, abs, before, path, g) /\ Joins(abs, before, path) = g[Len(path)]
  BY JoinsAre
<1>2. Len(path) \in 0..Len(path)
  OBVIOUS
<1> QED
  BY <1>1, <1>2 DEF Joining

LEMMA EmptyIn == \A S : <<>> \in Seq(S)
OBVIOUS

LEMMA JoinsType ==
  ASSUME NEW W \in Words, NEW abs, NEW path \in Seq(W)
  PROVE  Joins(abs, <<>>, path) \in Seq(Plain(W))
<1>1. \A d \in Seq(Plain(W)), c \in W : Joined(abs, d, c) \in Seq(Plain(W))
  BY JoinedType
<1>2. PICK X : X = Seq(Plain(W))
  OBVIOUS
<1>3. <<>> \in X
  BY <1>2, EmptyIn
<1> QED
  BY <1>1, <1>2, <1>3, JoinsIn

Path == Seq(Component)

\* A path as it is given has a component, which may be empty.
Written == Path \ {<<>>}

\* What stands before the slash of the root.
NoName == ""
Dot == "."

LEMMA NotOne == \A n : n > 1 => n # 1
OBVIOUS

LEMMA ConcatIs ==
  ASSUME NEW S, NEW a \in Seq(S), NEW b \in Seq(S)
  PROVE  /\ a \o b \in Seq(S) /\ Len(a \o b) = Len(a) + Len(b)
         /\ \A i \in 1..Len(a) : (a \o b)[i] = a[i]
         /\ \A i \in 1..Len(b) : (a \o b)[Len(a) + i] = b[i]
<1>1. Len(a) \in Nat /\ Len(b) \in Nat
  BY LenProperties
<1>2. PICK r : r = a \o b
  OBVIOUS
<1>3. /\ r \in Seq(S) /\ Len(r) = Len(a) + Len(b)
      /\ \A i \in 1..(Len(a) + Len(b)) : r[i] = IF i <= Len(a) THEN a[i] ELSE b[i - Len(a)]
  BY <1>2, ConcatProperties
<1>4. ASSUME NEW i \in 1..Len(a) PROVE r[i] = a[i]
  <2>1. i \in 1..(Len(a) + Len(b)) /\ i <= Len(a)
    BY <1>1
  <2> QED
    BY <1>3, <2>1
<1>5. ASSUME NEW i \in 1..Len(b) PROVE r[Len(a) + i] = b[i]
  <2>1. PICK k : k = Len(a) + i
    OBVIOUS
  <2>2. k \in 1..(Len(a) + Len(b)) /\ ~(k <= Len(a)) /\ k - Len(a) = i
    BY <1>1, <2>1
  <2> QED
    BY <1>3, <2>1, <2>2
<1> QED
  BY <1>2, <1>3, <1>4, <1>5

\* Two leading slashes are one.
Single(path) == IF HasSlashes(path) THEN Tail(path) ELSE path

LEMMA TailOf ==
  ASSUME NEW S, NEW s \in Seq(S), s # <<>>
  PROVE  /\ Tail(s) \in Seq(S) /\ Len(Tail(s)) = Len(s) - 1 /\ Len(s) \in Nat \ {0}
         /\ \A i \in 1..(Len(s) - 1) : Tail(s)[i] = s[i + 1]
         /\ Head(s) = s[1] /\ s[1] \in S
BY EmptySeq, LenProperties, HeadTailProperties, ElementOfSeq

LEMMA SlashIs ==
  ASSUME NEW path
  PROVE  /\ HasSlash(path) <=> Len(path) > 1 /\ path[1] = NoName
         /\ HasSlashes(path) <=> Len(path) > 2 /\ path[1] = NoName /\ path[2] = NoName
         /\ HasRootName(path) <=> HasSlashes(path) /\ (Len(path) = 3 \/ path[3] # NoName)
         /\ IsAbsolute(path) <=> HasSlash(path) /\ ~HasRootName(path)
BY Zenon DEF HasSlash, HasSlashes, HasRootName, IsAbsolute, NoName

LEMMA SingleIs ==
  ASSUME NEW S, NEW path \in Seq(S)
  PROVE  /\ Single(path) \in Seq(S) /\ (HasSlash(Single(path)) <=> HasSlash(path))
         /\ HasSlashes(path) => Len(Single(path)) > 1
         /\ HasRootName(Single(path)) <=> IsSpoilt(path)
<1>1. CASE HasSlashes(path)
  <2>1. Len(path) > 2 /\ path[1] = NoName /\ path[2] = NoName /\ path # <<>>
    BY <1>1, SlashIs
  <2>2. PICK t : t = Tail(path)
    OBVIOUS
  <2>3. t \in Seq(S) /\ Len(t) = Len(path) - 1 /\ Len(path) \in Nat \ {0} /\ \A i \in 1..(Len(path) - 1) : t[i] = path[i + 1]
    BY <2>1, <2>2, TailOf
  <2>4. 1 \in 1..(Len(path) - 1) /\ Len(t) > 1 /\ Len(path) > 1
    BY <2>1, <2>3
  <2>5. t[1] = path[2]
    BY <2>3, <2>4
  <2>6. HasSlash(t) /\ HasSlash(path)
    BY <2>1, <2>4, <2>5, SlashIs
  <2>7. Single(path) = t /\ (IsSpoilt(path) <=> HasRootName(t))
    BY <1>1, <2>2 DEF Single, IsSpoilt
  <2> QED
    BY <2>3, <2>4, <2>6, <2>7
<1>2. CASE ~HasSlashes(path)
  BY <1>2 DEF Single, IsSpoilt, HasRootName
<1> QED
  BY <1>1, <1>2

\* The path begins with three slashes.
LEMMA SpoiltIs ==
  ASSUME NEW S, NEW path \in Seq(S)
  PROVE  IsSpoilt(path) <=> /\ Len(path) > 3 /\ path[1] = NoName /\ path[2] = NoName /\ path[3] = NoName
                            /\ Len(path) = 4 \/ path[4] # NoName
<1>1. CASE HasSlashes(path)
  <2>1. Len(path) > 2 /\ path[1] = NoName /\ path[2] = NoName /\ path # <<>>
    BY <1>1, SlashIs
  <2>2. PICK t : t = Tail(path)
    OBVIOUS
  <2>3. Len(t) = Len(path) - 1 /\ Len(path) \in Nat \ {0} /\ \A i \in 1..(Len(path) - 1) : t[i] = path[i + 1]
    BY <2>1, <2>2, TailOf
  <2>4. t[1] = path[2] /\ t[2] = path[3] /\ (Len(path) > 3 => t[3] = path[4])
    BY <2>1, <2>3
  <2>5. HasRootName(t) <=> Len(t) > 2 /\ t[1] = NoName /\ t[2] = NoName /\ (Len(t) = 3 \/ t[3] # NoName)
    BY SlashIs
  <2>6. (Len(t) > 2 <=> Len(path) > 3) /\ (Len(t) = 3 <=> Len(path) = 4)
    BY <2>3
  <2>7. IsSpoilt(path) <=> HasRootName(t)
    BY <1>1, <2>2 DEF IsSpoilt
  <2> QED
    BY <2>1, <2>4, <2>5, <2>6, <2>7, Zenon
<1>2. CASE ~HasSlashes(path)
  <2>1. Len(path) \in Nat
    OBVIOUS
  <2>2. Len(path) > 3 => Len(path) > 2
    BY <2>1
  <2> QED
    BY <1>2, <2>2, SlashIs DEF IsSpoilt
<1> QED
  BY <1>1, <1>2

\* What is left of a path that is not spoilt.
Left(path) == Joins(HasSlash(path), <<>>, Single(path))

LEMMA NormalizeIs ==
  ASSUME NEW S, NEW path \in Seq(S), ~IsSpoilt(path)
  PROVE  normalize(path) = IF path = <<"">> THEN path
                           ELSE IF HasSlash(path) THEN Rooted(Left(path)) ELSE Spelled(Left(path))
<1>1. PICK s : s = Single(path)
  OBVIOUS
<1>2. ~HasRootName(s) /\ (HasSlash(s) <=> HasSlash(path))
  BY <1>1, SingleIs
<1>3. normalize(path) = IF s = <<"">> THEN s ELSE IF HasSlash(s) THEN Rooted(Joins(TRUE, <<>>, s)) ELSE Spelled(Joins(FALSE, <<>>, s))
  BY <1>1, <1>2, Zenon DEF normalize, Single
<1>4. s = <<"">> <=> path = <<"">>
  <2>1. CASE HasSlashes(path)
    <3>1. Len(s) > 1 /\ Len(path) > 2
      BY <1>1, <2>1, SingleIs, SlashIs
    <3>2. PICK o : o = <<NoName>>
      OBVIOUS
    <3>3. Len(o) = 1
      BY <3>2
    <3>4. Len(s) # 1 /\ Len(path) # 1
      <4>1. Len(path) > 2 => Len(path) > 1
        BY LenProperties
      <4> QED
        BY <3>1, <4>1, NotOne, Zenon
    <3>5. s # o /\ path # o
      BY <3>3, <3>4, Zenon
    <3> QED
      BY <3>2, <3>5, Zenon DEF NoName
  <2>2. CASE ~HasSlashes(path)
    BY <1>1, <2>2 DEF Single
  <2> QED
    BY <2>1, <2>2
<1>5. s = <<"">> => s = path
  BY <1>4, Zenon
<1>6. CASE HasSlash(path)
  <2>1. Left(path) = Joins(TRUE, <<>>, s)
    <3>1. HasSlash(path) = TRUE
      BY <1>6 DEF HasSlash
    <3> QED
      BY <1>1, <3>1, Zenon DEF Left
  <2> QED
    BY <1>2, <1>3, <1>4, <1>5, <1>6, <2>1, Zenon
<1>7. CASE ~HasSlash(path)
  <2>1. Left(path) = Joins(FALSE, <<>>, s)
    <3>1. HasSlash(path) = FALSE
      BY <1>7 DEF HasSlash
    <3> QED
      BY <1>1, <3>1, Zenon DEF Left
  <2> QED
    BY <1>2, <1>3, <1>4, <1>5, <1>7, <2>1, Zenon
<1> QED
  BY <1>6, <1>7

\* Under a root's name it may have been taken away.
UnderRoot(W) == {s \in Seq(Plain(W) \cup {RootName}) : \A j \in 2..Len(s) : s[j] \in Plain(W)}

LEMMA UnderAppend ==
  ASSUME NEW W, NEW d \in UnderRoot(W), NEW c \in Plain(W)
  PROVE  Append(d, c) \in UnderRoot(W)
<1>1. d \in Seq(Plain(W) \cup {RootName}) /\ \A j \in 2..Len(d) : d[j] \in Plain(W)
  BY DEF UnderRoot
<1>2. PICK t : t = Append(d, c)
  OBVIOUS
<1>3. t \in Seq(Plain(W) \cup {RootName}) /\ Len(t) = Len(d) + 1 /\ t[Len(d) + 1] = c /\ \A i \in 1..Len(d) : t[i] = d[i]
  BY <1>1, <1>2, AppendProperties
<1>4. ASSUME NEW j \in 2..Len(t) PROVE t[j] \in Plain(W)
  <2>1. j \in 2..Len(d) \/ j = Len(d) + 1
    BY <1>1, <1>3
  <2>2. j \in 2..Len(d) => j \in 1..Len(d)
    BY <1>1
  <2> QED
    BY <1>1, <1>3, <2>1, <2>2
<1> QED
  BY <1>2, <1>3, <1>4 DEF UnderRoot

LEMMA UnderFront ==
  ASSUME NEW W, NEW d \in UnderRoot(W), d # <<>>
  PROVE  Front(d) \in UnderRoot(W)
<1>1. d \in Seq(Plain(W) \cup {RootName}) /\ \A j \in 2..Len(d) : d[j] \in Plain(W)
  BY DEF UnderRoot
<1>2. PICK t : t = Front(d)
  OBVIOUS
<1>3. t \in Seq(Plain(W) \cup {RootName}) /\ Len(t) = Len(d) - 1 /\ \A i \in 1..(Len(d) - 1) : t[i] = d[i]
  BY <1>1, <1>2, FrontOf
<1>4. ASSUME NEW j \in 2..Len(t) PROVE t[j] \in Plain(W)
  <2>1. j \in 2..Len(d) /\ j \in 1..(Len(d) - 1)
    BY <1>1, <1>3
  <2> QED
    BY <1>1, <1>3, <2>1
<1> QED
  BY <1>2, <1>3, <1>4 DEF UnderRoot

LEMMA UnderJoined ==
  ASSUME NEW W \in Words, NEW d \in UnderRoot(W), NEW c \in W
  PROVE  Joined(FALSE, d, c) \in UnderRoot(W)
<1>1. CASE c \in {"", "."}
  BY <1>1 DEF Joined
<1>2. CASE c = ".."
  <2>1. ".." \in Plain(W)
    BY DEF Plain, Words
  <2>2. d # <<>> => Front(d) \in UnderRoot(W)
    BY UnderFront
  <2>3. Append(d, "..") \in UnderRoot(W)
    BY <2>1, UnderAppend
  <2>4. Up(FALSE, d) \in UnderRoot(W)
    BY <2>2, <2>3 DEF Up
  <2> QED
    BY <1>2, <2>4 DEF Joined
<1>3. CASE c \notin {"", ".", ".."}
  <2>1. c \in Plain(W)
    BY <1>3 DEF Plain
  <2>2. Joined(FALSE, d, c) = Append(d, c)
    BY <1>3 DEF Joined
  <2> QED
    BY <2>1, <2>2, UnderAppend
<1> QED
  BY <1>1, <1>2, <1>3

\* What is left under a root's name: below it, or without it.
LEMMA UnderIs ==
  ASSUME NEW W \in Words, NEW path \in Seq(W)
  PROVE  LET under == Joins(FALSE, <<RootName>>, path)
         IN  IF under # <<>> /\ Head(under) = RootName
               THEN Tail(under) \in Seq(Plain(W)) ELSE under \in Seq(Plain(W))
<1>1. PICK X : X = UnderRoot(W)
  OBVIOUS
<1>2. \A d \in X, c \in W : Joined(FALSE, d, c) \in X
  BY <1>1, UnderJoined
<1>3. <<RootName>> \in X
  <2>1. PICK r : r = RootName
    OBVIOUS
  <2>2. <<r>> \in Seq(Plain(W) \cup {r}) /\ \A j \in 2..Len(<<r>>) : <<r>>[j] \in Plain(W)
    OBVIOUS
  <2> QED
    BY <1>1, <2>1, <2>2 DEF UnderRoot
<1>4. PICK u : u = Joins(FALSE, <<RootName>>, path)
  OBVIOUS
<1>5. u \in UnderRoot(W)
  BY <1>1, <1>2, <1>3, <1>4, JoinsIn
<1>6. u \in Seq(Plain(W) \cup {RootName}) /\ \A j \in 2..Len(u) : u[j] \in Plain(W)
  BY <1>5 DEF UnderRoot
<1>7. CASE u # <<>>
  <2>1. PICK t : t = Tail(u)
    OBVIOUS
  <2>2. /\ t \in Seq(Plain(W) \cup {RootName}) /\ Len(t) = Len(u) - 1 /\ Len(u) \in Nat \ {0}
        /\ \A i \in 1..(Len(u) - 1) : t[i] = u[i + 1]
        /\ Head(u) = u[1] /\ u[1] \in Plain(W) \cup {RootName}
    BY <1>6, <1>7, <2>1, TailOf
  <2>3. \A i \in 1..Len(t) : t[i] \in Plain(W)
    <3>1. ASSUME NEW i \in 1..Len(t) PROVE t[i] \in Plain(W)
      <4>1. i + 1 \in 2..Len(u) /\ i \in 1..(Len(u) - 1)
        BY <2>2
      <4> QED
        BY <1>6, <2>2, <4>1
    <3> QED
      BY <3>1
  <2>4. t \in Seq(Plain(W))
    BY <2>2, <2>3, SeqDef, LenProperties
  <2>5. Head(u) # RootName => u \in Seq(Plain(W))
    <3>1. SUFFICES ASSUME Head(u) # RootName PROVE u \in Seq(Plain(W))
      OBVIOUS
    <3>2. ASSUME NEW j \in 1..Len(u) PROVE u[j] \in Plain(W)
      <4>1. j = 1 \/ j \in 2..Len(u)
        BY <2>2
      <4> QED
        BY <1>6, <2>2, <3>1, <4>1
    <3> QED
      BY <1>6, <3>2, SeqDef, LenProperties
  <2> QED
    BY <1>4, <1>7, <2>1, <2>4, <2>5
<1>8. CASE u = <<>>
  BY <1>4, <1>8, EmptyIn
<1> QED
  BY <1>7, <1>8

\* The components with a slash before them, and without.
LEMMA RootedIs ==
  ASSUME NEW W, NoName \in W, NEW names \in Seq(W)
  PROVE  /\ Rooted(names) \in Seq(W) /\ HasSlash(Rooted(names))
         /\ Tail(Rooted(names)) = IF names = <<>> THEN <<NoName>> ELSE names
         /\ Len(Rooted(names)) = IF names = <<>> THEN 2 ELSE Len(names) + 1
         /\ \A i \in 1..Len(names) : Rooted(names)[i + 1] = names[i]
<1>1. CASE names = <<>>
  <2>1. PICK r : r = <<NoName, NoName>>
    OBVIOUS
  <2>2. r \in Seq(W) /\ Len(r) = 2 /\ r[1] = NoName /\ Tail(r) = <<NoName>>
    BY <2>1
  <2>3. Rooted(names) = r
    BY <1>1, <2>1, Zenon DEF Rooted, NoName
  <2>4. HasSlash(r)
    BY <2>2, SlashIs
  <2>5. Len(names) = 0
    BY <1>1
  <2> QED
    BY <1>1, <2>2, <2>3, <2>4, <2>5
<1>2. CASE names # <<>>
  <2>1. PICK o : o = <<NoName>>
    OBVIOUS
  <2>2. o \in Seq(W) /\ Len(o) = 1 /\ o[1] = NoName
    BY <2>1
  <2>3. PICK r : r = o \o names
    OBVIOUS
  <2>4. Rooted(names) = r
    BY <1>2, <2>1, <2>3, Zenon DEF Rooted, NoName
  <2>5. Len(names) \in Nat \ {0}
    BY <1>2, EmptySeq, LenProperties
  <2>6. r \in Seq(W) /\ Len(r) = 1 + Len(names) /\ r[1] = NoName /\ \A i \in 1..Len(names) : r[1 + i] = names[i]
    <3>0. o \in Seq(W)
      BY <2>2
    <3>1. r \in Seq(W) /\ Len(r) = Len(o) + Len(names)
      BY <3>0, <2>3, ConcatIs
    <3>2. \A i \in 1..Len(o) : r[i] = o[i]
      BY <3>0, <2>3, ConcatIs
    <3>3. \A i \in 1..Len(names) : r[Len(o) + i] = names[i]
      BY <3>0, <2>3, ConcatIs
    <3> QED
      BY <2>2, <3>1, <3>2, <3>3
  <2>7. r # <<>> /\ Len(r) > 1
    BY <2>5, <2>6
  <2>8. HasSlash(r)
    BY <2>6, <2>7, SlashIs
  <2>9. PICK t : t = Tail(r)
    OBVIOUS
  <2>10. t \in Seq(W) /\ Len(t) = Len(r) - 1 /\ \A i \in 1..(Len(r) - 1) : t[i] = r[i + 1]
    BY <2>6, <2>7, <2>9, TailOf
  <2>11. Len(t) = Len(names) /\ \A i \in 1..Len(t) : t[i] = names[i]
    BY <2>5, <2>6, <2>10
  <2>12. t = names
    BY <2>10, <2>11, SeqEqual
  <2>13. Len(r) = Len(names) + 1 /\ \A i \in 1..Len(names) : r[i + 1] = names[i]
    BY <2>5, <2>6
  <2> QED
    BY <1>2, <2>4, <2>6, <2>8, <2>9, <2>12, <2>13
<1> QED
  BY <1>1, <1>2

\* No component is empty in what is left of a path.
LEMMA PlainIs ==
  ASSUME NEW W, NEW names \in Seq(Plain(W))
  PROVE  /\ \A j \in 1..Len(names) : names[j] \in W /\ names[j] # NoName /\ names[j] # "."
         /\ names \in Seq(W) /\ ~HasSlash(names) /\ names # <<NoName>>
<1>1. \A c \in Plain(W) : c \in W /\ c # NoName /\ c # "."
  BY Zenon DEF Plain, NoName
<1>2. \A j \in 1..Len(names) : names[j] \in Plain(W)
  BY ElementOfSeq
<1>3. \A j \in 1..Len(names) : names[j] \in W /\ names[j] # NoName /\ names[j] # "."
  BY <1>1, <1>2
<1>4. names \in Seq(W)
  BY <1>3, SeqDef, LenProperties
<1>5. Len(names) > 0 => names[1] # NoName
  <2>1. Len(names) > 0 => 1 \in 1..Len(names)
    BY LenProperties
  <2> QED
    BY <1>3, <2>1
<1>6. ~HasSlash(names)
  <2>1. Len(names) > 1 => Len(names) > 0
    BY LenProperties
  <2> QED
    BY <1>5, <2>1, SlashIs
<1>7. names # <<NoName>>
  <2>1. PICK o : o = <<NoName>>
    OBVIOUS
  <2>2. Len(o) = 1 /\ o[1] = NoName
    BY <2>1
  <2>3. names = o => Len(names) > 0 /\ names[1] = NoName
    BY <2>2
  <2> QED
    BY <1>5, <2>1, <2>3
<1> QED
  BY <1>3, <1>4, <1>6, <1>7

LEMMA SpelledIs ==
  ASSUME NEW W, Dot \in W, NEW names \in Seq(Plain(W))
  PROVE  /\ Spelled(names) \in Seq(W) \ {<<>>} /\ ~HasSlash(Spelled(names))
         /\ names # <<>> => Spelled(names) = names
<1>1. CASE names # <<>>
  <2>1. Spelled(names) = names
    BY <1>1, Zenon DEF Spelled
  <2> QED
    BY <1>1, <2>1, PlainIs
<1>2. CASE names = <<>>
  <2>1. PICK d \in W : d = Dot
    OBVIOUS
  <2>2. Spelled(names) = <<d>>
    BY <1>2, <2>1, Zenon DEF Spelled, Dot
  <2>3. PICK o : o = <<d>>
    OBVIOUS
  <2>4. o \in Seq(W) /\ Len(o) = 1
    BY <2>3
  <2>5. o # <<>> /\ ~(Len(o) > 1)
    <3>1. Len(o) > 1 => Len(o) # 1
      BY NotOne
    <3>2. o # <<>>
      BY <2>3
    <3> QED
      BY <2>4, <3>1, <3>2, Zenon
  <2>6. ~HasSlash(o)
    BY <2>5, SlashIs
  <2> QED
    BY <1>2, <2>2, <2>3, <2>4, <2>5, <2>6
<1> QED
  BY <1>1, <1>2

LEMMA JoinsNone ==
  ASSUME NEW abs, NEW before, NEW path, path = <<>>
  PROVE  Joins(abs, before, path) = before
<1>1. Len(path) = 0
  OBVIOUS
<1> DEFINE done[n \in 0..Len(path)] == IF n = 0 THEN before ELSE Joined(abs, done[n - 1], path[n])
<1>2. Joins(abs, before, path) = done[Len(path)]
  BY DEF Joins
<1>3. done = [n \in 0..0 |-> before]
  BY <1>1
<1> QED
  BY <1>1, <1>2, <1>3

\* A path that begins with three slashes is not absolute any more.
LEMMA SpoiltType ==
  ASSUME NEW W \in Words, NoName \in W, Dot \in W, NEW path \in Seq(W), IsSpoilt(path)
  PROVE  normalize(path) \in Seq(W) \ {<<>>} /\ ~IsAbsolute(normalize(path))
<1>1. PICK s : s = Single(path)
  OBVIOUS
<1>2. s \in Seq(W) /\ HasRootName(s)
  BY <1>1, SingleIs
<1>3. Len(s) > 2 /\ s[1] = NoName /\ s[2] = NoName /\ (Len(s) = 3 \/ s[3] # NoName) /\ Len(s) \in Nat
  BY <1>2, SlashIs, LenProperties
<1>4. PICK rest : rest = SubSeq(s, 4, Len(s))
  OBVIOUS
<1>5. rest \in Seq(W)
  <2>1. rest = IF 4 <= Len(s) THEN [i \in 1..(Len(s) - 3) |-> s[i + 3]] ELSE <<>>
    BY <1>2, <1>3, <1>4
  <2>2. CASE 4 <= Len(s)
    <3>1. \A i \in 1..(Len(s) - 3) : s[i + 3] \in W
      <4>1. \A i \in 1..(Len(s) - 3) : i + 3 \in 1..Len(s)
        BY <1>3
      <4> QED
        BY <1>2, <4>1, ElementOfSeq
    <3>2. Len(s) - 3 \in Nat
      BY <1>3, <2>2
    <3>3. rest = [i \in 1..(Len(s) - 3) |-> s[i + 3]]
      BY <2>1, <2>2
    <3> QED
      BY <3>1, <3>2, <3>3, SeqDef
  <2>3. CASE ~(4 <= Len(s))
    BY <2>1, <2>3, EmptyIn
  <2> QED
    BY <2>2, <2>3
<1>6. PICK u : u = Joins(FALSE, <<RootName>>, rest)
  OBVIOUS
<1>7. IF u # <<>> /\ Head(u) = RootName THEN Tail(u) \in Seq(Plain(W)) ELSE u \in Seq(Plain(W))
  BY <1>5, <1>6, UnderIs
<1>8. normalize(path) = IF u # <<>> /\ Head(u) = RootName THEN SubSeq(s, 1, 3) \o Tail(u) ELSE Spelled(u)
  <2>1. s # <<"">>
    <3>1. PICK o : o = <<NoName>>
      OBVIOUS
    <3>2. Len(o) = 1
      BY <3>1
    <3>3. Len(s) # 1
      BY <1>3
    <3>4. s # o
      BY <3>2, <3>3, Zenon
    <3> QED
      BY <3>1, <3>4, Zenon DEF NoName
  <2> QED
    BY <1>1, <1>2, <1>4, <1>6, <2>1, Zenon DEF normalize, Single
<1>9. CASE u # <<>> /\ Head(u) = RootName
  <2>1. PICK t : t = Tail(u)
    OBVIOUS
  <2>2. t \in Seq(W) /\ Len(t) \in Nat /\ \A i \in 1..Len(t) : t[i] # NoName
    BY <1>7, <1>9, <2>1, PlainIs, LenProperties
  <2>3. PICK h : h = SubSeq(s, 1, 3)
    OBVIOUS
  <2>4. h \in Seq(W) /\ Len(h) = 3 /\ h[1] = NoName /\ h[2] = NoName /\ (Len(s) = 3 \/ h[3] # NoName)
    <3>1. h = [i \in 1..3 |-> s[i]]
      BY <1>2, <1>3, <2>3
    <3>2. \A i \in 1..3 : s[i] \in W
      <4>1. 1..3 \subseteq 1..Len(s)
        BY <1>3
      <4> QED
        BY <1>2, <4>1, ElementOfSeq
    <3>3. h \in Seq(W)
      BY <3>1, <3>2, SeqDef
    <3> QED
      BY <1>3, <3>1, <3>3
  <2>5. PICK r : r = h \o t
    OBVIOUS
  <2>6. r \in Seq(W) /\ Len(r) = Len(h) + Len(t) /\ (\A i \in 1..Len(h) : r[i] = h[i])
        /\ \A i \in 1..Len(t) : r[Len(h) + i] = t[i]
    <3>0. h \in Seq(W) /\ t \in Seq(W)
      BY <2>2, <2>4
    <3>1. r \in Seq(W) /\ Len(r) = Len(h) + Len(t)
      BY <3>0, <2>5, ConcatIs
    <3>2. \A i \in 1..Len(h) : r[i] = h[i]
      BY <3>0, <2>5, ConcatIs
    <3>3. \A i \in 1..Len(t) : r[Len(h) + i] = t[i]
      BY <3>0, <2>5, ConcatIs
    <3> QED
      BY <3>1, <3>2, <3>3
  <2>7. r[1] = NoName /\ r[2] = NoName /\ r[3] = h[3] /\ Len(r) = 3 + Len(t)
    BY <2>4, <2>6
  <2>8. Len(r) > 2 /\ r # <<>>
    BY <2>2, <2>7
  <2>9. Len(r) = 3 \/ r[3] # NoName
    <3>1. CASE Len(s) = 3
      <4>1. rest = <<>>
        BY <1>2, <1>3, <1>4, <3>1
      <4>2. PICK n : n = RootName
        OBVIOUS
      <4>3. Joins(FALSE, <<n>>, rest) = <<n>>
        BY <4>1, JoinsNone
      <4>4. u = <<n>>
        BY <1>6, <4>2, <4>3
      <4>5. Len(t) = 0
        BY <2>1, <4>4
      <4> QED
        BY <2>7, <4>5
    <3> QED
      BY <2>4, <2>7, <3>1
  <2>10. HasRootName(r)
    BY <2>7, <2>8, <2>9, SlashIs
  <2> QED
    BY <1>8, <1>9, <2>1, <2>3, <2>5, <2>6, <2>8, <2>10, SlashIs
<1>10. CASE ~(u # <<>> /\ Head(u) = RootName)
  <2>1. u \in Seq(Plain(W)) /\ normalize(path) = Spelled(u)
    BY <1>7, <1>8, <1>10
  <2> QED
    BY <2>1, SpelledIs, SlashIs
<1> QED
  BY <1>9, <1>10

\* normalize() makes a path of a path.
LEMMA NormalizeType ==
  ASSUME NEW W \in Words, NoName \in W, Dot \in W, NEW path \in Seq(W)
  PROVE  normalize(path) \in Seq(W) \ {<<>>}
<1>2. CASE IsSpoilt(path)
  BY <1>2, SpoiltType
<1>3. CASE ~IsSpoilt(path)
  <2>1. Left(path) \in Seq(Plain(W))
    <3>1. Single(path) \in Seq(W)
      BY SingleIs
    <3> QED
      BY <3>1, JoinsType DEF Left
  <2>2. Left(path) \in Seq(W)
    BY <2>1, PlainIs
  <2>3. Spelled(Left(path)) \in Seq(W) \ {<<>>}
    BY <2>1, SpelledIs
  <2>4. Rooted(Left(path)) \in Seq(W) \ {<<>>}
    <3>1. PICK r : r = Rooted(Left(path))
      OBVIOUS
    <3>2. r \in Seq(W) /\ HasSlash(r)
      BY <2>2, <3>1, RootedIs
    <3>3. Len(r) > 1
      BY <3>2, SlashIs
    <3>4. r # <<>>
      BY <3>3
    <3> QED
      BY <3>1, <3>2, <3>4
  <2>5. path = <<"">> => path # <<>>
    <3>1. PICK o : o = <<NoName>>
      OBVIOUS
    <3>2. o # <<>>
      BY <3>1
    <3> QED
      BY <3>1, <3>2, Zenon DEF NoName
  <2> QED
    BY <1>3, <2>3, <2>4, <2>5, NormalizeIs
<1> QED
  BY <1>2, <1>3

LEMMA ComponentIs == Component \in Words /\ Dot \in Component /\ NoName \in Component
BY DEF Words, Component, NoName, Dot

\* What create() adds to the tree is a path.
LEMMA RelativeType ==
  ASSUME NEW path \in Path
  PROVE  Relative(path) \in Path \ {<<>>}
<1>1. PICK n : n = normalize(path)
  OBVIOUS
<1>2. n \in Seq(Component) \ {<<>>}
  BY <1>1, ComponentIs, NormalizeType DEF Path
<1>3. CASE HasSlash(n)
  <2>1. Tail(n) \in Seq(Component) /\ Len(Tail(n)) = Len(n) - 1 /\ Len(n) \in Nat
    BY <1>2, TailOf
  <2>2. Len(n) > 1
    BY <1>3, SlashIs
  <2>3. PICK t : t = Tail(n)
    OBVIOUS
  <2>4. t # <<>>
    <3>1. Len(t) > 0
      BY <2>1, <2>2, <2>3
    <3> QED
      BY <3>1
  <2> QED
    BY <1>1, <1>3, <2>1, <2>3, <2>4 DEF Relative, Path
<1>4. CASE ~HasSlash(n)
  BY <1>1, <1>2, <1>4 DEF Relative, Path
<1> QED
  BY <1>3, <1>4

\* Trees: no file of the list is another one, or above it.
Trees == {t \in SUBSET (Path \ {<<>>}) : \A a, b \in t : IsPrefix(a, b) => a = b}

LEMMA CreateType ==
  ASSUME NEW list \in Seq(Path), create(list) # NoTree
  PROVE  create(list) \in Trees
<1> DEFINE R(i) == Relative(list[i])
           before(i) == {R(j) : j \in 1 .. (i - 1)}
<1>1. \A i \in DOMAIN list : R(i) \in Path \ {<<>>}
  BY RelativeType
<1>2. create(list) = {R(i) : i \in DOMAIN list}
  BY DEF create
<1>3. \A i \in DOMAIN list : is_simple(R(i)) /\ ~Clashes(R(i), before(i))
  BY DEF create
<1> HIDE DEF R
<1>5. ASSUME NEW i \in DOMAIN list, NEW j \in DOMAIN list, i < j
      PROVE  ~IsPrefix(R(i), R(j)) /\ ~IsPrefix(R(j), R(i))
  <2>1. i \in 1 .. (j - 1)
    BY <1>5
  <2>2. R(i) \in before(j)
    BY <2>1
  <2> QED
    BY <1>3, <2>2 DEF Clashes
<1>6. ASSUME NEW a \in create(list), NEW b \in create(list), IsPrefix(a, b)
      PROVE  a = b
  <2>1. PICK i \in DOMAIN list : a = R(i)
    BY <1>2
  <2>2. PICK j \in DOMAIN list : b = R(j)
    BY <1>2
  <2>3. i \in Nat /\ j \in Nat
    OBVIOUS
  <2>4. i < j \/ j < i \/ i = j
    BY <2>3
  <2> QED
    BY <1>5, <1>6, <2>1, <2>2, <2>4
<1>7. create(list) \in SUBSET (Path \ {<<>>})
  BY <1>1, <1>2
<1> QED
  BY <1>6, <1>7 DEF Trees
-----------------------------------------------------------------------------
(* Where paths lead.                                                       *)

\* The components of any path here: the directory it is followed from is made
\* of ".name".
Word == Component \cup {".name"}
Trail == Seq(Word)

\* Where one is after each component of the path.
Along(start, path, g) ==
  /\ g \in [0..Len(path) -> Trail]
  /\ g[0] = start
  /\ \A n \in 1..Len(path) : g[n] = Through(g[n - 1], path[n])

LEMMA ThroughType ==
  ASSUME NEW at \in Trail, NEW c \in Word
  PROVE  Through(at, c) \in Trail
<1>1. at # <<>> => Front(at) \in Trail
  BY FrontOf DEF Trail
<1>2. Append(at, c) \in Trail
  BY DEF Trail
<1> QED
  BY <1>1, <1>2 DEF Through, Trail

LEMMA FollowIs ==
  ASSUME NEW start \in Trail, NEW path \in Trail
  PROVE  \E g : Along(start, path, g) /\ Follow(start, path) = g[Len(path)]
<1> DEFINE N == Len(path)
           step == [n \in 1..N |-> [d \in Trail |-> Through(d, path[n])]]
           at[n \in 0..N] == IF n = 0 THEN start ELSE Through(at[n - 1], path[n])
<1>1. Follow(start, path) = at[N]
  BY DEF Follow
<1>2. N \in Nat /\ \A n \in 1..N : path[n] \in Word
  BY DEF Trail
<1>3. \A d \in Trail, n \in 1..N : Through(d, path[n]) \in Trail
  BY <1>2, ThroughType
<1> HIDE DEF N
<1>4. \A d \in Trail, n \in 1..N : step[n][d] = Through(d, path[n])
  OBVIOUS
<1>5. step \in Steps(N, Trail)
  BY <1>3 DEF Steps
<1> HIDE DEF step
<1>6. PICK g \in [0..N -> Trail] : g[0] = start /\ \A n \in 1..N : g[n] = step[n][g[n - 1]]
  <2>1. Runs(N, Trail, start, step) # {}
    BY <1>2, <1>5, Recursion
  <2> QED
    BY <2>1 DEF Runs
<1>7. ASSUME NEW n \in 1..N PROVE n - 1 \in 0..N /\ g[n - 1] \in Trail /\ g[n] = Through(g[n - 1], path[n])
  <2>1. n - 1 \in 0..N
    BY <1>2
  <2> QED
    BY <1>4, <1>6, <2>1
<1>8. g = [n \in 0..N |-> IF n = 0 THEN start ELSE Through(g[n - 1], path[n])]
  <2>1. ASSUME NEW n \in 0..N PROVE g[n] = IF n = 0 THEN start ELSE Through(g[n - 1], path[n])
    <3>1. n = 0 \/ n \in 1..N
      BY <1>2
    <3> QED
      BY <1>6, <1>7, <3>1
  <2> QED
    BY <1>6, <2>1
<1>9. at = [n \in 0..N |-> IF n = 0 THEN start ELSE Through(at[n - 1], path[n])]
  BY <1>8
<1> HIDE DEF at
<1>10. Alike(N, at, g)
  <2>1. at[0] = g[0]
    BY <1>2, <1>6, <1>9
  <2>2. ASSUME NEW n \in 1..N, at[n - 1] = g[n - 1]
        PROVE  at[n] = g[n]
    <3>1. at[n] = Through(at[n - 1], path[n])
      BY <1>2, <1>9, <2>2
    <3> QED
      BY <1>7, <2>2, <3>1
  <2> QED
    BY <2>1, <2>2 DEF Alike
<1>11. at[N] = g[N]
  BY <1>2, <1>10, SameValue
<1>12. Along(start, path, g)
  BY <1>6, <1>7 DEF Along, N
<1> QED
  BY <1>1, <1>11, <1>12 DEF N

LEMMA FollowType ==
  ASSUME NEW start \in Trail, NEW path \in Trail
  PROVE  Follow(start, path) \in Trail
<1>1. PICK g : Along(start, path, g) /\ Follow(start, path) = g[Len(path)]
  BY FollowIs
<1>2. Len(path) \in 0..Len(path)
  BY DEF Trail
<1> QED
  BY <1>1, <1>2 DEF Along

LEMMA EmptyTrail == <<>> \in Trail
BY DEF Trail

LEMMA FollowEmpty ==
  ASSUME NEW start \in Trail
  PROVE  Follow(start, <<>>) = start
<1>1. <<>> \in Trail /\ Len(<<>>) = 0
  BY EmptyTrail
<1>2. PICK g : Along(start, <<>>, g) /\ Follow(start, <<>>) = g[0]
  BY <1>1, FollowIs
<1> QED
  BY <1>1, <1>2 DEF Along

\* A path is followed, and then one more component.
LEMMA FollowAppend ==
  ASSUME NEW start \in Trail, NEW path \in Trail, NEW c \in Word
  PROVE  /\ Append(path, c) \in Trail
         /\ Follow(start, Append(path, c)) = Through(Follow(start, path), c)
<1>1. PICK t : t = Append(path, c)
  OBVIOUS
<1>2. /\ t \in Trail
      /\ Len(t) = Len(path) + 1
      /\ \A i \in 1..Len(path) : t[i] = path[i]
      /\ t[Len(path) + 1] = c
  BY <1>1, AppendProperties DEF Trail
<1>3. Len(path) \in Nat
  BY DEF Trail
<1>4. PICK g : Along(start, path, g) /\ Follow(start, path) = g[Len(path)]
  BY FollowIs
<1>5. PICK h : Along(start, t, h) /\ Follow(start, t) = h[Len(t)]
  BY <1>2, FollowIs
<1>6. Alike(Len(path), g, h)
  <2>1. g[0] = h[0]
    BY <1>4, <1>5 DEF Along
  <2>2. ASSUME NEW n \in 1..Len(path), g[n - 1] = h[n - 1]
        PROVE  g[n] = h[n]
    <3>1. n \in 1..Len(t) /\ t[n] = path[n]
      BY <1>2, <1>3
    <3>2. g[n] = Through(g[n - 1], path[n])
      BY <1>4 DEF Along
    <3>3. h[n] = Through(h[n - 1], t[n])
      BY <1>5, <3>1 DEF Along
    <3> QED
      BY <2>2, <3>1, <3>2, <3>3
  <2> QED
    BY <2>1, <2>2 DEF Alike
<1>7. g[Len(path)] = h[Len(path)]
  BY <1>3, <1>6, SameValue
<1>8. h[Len(t)] = Through(h[Len(path)], c)
  <2>1. Len(t) \in 1..Len(t) /\ Len(t) - 1 = Len(path) /\ t[Len(t)] = c
    BY <1>2, <1>3
  <2>2. h[Len(t)] = Through(h[Len(t) - 1], t[Len(t)])
    BY <1>5, <2>1 DEF Along
  <2> QED
    BY <2>1, <2>2
<1> QED
  BY <1>1, <1>2, <1>4, <1>5, <1>7, <1>8

\* A path is followed, and then another.
LEMMA FollowConcat ==
  ASSUME NEW start \in Trail, NEW path \in Trail, NEW more \in Trail
  PROVE  /\ path \o more \in Trail
         /\ Follow(start, path \o more) = Follow(Follow(start, path), more)
<1> DEFINE Splits(u) == Follow(start, path \o u) = Follow(Follow(start, path), u)
           S == {n \in Nat : \A u \in Trail : Len(u) = n => Splits(u)}
<1>1. 0 \in S
  <2>1. \A u \in Trail : Len(u) = 0 => u = <<>>
    BY EmptySeq DEF Trail
  <2>2. path \o <<>> = path
    BY ConcatEmptySeq DEF Trail
  <2>3. Splits(<<>>)
    BY <2>2, FollowType, FollowEmpty, EmptyTrail
  <2> QED
    BY <2>1, <2>3
<1>2. ASSUME NEW n \in S PROVE n + 1 \in S
  <2>1. n \in Nat
    OBVIOUS
  <2>2. SUFFICES ASSUME NEW u \in Trail, Len(u) = n + 1
                 PROVE  Splits(u)
    BY <2>1
  <2>3. u # <<>>
    BY <2>1, <2>2
  <2>4. PICK f, l : f = Front(u) /\ l = Last(u)
    OBVIOUS
  <2>5. f \in Trail /\ Len(f) = n /\ l \in Word /\ u = Append(f, l)
    BY <2>1, <2>2, <2>3, <2>4, FrontOf, LastApart DEF Trail
  <2>6. Splits(f)
    BY <1>2, <2>5
  <2>7. path \o f \in Trail /\ path \o u = Append(path \o f, l)
    <3>1. path \o f \in Seq(Word) /\ <<l>> \in Seq(Word)
      BY <2>5, ConcatProperties DEF Trail
    <3>2. Append(f, l) = f \o <<l>> /\ Append(path \o f, l) = (path \o f) \o <<l>>
      BY <2>5, <3>1, AppendIsConcat DEF Trail
    <3>3. path \o (f \o <<l>>) = (path \o f) \o <<l>>
      BY <2>5, <3>1, ConcatAssociative DEF Trail
    <3> QED
      BY <2>5, <3>1, <3>2, <3>3 DEF Trail
  <2>8. Follow(start, path \o u) = Through(Follow(start, path \o f), l)
    BY <2>5, <2>7, FollowAppend
  <2>9. Follow(Follow(start, path), u) = Through(Follow(Follow(start, path), f), l)
    BY <2>5, FollowType, FollowAppend
  <2> QED
    BY <2>6, <2>8, <2>9
<1>3. S \in SUBSET Nat
  OBVIOUS
<1>4. S = Nat
  <2> HIDE DEF S
  <2> QED
    BY <1>1, <1>2, <1>3, AllNumbers
<1>5. Len(more) \in S
  BY <1>4 DEF Trail
<1>6. path \o more \in Trail
  BY ConcatProperties DEF Trail
<1> QED
  BY <1>5, <1>6

-----------------------------------------------------------------------------
(* The normal form.                                                        *)

\* No component can be left out, and ".." is only at the beginning of a path
\* that is not absolute.
NormalForm(abs, d) ==
  /\ d \in Seq(Plain(Word))
  /\ \A j \in 1..Len(d) : d[j] = ".." => ~abs /\ \A k \in 1..j : d[k] = ".."

\* These components lead where the path led.
Leads(start, d, at) == Follow(start, d) = at

LEMMA WordIs ==
  /\ Word \in Words
  /\ Plain(Word) \subseteq Word
  /\ Seq(Plain(Word)) \subseteq Trail
  /\ Path \subseteq Trail
<1>1. Plain(Word) \subseteq Word /\ Component \subseteq Word
  BY DEF Plain, Word
<1>2. Word \in Words
  BY DEF Word, Words, Component
<1> QED
  BY <1>1, <1>2 DEF Trail, Path

LEMMA NormalFront ==
  ASSUME NEW abs, NEW d, NormalForm(abs, d), d # <<>>
  PROVE  NormalForm(abs, Front(d))
<1>1. d \in Seq(Plain(Word))
  BY DEF NormalForm
<1>2. PICK f : f = Front(d)
  OBVIOUS
<1>3. f \in Seq(Plain(Word)) /\ Len(f) = Len(d) - 1 /\ \A i \in 1..(Len(d) - 1) : f[i] = d[i]
  BY <1>1, <1>2, FrontOf
<1>4. Len(d) \in Nat
  BY <1>1
<1>5. ASSUME NEW j \in 1..Len(f), f[j] = ".."
      PROVE  ~abs /\ \A k \in 1..j : f[k] = ".."
  <2>1. j \in 1..Len(d) /\ d[j] = ".." /\ \A k \in 1..j : f[k] = d[k]
    BY <1>3, <1>4, <1>5
  <2> QED
    BY <2>1 DEF NormalForm
<1> QED
  BY <1>2, <1>3, <1>5 DEF NormalForm

\* A component may be added unless it is a ".." after a name.
LEMMA NormalAppend ==
  ASSUME NEW abs, NEW d, NormalForm(abs, d), NEW c \in Plain(Word),
         c = ".." => ~abs /\ \A k \in 1..Len(d) : d[k] = ".."
  PROVE  NormalForm(abs, Append(d, c))
<1>1. d \in Seq(Plain(Word))
  BY DEF NormalForm
<1>2. PICK t : t = Append(d, c)
  OBVIOUS
<1>3. t \in Seq(Plain(Word)) /\ Len(t) = Len(d) + 1 /\ t[Len(d) + 1] = c /\ \A i \in 1..Len(d) : t[i] = d[i]
  BY <1>1, <1>2, AppendProperties
<1>4. Len(d) \in Nat
  BY <1>1
<1>5. ASSUME NEW j \in 1..Len(t), t[j] = ".."
      PROVE  ~abs /\ \A k \in 1..j : t[k] = ".."
  <2>1. CASE j \in 1..Len(d)
    <3>1. d[j] = ".." /\ \A k \in 1..j : t[k] = d[k]
      BY <1>3, <1>4, <1>5, <2>1
    <3> QED
      BY <2>1, <3>1 DEF NormalForm
  <2>2. CASE j = Len(d) + 1
    <3>1. c = ".."
      BY <1>3, <1>5, <2>2
    <3>2. \A k \in 1..j : k \in 1..Len(d) \/ k = Len(d) + 1
      BY <1>4, <2>2
    <3> QED
      BY <1>3, <3>1, <3>2
  <2> QED
    BY <1>3, <1>4, <2>1, <2>2
<1> QED
  BY <1>2, <1>3, <1>5 DEF NormalForm

\* The normal form stays one, and leads through the new component.
LEMMA JoinedNormal ==
  ASSUME NEW abs, NEW d, NormalForm(abs, d), NEW start \in Trail, abs => start = <<>>,
         NEW c \in Word
  PROVE  /\ NormalForm(abs, Joined(abs, d, c))
         /\ Leads(start, Joined(abs, d, c), Through(Follow(start, d), c))
<1>1. d \in Seq(Plain(Word)) /\ d \in Trail
  BY WordIs DEF NormalForm
<1>2. CASE c \in {"", "."}
  BY <1>2 DEF Joined, Through, Leads
<1>3. CASE c \notin {"", ".", ".."}
  <2>1. c \in Plain(Word)
    BY <1>3 DEF Plain
  <2>2. Joined(abs, d, c) = Append(d, c)
    BY <1>3 DEF Joined
  <2>3. NormalForm(abs, Append(d, c))
    BY <1>3, <2>1, NormalAppend
  <2>4. Follow(start, Append(d, c)) = Through(Follow(start, d), c)
    BY <1>1, FollowAppend
  <2> QED
    BY <2>2, <2>3, <2>4 DEF Leads
<1>4. CASE c = ".." /\ (d = <<>> \/ Last(d) = "..")
  <2>1. ".." \in Plain(Word)
    BY DEF Plain, Word, Component
  <2>2. d # <<>> => ~abs /\ \A k \in 1..Len(d) : d[k] = ".."
    <3>1. d # <<>> => Len(d) \in 1..Len(d)
      BY <1>1, EmptySeq, LenProperties
    <3>2. d # <<>> => d[Len(d)] = ".."
      BY <1>1, <1>4, FrontOf
    <3> QED
      BY <3>1, <3>2 DEF NormalForm
  <2>3. CASE ~abs
    <3>1. Joined(abs, d, c) = Append(d, c)
      BY <1>4, <2>3 DEF Joined, Up
    <3>2. \A k \in 1..Len(d) : d[k] = ".."
      <4>1. Len(d) \in Nat /\ (d = <<>> => Len(d) = 0)
        BY <1>1
      <4> QED
        BY <2>2, <4>1
    <3>3. NormalForm(abs, Append(d, c))
      BY <1>4, <2>1, <2>3, <3>2, NormalAppend
    <3>4. Follow(start, Append(d, c)) = Through(Follow(start, d), c)
      BY <1>1, FollowAppend
    <3> QED
      BY <3>1, <3>3, <3>4 DEF Leads
  <2>4. CASE abs
    <3>1. d = <<>> /\ start = <<>>
      BY <2>2, <2>4
    <3>2. Joined(abs, d, c) = d
      BY <1>4, <2>4, <3>1 DEF Joined, Up
    <3>3. Follow(start, d) = <<>> /\ Through(<<>>, c) = <<>>
      BY <1>4, <3>1, FollowEmpty, EmptyTrail DEF Through
    <3> QED
      BY <3>2, <3>3 DEF Leads
  <2> QED
    BY <2>3, <2>4
<1>5. CASE c = ".." /\ d # <<>> /\ Last(d) # ".."
  <2>1. Joined(abs, d, c) = Front(d)
    BY <1>5 DEF Joined, Up
  <2>2. PICK f, l : f = Front(d) /\ l = Last(d)
    OBVIOUS
  <2>3. f \in Seq(Plain(Word)) /\ l \in Plain(Word) /\ d = Append(f, l)
    BY <1>1, <1>5, <2>2, FrontOf, LastApart
  <2>4. f \in Trail /\ l \in Word /\ l \notin {"", ".", ".."}
    BY <1>5, <2>2, <2>3, WordIs DEF Plain
  <2>5. Follow(start, d) = Append(Follow(start, f), l)
    <3>1. Follow(start, d) = Through(Follow(start, f), l)
      BY <2>3, <2>4, FollowAppend
    <3> QED
      BY <2>4, <3>1 DEF Through
  <2>6. PICK at : at = Follow(start, f)
    OBVIOUS
  <2>7. Append(at, l) # <<>> /\ Front(Append(at, l)) = at
    BY <2>4, <2>6, FollowType, FrontAppend DEF Trail
  <2>8. Through(Follow(start, d), c) = at
    BY <1>5, <2>5, <2>6, <2>7 DEF Through
  <2> QED
    BY <1>5, <2>1, <2>2, <2>6, <2>8, NormalFront DEF Leads
<1> QED
  BY <1>2, <1>3, <1>4, <1>5

LEMMA NormalEmpty ==
  ASSUME NEW abs
  PROVE  NormalForm(abs, <<>>)
<1>1. <<>> \in Seq(Plain(Word)) /\ Len(<<>>) = 0
  OBVIOUS
<1> QED
  BY <1>1 DEF NormalForm

LEMMA JoinsOfWords ==
  ASSUME NEW abs, NEW path \in Seq(Word)
  PROVE  \E g : /\ Joining(Seq(Plain(Word)), abs, <<>>, path, g)
               /\ Joins(abs, <<>>, path) = g[Len(path)]
<1>1. PICK X : X = Seq(Plain(Word))
  OBVIOUS
<1>2. PICK none \in X : none = <<>>
  BY <1>1, EmptyIn
<1>3. PICK W : W = Word
  OBVIOUS
<1>4. PICK p \in Seq(W) : p = path
  BY <1>3
<1>5. \A d \in X, c \in W : Joined(abs, d, c) \in X
  BY <1>1, <1>3, WordIs, JoinedType
<1>6. \E g : Joining(X, abs, none, p, g) /\ Joins(abs, none, p) = g[Len(p)]
  BY <1>5, JoinsAre
<1> QED
  BY <1>1, <1>2, <1>4, <1>6

\* What is left of a path is in normal form and leads where it leads.
LEMMA JoinsLead ==
  ASSUME NEW abs, NEW path \in Trail, NEW start \in Trail, abs => start = <<>>
  PROVE  /\ NormalForm(abs, Joins(abs, <<>>, path))
         /\ Leads(start, Joins(abs, <<>>, path), Follow(start, path))
<1>1. PICK X, none : X = Seq(Plain(Word)) /\ none = <<>>
  OBVIOUS
<1>4. PICK g : Joining(X, abs, none, path, g) /\ Joins(abs, none, path) = g[Len(path)]
  <2>1. path \in Seq(Word)
    BY DEF Trail
  <2> QED
    BY <1>1, <2>1, JoinsOfWords
<1>5. PICK h : Along(start, path, h) /\ Follow(start, path) = h[Len(path)]
  BY FollowIs
<1>6. Len(path) \in Nat /\ \A n \in 1..Len(path) : path[n] \in Word
  BY DEF Trail
<1> DEFINE S == {n \in 0..Len(path) : NormalForm(abs, g[n]) /\ Leads(start, g[n], h[n])}
<1>7. 0 \in S
  <2>1. g[0] = none /\ h[0] = start
    BY <1>4, <1>5 DEF Joining, Along
  <2>2. Leads(start, none, start)
    BY <1>1, FollowEmpty, EmptyTrail DEF Leads
  <2>3. NormalForm(abs, none)
    BY <1>1, NormalEmpty
  <2> QED
    BY <1>6, <2>1, <2>2, <2>3
<1>8. ASSUME NEW n \in 1..Len(path), n - 1 \in S PROVE n \in S
  <2>1. n \in 0..Len(path) /\ path[n] \in Word
    BY <1>6
  <2>2. g[n] = Joined(abs, g[n - 1], path[n]) /\ h[n] = Through(h[n - 1], path[n])
    BY <1>4, <1>5 DEF Joining, Along
  <2>3. NormalForm(abs, g[n - 1]) /\ Follow(start, g[n - 1]) = h[n - 1]
    BY <1>8 DEF Leads
  <2>4. /\ NormalForm(abs, Joined(abs, g[n - 1], path[n]))
        /\ Leads(start, Joined(abs, g[n - 1], path[n]), Through(Follow(start, g[n - 1]), path[n]))
    BY <2>1, <2>3, JoinedNormal
  <2> QED
    BY <2>1, <2>2, <2>3, <2>4
<1>9. 0..Len(path) \subseteq S
  <2> HIDE DEF S
  <2> QED
    BY <1>6, <1>7, <1>8, UpTo
<1>10. Len(path) \in S
  BY <1>6, <1>9
<1> QED
  BY <1>1, <1>4, <1>5, <1>10

\* A path of one component.
LEMMA OneIs ==
  ASSUME NEW c \in Word
  PROVE  /\ <<c>> \in Trail /\ Len(<<c>>) = 1 /\ <<c>>[1] = c /\ ~HasSlash(<<c>>)
         /\ \A s \in Trail : Follow(s, <<c>>) = Through(s, c)
<1>1. PICK none : none = <<>>
  OBVIOUS
<1>2. none \in Trail /\ Len(none) = 0 /\ \A s \in Trail : Follow(s, none) = s
  <2>1. none \in Trail /\ \A s \in Trail : Follow(s, none) = s
    BY <1>1, FollowEmpty, EmptyTrail
  <2>2. Len(none) = 0
    BY <1>1
  <2> QED
    BY <2>1, <2>2
<1>3. PICK w : w = Append(none, c)
  OBVIOUS
<1>4. w \in Trail /\ \A s \in Trail : Follow(s, w) = Through(s, c)
  <2>1. w \in Trail
    BY <1>2, <1>3, FollowAppend
  <2>2. ASSUME NEW s \in Trail PROVE Follow(s, w) = Through(s, c)
    <3>1. Follow(s, w) = Through(Follow(s, none), c)
      BY <1>2, <1>3, FollowAppend
    <3> QED
      BY <1>2, <3>1
  <2> QED
    BY <2>1, <2>2
<1>5. Len(w) = 1 /\ w[1] = c
  BY <1>2, <1>3, AppendProperties DEF Trail
<1>6. <<c>> = w
  <2>1. <<c>> \in Seq(Word) /\ Len(<<c>>) = 1 /\ <<c>>[1] = c
    OBVIOUS
  <2>2. PICK v : v = <<c>>
    OBVIOUS
  <2>3. v \in Seq(Word) /\ w \in Seq(Word) /\ Len(v) = Len(w) /\ \A i \in 1..Len(v) : v[i] = w[i]
    BY <1>4, <1>5, <2>1, <2>2 DEF Trail
  <2>4. v = w
    BY <2>3, SeqEqual
  <2> QED
    BY <2>2, <2>4
<1>7. ~HasSlash(w)
  BY <1>5, SlashIs
<1> QED
  BY <1>4, <1>5, <1>6, <1>7

LEMMA WordsAre == {NoName, ".", "..", ".name"} \subseteq Word
BY DEF Word, Component, NoName

LEMMA ThroughNoName ==
  ASSUME NEW at
  PROVE  Through(at, NoName) = at /\ Through(at, Dot) = at
BY Zenon DEF Through, NoName, Dot

LEMMA OneOf ==
  ASSUME NEW S, NEW v \in S
  PROVE  <<v>> \in Seq(S) /\ Len(<<v>>) = 1 /\ <<v>>[1] = v
OBVIOUS

\* The first component of a path, and what is after it.
LEMMA HeadTailIs ==
  ASSUME NEW S, NEW s \in Seq(S), s # <<>>
  PROVE  s = <<s[1]>> \o Tail(s)
<1>1. PICK c \in S : c = s[1]
  <2>1. s[1] \in S
    BY TailOf
  <2> QED
    BY <2>1
<1>2. PICK o \in Seq(S) : o = <<c>>
  BY OneOf, Zenon
<1>3. Len(o) = 1 /\ o[1] = c
  BY <1>2, OneOf
<1>4. PICK t \in Seq(S) : t = Tail(s)
  BY TailOf
<1>5. Len(t) = Len(s) - 1 /\ Len(s) \in Nat \ {0} /\ \A i \in 1..(Len(s) - 1) : t[i] = s[i + 1]
  BY <1>4, TailOf
<1>6. PICK w : w = o \o t
  OBVIOUS
<1>7. w \in Seq(S) /\ Len(w) = Len(o) + Len(t)
  BY <1>6, ConcatIs
<1>8. \A i \in 1..Len(o) : w[i] = o[i]
  BY <1>6, ConcatIs
<1>9. \A i \in 1..Len(t) : w[Len(o) + i] = t[i]
  BY <1>6, ConcatIs
<1>10. Len(w) = Len(s)
  BY <1>3, <1>5, <1>7
<1>11. ASSUME NEW i \in 1..Len(s) PROVE w[i] = s[i]
  <2>1. CASE i = 1
    <3>1. 1 \in 1..Len(o)
      BY <1>3
    <3> QED
      BY <1>1, <1>3, <1>8, <2>1, <3>1
  <2>2. CASE i # 1
    <3>1. PICK k : k = i - 1
      OBVIOUS
    <3>2. k \in 1..Len(t) /\ k \in 1..(Len(s) - 1) /\ k + 1 = i /\ Len(o) + k = i
      BY <1>3, <1>5, <2>2, <3>1
    <3>3. w[i] = t[k]
      BY <1>9, <3>2
    <3> QED
      BY <1>5, <3>2, <3>3
  <2> QED
    BY <2>1, <2>2
<1>12. w = s
  BY <1>7, <1>10, <1>11, SeqEqual
<1> QED
  BY <1>1, <1>2, <1>4, <1>6, <1>12

\* An empty component at the beginning leads nowhere.
LEMMA TailLeads ==
  ASSUME NEW path \in Trail, path # <<>>, path[1] = NoName
  PROVE  Tail(path) \in Trail /\ \A s \in Trail : Follow(s, Tail(path)) = Follow(s, path)
<1>1. NoName \in Word
  BY WordsAre
<1>2. PICK o : o = <<NoName>>
  OBVIOUS
<1>3. o \in Trail /\ Len(o) = 1 /\ o[1] = NoName /\ \A s \in Trail : Follow(s, o) = s
  BY <1>1, <1>2, OneIs, ThroughNoName
<1>4. PICK t : t = Tail(path)
  OBVIOUS
<1>5. path \in Seq(Word)
  BY DEF Trail
<1>6. t \in Trail /\ path = o \o t
  BY <1>2, <1>4, <1>5, TailOf, HeadTailIs DEF Trail
<1>7. ASSUME NEW s \in Trail PROVE Follow(s, t) = Follow(s, path)
  <2>1. Follow(s, o \o t) = Follow(Follow(s, o), t)
    BY <1>3, <1>6, FollowConcat
  <2> QED
    BY <1>3, <1>6, <2>1
<1> QED
  BY <1>4, <1>6, <1>7

LEMMA SingleLeads ==
  ASSUME NEW path \in Trail
  PROVE  Single(path) \in Trail /\ \A s \in Trail : Follow(s, Single(path)) = Follow(s, path)
<1>1. CASE HasSlashes(path)
  <2>1. Len(path) > 2 /\ path[1] = NoName
    BY <1>1, SlashIs
  <2>2. path # <<>>
    BY <2>1
  <2>3. Single(path) = Tail(path)
    BY <1>1 DEF Single
  <2> QED
    BY <2>1, <2>2, <2>3, TailLeads
<1>2. CASE ~HasSlashes(path)
  BY <1>2 DEF Single
<1> QED
  BY <1>1, <1>2

LEMMA LeftLeads ==
  ASSUME NEW path \in Trail, NEW start \in Trail, HasSlash(path) => start = <<>>
  PROVE  /\ NormalForm(HasSlash(path), Left(path)) /\ Left(path) \in Seq(Plain(Word)) /\ Left(path) \in Trail
         /\ Follow(start, Left(path)) = Follow(start, path)
<1>1. Single(path) \in Trail /\ Follow(start, Single(path)) = Follow(start, path)
  BY SingleLeads
<1>2. NormalForm(HasSlash(path), Left(path)) /\ Leads(start, Left(path), Follow(start, Single(path)))
  BY <1>1, JoinsLead DEF Left
<1>3. Left(path) \in Seq(Plain(Word))
  BY <1>2 DEF NormalForm
<1> QED
  BY <1>1, <1>2, <1>3, WordIs DEF Leads

LEMMA RootedLeads ==
  ASSUME NEW names \in Trail
  PROVE  /\ Rooted(names) \in Trail /\ HasSlash(Rooted(names))
         /\ \A s \in Trail : Follow(s, Rooted(names)) = Follow(s, names)
<1>1. NoName \in Word /\ names \in Seq(Word)
  BY WordsAre DEF Trail
<1>2. PICK r : r = Rooted(names)
  OBVIOUS
<1>3. r \in Seq(Word) /\ HasSlash(r)
  BY <1>1, <1>2, RootedIs
<1>4. Tail(r) = IF names = <<>> THEN <<NoName>> ELSE names
  BY <1>1, <1>2, RootedIs
<1>5. Len(r) > 1 /\ r[1] = NoName
  BY <1>3, SlashIs
<1>6. r # <<>> /\ r \in Trail
  BY <1>3, <1>5 DEF Trail
<1>7. \A s \in Trail : Follow(s, Tail(r)) = Follow(s, r)
  BY <1>5, <1>6, TailLeads
<1>8. CASE names = <<>>
  <2>1. ASSUME NEW s \in Trail PROVE Follow(s, r) = Follow(s, names)
    <3>1. PICK o : o = <<NoName>>
      OBVIOUS
    <3>2. Follow(s, o) = s
      BY <1>1, <3>1, OneIs, ThroughNoName
    <3>3. Tail(r) = o
      BY <1>4, <1>8, <3>1
    <3>4. Follow(s, names) = s
      BY <1>8, FollowEmpty
    <3> QED
      BY <1>7, <3>2, <3>3, <3>4
  <2> QED
    BY <1>2, <1>3, <1>6, <2>1
<1>9. CASE names # <<>>
  BY <1>2, <1>3, <1>4, <1>6, <1>7, <1>9
<1> QED
  BY <1>8, <1>9

LEMMA SpelledLeads ==
  ASSUME NEW names \in Seq(Plain(Word))
  PROVE  /\ Spelled(names) \in Trail /\ ~HasSlash(Spelled(names))
         /\ \A s \in Trail : Follow(s, Spelled(names)) = Follow(s, names)
<1>1. Dot \in Word
  BY WordsAre DEF Dot
<1>2. Spelled(names) \in Trail /\ ~HasSlash(Spelled(names))
  BY <1>1, SpelledIs DEF Trail
<1>3. CASE names = <<>>
  <2>1. Spelled(names) = <<Dot>>
    BY <1>3, Zenon DEF Spelled, Dot
  <2>2. ASSUME NEW s \in Trail PROVE Follow(s, Spelled(names)) = Follow(s, names)
    <3>1. Follow(s, <<Dot>>) = s
      BY <1>1, OneIs, ThroughNoName
    <3>2. Follow(s, names) = s
      BY <1>3, FollowEmpty
    <3> QED
      BY <2>1, <3>1, <3>2
  <2> QED
    BY <1>2, <2>2
<1>4. CASE names # <<>>
  <2>1. Spelled(names) = names
    BY <1>4, Zenon DEF Spelled
  <2> QED
    BY <1>2, <2>1
<1> QED
  BY <1>3, <1>4

\* The normal form leads where the path leads, from every directory.
LEMMA NormalizeLeads ==
  ASSUME NEW path \in Trail, ~IsSpoilt(path)
  PROVE  /\ normalize(path) \in Trail /\ (HasSlash(normalize(path)) <=> HasSlash(path))
         /\ \A s \in Trail : Goto(s, normalize(path)) = Goto(s, path)
<1>1. normalize(path) = IF path = <<"">> THEN path
                        ELSE IF HasSlash(path) THEN Rooted(Left(path)) ELSE Spelled(Left(path))
  <2>1. path \in Seq(Word)
    BY DEF Trail
  <2> QED
    BY <2>1, NormalizeIs
<1>2. CASE path = <<"">>
  BY <1>1, <1>2, Zenon
<1>3. CASE path # <<"">> /\ HasSlash(path)
  <2>1. normalize(path) = Rooted(Left(path))
    BY <1>1, <1>3, Zenon
  <2>2. Left(path) \in Trail /\ Follow(<<>>, Left(path)) = Follow(<<>>, path)
    BY EmptyTrail, LeftLeads
  <2>3. Rooted(Left(path)) \in Trail /\ HasSlash(Rooted(Left(path)))
        /\ Follow(<<>>, Rooted(Left(path))) = Follow(<<>>, Left(path))
    BY <2>2, EmptyTrail, RootedLeads
  <2> QED
    BY <1>3, <2>1, <2>2, <2>3 DEF Goto
<1>4. CASE path # <<"">> /\ ~HasSlash(path)
  <2>1. normalize(path) = Spelled(Left(path))
    BY <1>1, <1>4, Zenon
  <2>2. Left(path) \in Seq(Plain(Word)) /\ \A s \in Trail : Follow(s, Left(path)) = Follow(s, path)
    BY <1>4, EmptyTrail, LeftLeads
  <2>3. /\ Spelled(Left(path)) \in Trail /\ ~HasSlash(Spelled(Left(path)))
        /\ \A s \in Trail : Follow(s, Spelled(Left(path))) = Follow(s, Left(path))
    BY <2>2, SpelledLeads
  <2> QED
    BY <1>4, <2>1, <2>2, <2>3 DEF Goto
<1> QED
  BY <1>2, <1>3, <1>4

LEMMA BelowIs ==
  ASSUME NEW n \in Nat
  PROVE  Below(n) \in Trail /\ Follow(<<>>, Below(n)) = Below(n)
<1> DEFINE S == {m \in Nat : Follow(<<>>, Below(m)) = Below(m)}
<1>1. ".name" \in Word
  BY DEF Word
<1>2. \A m \in Nat : Below(m) \in Trail
  BY <1>1 DEF Below, Trail
<1>3. 0 \in S
  <2>1. Below(0) = <<>>
    <3>1. Below(0) \in Seq(Word) /\ Len(Below(0)) = 0
      <4>1. Len(Below(0)) = 0
        BY DEF Below
      <4> QED
        BY <1>2, <4>1 DEF Trail
    <3> QED
      BY <3>1, EmptySeq
  <2> QED
    BY <2>1, FollowEmpty, EmptyTrail
<1>4. ASSUME NEW m \in S PROVE m + 1 \in S
  <2>1. m \in Nat /\ Below(m) \in Trail
    BY <1>2
  <2>2. Below(m + 1) = Append(Below(m), ".name")
    <3>1. PICK a, b : a = Below(m) /\ b = Append(a, ".name")
      OBVIOUS
    <3>2. a \in Seq(Word) /\ Len(a) = m /\ \A i \in 1..m : a[i] = ".name"
      BY <2>1, <3>1 DEF Below, Trail
    <3>3. b \in Seq(Word) /\ Len(b) = m + 1 /\ b[m + 1] = ".name" /\ \A i \in 1..m : b[i] = ".name"
      BY <1>1, <3>1, <3>2, AppendProperties
    <3>4. PICK c : c = Below(m + 1)
      OBVIOUS
    <3>5. c \in Seq(Word) /\ Len(c) = m + 1 /\ \A i \in 1..(m + 1) : c[i] = ".name"
      BY <1>1, <2>1, <3>4 DEF Below
    <3>6. \A i \in 1..(m + 1) : i \in 1..m \/ i = m + 1
      BY <2>1
    <3>7. b = c
      BY <3>3, <3>5, <3>6, SeqEqual
    <3> QED
      BY <3>1, <3>4, <3>7
  <2>3. Follow(<<>>, Below(m + 1)) = Through(Below(m), ".name")
    <3>1. Follow(<<>>, Append(Below(m), ".name")) = Through(Follow(<<>>, Below(m)), ".name")
      BY <1>1, <2>1, EmptyTrail, FollowAppend
    <3> QED
      BY <2>2, <3>1
  <2>4. Through(Below(m), ".name") = Append(Below(m), ".name")
    BY DEF Through
  <2> QED
    BY <2>1, <2>2, <2>3, <2>4
<1>5. S \in SUBSET Nat
  OBVIOUS
<1>6. S = Nat
  <2> HIDE DEF S
  <2> QED
    BY <1>3, <1>4, <1>5, AllNumbers
<1> QED
  BY <1>2, <1>6
\* absolute() leads from the root where the path leads from the directory.
LEMMA AbsoluteLeads ==
  ASSUME NEW n \in Nat, NEW path \in Trail, ~HasRootName(path)
  PROVE  Goto(<<>>, absolute(Below(n), path)) = Goto(Below(n), path)
<1>1. CASE IsAbsolute(path)
  BY <1>1 DEF absolute, Goto, IsAbsolute
<1>2. CASE ~IsAbsolute(path)
  <2>1. ~HasSlash(path)
    BY <1>2 DEF IsAbsolute
  <2>2. PICK b, r, w : b = Below(n) /\ r = Rooted(b) /\ w = r \o path
    OBVIOUS
  <2>3. b \in Trail /\ Follow(<<>>, b) = b
    BY <2>2, BelowIs
  <2>4. r \in Trail /\ HasSlash(r) /\ Follow(<<>>, r) = b
    BY <2>2, <2>3, EmptyTrail, RootedLeads
  <2>5. w \in Trail /\ Follow(<<>>, w) = Follow(b, path)
    BY <2>2, <2>4, EmptyTrail, FollowConcat
  <2>6. path \in Seq(Word) /\ b \in Seq(Word) /\ r \in Seq(Word) /\ NoName \in Word
    BY <2>3, <2>4, WordsAre DEF Trail
  <2>7. Len(w) = Len(r) + Len(path)
    BY <2>2, <2>6, ConcatIs
  <2>8. \A i \in 1..Len(r) : w[i] = r[i]
    BY <2>2, <2>6, ConcatIs
  <2>9. \A i \in 1..Len(path) : w[Len(r) + i] = path[i]
    BY <2>2, <2>6, ConcatIs
  <2>10. Len(r) = (IF b = <<>> THEN 2 ELSE Len(b) + 1) /\ \A i \in 1..Len(b) : r[i + 1] = b[i]
    BY <2>2, <2>6, RootedIs
  <2>11. Len(path) \in Nat /\ Len(b) \in Nat /\ Len(r) > 1 /\ r[1] = NoName
    BY <2>4, <2>6, SlashIs, LenProperties
  <2>12. Len(r) \in Nat
    BY <2>6, LenProperties
  <2>13. HasSlash(w)
    <3>1. 1 \in 1..Len(r) /\ Len(w) > 1
      BY <2>7, <2>11, <2>12
    <3> QED
      BY <2>8, <2>11, <3>1, SlashIs
  <2>14. ~IsSpoilt(w)
    <3>1. SUFFICES ASSUME Len(w) > 3, w[2] = NoName, w[3] = NoName PROVE FALSE
      BY <2>5, SpoiltIs DEF Trail
    <3>2. CASE b = <<>>
      <4>1. Len(r) = 2
        BY <2>10, <3>2
      <4>2. Len(path) > 1 /\ 1 \in 1..Len(path) /\ Len(r) + 1 = 3
        BY <2>7, <2>11, <3>1, <4>1
      <4>3. path[1] = NoName
        BY <2>9, <3>1, <4>2
      <4> QED
        BY <2>1, <4>2, <4>3, SlashIs
    <3>3. CASE b # <<>>
      <4>1. Len(b) > 0
        BY <2>6, <3>3, EmptySeq, LenProperties
      <4>2. 1 \in 1..Len(b) /\ 2 \in 1..Len(r)
        BY <2>10, <2>11, <3>3, <4>1
      <4>3. b[1] = ".name"
        <5>1. b = [i \in 1..n |-> ".name"] /\ Len(b) = n
          BY <2>2 DEF Below
        <5> QED
          BY <4>2, <5>1
      <4>4. w[2] = b[1]
        BY <2>8, <2>10, <4>2
      <4>5. NoName # ".name"
        BY DEF NoName
      <4> QED
        BY <3>1, <4>3, <4>4, <4>5
    <3> QED
      BY <3>2, <3>3
  <2>15. Goto(<<>>, normalize(w)) = Goto(<<>>, w)
    BY <2>5, <2>14, EmptyTrail, NormalizeLeads
  <2>16. absolute(Below(n), path) = normalize(w)
    BY <1>2, <2>2 DEF absolute
  <2> QED
    BY <2>1, <2>2, <2>5, <2>13, <2>15, <2>16 DEF Goto
<1> QED
  BY <1>1, <1>2

\* A component after a path, which may end with a slash.
LEMMA SlashAfter ==
  ASSUME NEW path \in Trail, path # <<>>, NEW c \in Word, c # NoName
  PROVE  /\ Slash(path, c) \in Trail
         /\ \A s \in Trail : Follow(s, Slash(path, c)) = Through(Follow(s, path), c)
         /\ HasSlash(Slash(path, c)) <=> HasSlash(path)
         /\ IsSpoilt(Slash(path, c)) => IsSpoilt(path)
<1>1. PICK p, f, l : p = Slash(path, c) /\ f = Front(path) /\ l = Last(path)
  OBVIOUS
<1>2. path \in Seq(Word) /\ Len(path) \in Nat \ {0}
  BY EmptySeq, LenProperties DEF Trail
<1>3. /\ f \in Seq(Word) /\ Len(f) = Len(path) - 1 /\ \A i \in 1..(Len(path) - 1) : f[i] = path[i]
      /\ l \in Word /\ l = path[Len(path)] /\ path = Append(f, l)
  BY <1>1, <1>2, FrontOf, LastApart
<1>4. CASE l = NoName
  <2>1. p = Append(f, c)
    BY <1>1, <1>4, Zenon DEF Slash, NoName
  <2>2. f \in Trail
    BY <1>3 DEF Trail
  <2>3. p \in Trail
    BY <2>1, <2>2, FollowAppend
  <2>4. ASSUME NEW s \in Trail PROVE Follow(s, p) = Through(Follow(s, path), c)
    <3>1. Follow(s, p) = Through(Follow(s, f), c)
      BY <2>1, <2>2, FollowAppend
    <3>2. Follow(s, path) = Through(Follow(s, f), l)
      BY <1>3, <2>2, FollowAppend
    <3> QED
      BY <1>4, <3>1, <3>2, ThroughNoName
  <2>5. Len(p) = Len(path) /\ \A i \in 1..(Len(path) - 1) : p[i] = path[i]
    <3>1. Len(p) = Len(f) + 1 /\ \A i \in 1..Len(f) : p[i] = f[i]
      BY <1>3, <2>1, AppendProperties
    <3>2. PICK n \in Nat \ {0} : n = Len(path)
      BY <1>2
    <3>3. Len(f) = n - 1 /\ \A i \in 1..(n - 1) : f[i] = path[i]
      BY <1>3, <3>2
    <3>4. Len(p) = n
      BY <3>1, <3>3
    <3>5. \A i \in 1..(n - 1) : p[i] = path[i]
      BY <3>1, <3>3
    <3> QED
      BY <3>2, <3>4, <3>5
  <2>6. Len(path) > 1 => p[1] = path[1]
    BY <1>2, <2>5
  <2>7. HasSlash(p) <=> HasSlash(path)
    BY <2>5, <2>6, SlashIs
  <2>8. IsSpoilt(p) => IsSpoilt(path)
    <3>1. Len(path) > 3 => p[1] = path[1] /\ p[2] = path[2] /\ p[3] = path[3]
      BY <1>2, <2>5
    <3>2. Len(path) > 3 /\ Len(path) # 4 => p[4] = path[4]
      BY <1>2, <2>5
    <3>3. p \in Seq(Word)
      BY <2>3 DEF Trail
    <3>4. IsSpoilt(p) <=> /\ Len(p) > 3 /\ p[1] = NoName /\ p[2] = NoName /\ p[3] = NoName
                          /\ Len(p) = 4 \/ p[4] # NoName
      BY <3>3, SpoiltIs
    <3>5. IsSpoilt(path) <=> /\ Len(path) > 3 /\ path[1] = NoName /\ path[2] = NoName /\ path[3] = NoName
                             /\ Len(path) = 4 \/ path[4] # NoName
      BY <1>2, SpoiltIs
    <3> QED
      BY <2>5, <3>1, <3>2, <3>4, <3>5
  <2> QED
    BY <1>1, <2>3, <2>4, <2>7, <2>8
<1>5. CASE l # NoName
  <2>1. p = Append(path, c)
    BY <1>1, <1>5, Zenon DEF Slash, NoName
  <2>2. p \in Trail /\ \A s \in Trail : Follow(s, p) = Through(Follow(s, path), c)
    BY <2>1, FollowAppend
  <2>3. Len(p) = Len(path) + 1 /\ \A i \in 1..Len(path) : p[i] = path[i]
    BY <1>2, <2>1, AppendProperties
  <2>4. p[1] = path[1] /\ Len(p) > 1
    BY <1>2, <2>3
  <2>5. Len(path) = 1 => path[1] # NoName
    BY <1>3, <1>5
  <2>6. HasSlash(p) <=> HasSlash(path)
    <3>1. PICK n \in Nat \ {0} : n = Len(path)
      BY <1>2
    <3>2. n = 1 \/ n > 1
      OBVIOUS
    <3>3. ~(1 > 1)
      OBVIOUS
    <3> QED
      BY <2>4, <2>5, <3>1, <3>2, <3>3, SlashIs, Zenon
  <2>7. IsSpoilt(p) => IsSpoilt(path)
    <3>1. Len(path) = 3 => path[3] # NoName /\ p[3] = path[3]
      BY <1>3, <1>5, <2>3
    <3>2. Len(path) > 3 => p[1] = path[1] /\ p[2] = path[2] /\ p[3] = path[3] /\ p[4] = path[4] /\ Len(p) # 4
      BY <1>2, <2>3
    <3>3. p \in Seq(Word)
      BY <2>2 DEF Trail
    <3>4. IsSpoilt(p) <=> /\ Len(p) > 3 /\ p[1] = NoName /\ p[2] = NoName /\ p[3] = NoName
                          /\ Len(p) = 4 \/ p[4] # NoName
      BY <3>3, SpoiltIs
    <3>5. IsSpoilt(path) <=> /\ Len(path) > 3 /\ path[1] = NoName /\ path[2] = NoName /\ path[3] = NoName
                             /\ Len(path) = 4 \/ path[4] # NoName
      BY <1>2, SpoiltIs
    <3>6. Len(p) > 3 => Len(path) = 3 \/ Len(path) > 3
      <4>1. PICK n \in Nat \ {0} : n = Len(path)
        BY <1>2
      <4>2. n + 1 > 3 => n = 3 \/ n > 3
        OBVIOUS
      <4> QED
        BY <2>3, <4>1, <4>2
    <3> QED
      BY <3>1, <3>2, <3>4, <3>5, <3>6
  <2> QED
    BY <1>1, <2>2, <2>6, <2>7
<1> QED
  BY <1>4, <1>5

\* dirname() leads one directory above the path.
LEMMA DirnameLeads ==
  ASSUME NEW start \in Trail, NEW path \in Trail, path # <<>>, ~IsSpoilt(path)
  PROVE  /\ Goto(start, dirname(path)) = Through(Goto(start, path), "..")
         /\ Goto(Goto(start, path), <<"..">>) = Through(Goto(start, path), "..")
<1>1. PICK c \in Word : c = ".."
  BY WordsAre
<1>2. c # NoName
  BY <1>1 DEF NoName
<1>3. PICK p : p = Slash(path, c)
  OBVIOUS
<1>4. /\ p \in Trail /\ (HasSlash(p) <=> HasSlash(path)) /\ ~IsSpoilt(p)
      /\ \A s \in Trail : Follow(s, p) = Through(Follow(s, path), c)
  BY <1>2, <1>3, SlashAfter
<1>5. dirname(path) = normalize(p)
  BY <1>1, <1>3 DEF dirname
<1>6. Goto(start, normalize(p)) = Goto(start, p)
  BY <1>4, NormalizeLeads
<1>7. Goto(start, p) = Through(Goto(start, path), c)
  BY <1>4, EmptyTrail DEF Goto
<1>8. Goto(start, path) \in Trail
  BY EmptyTrail, FollowType DEF Goto
<1>9. Goto(Goto(start, path), <<c>>) = Through(Goto(start, path), c)
  <2>1. PICK up : up = <<c>>
    OBVIOUS
  <2>2. ~HasSlash(up) /\ \A s \in Trail : Follow(s, up) = Through(s, c)
    BY <2>1, OneIs
  <2> QED
    BY <1>8, <2>1, <2>2 DEF Goto
<1> QED
  BY <1>1, <1>5, <1>6, <1>7, <1>9

\* A name that basename() says leads back.
LEMMA BasenameLeads ==
  ASSUME NEW start \in Trail, NEW path \in Trail, path # <<>>, ~IsSpoilt(path), basename(path) \in Name
  PROVE  Goto(Goto(start, dirname(path)), <<basename(path)>>) = Goto(start, path)
<1>1. PICK d, b : d = normalize(path) /\ b = basename(path)
  OBVIOUS
<1>2. b \notin {"", ".", ".."} /\ b \in Word
  BY <1>1, NameAssumption DEF Word, Component
<1>3. d \in Seq(Word) \ {<<>>} /\ b = Last(d)
  <2>1. PICK W \in Words : W = Word
    BY WordIs
  <2>2. NoName \in W /\ Dot \in W
    BY <2>1, WordsAre DEF Dot
  <2>3. path \in Seq(W)
    BY <2>1 DEF Trail
  <2>4. normalize(path) \in Seq(W) \ {<<>>}
    BY <2>2, <2>3, NormalizeType
  <2> QED
    BY <1>1, <2>1, <2>4 DEF basename
<1>4. PICK f : f = Front(d)
  OBVIOUS
<1>5. f \in Trail /\ d = Append(f, b)
  BY <1>3, <1>4, FrontOf, LastApart DEF Trail
<1>6. PICK s \in Trail : \A q \in Trail : (HasSlash(q) <=> HasSlash(path)) => Goto(start, q) = Follow(s, q)
  BY EmptyTrail DEF Goto
<1>7. Goto(start, path) = Append(Follow(s, f), b)
  <2>1. d \in Trail /\ Goto(start, d) = Goto(start, path) /\ Goto(start, d) = Follow(s, d)
    BY <1>1, <1>6, NormalizeLeads
  <2>2. Follow(s, d) = Through(Follow(s, f), b)
    BY <1>2, <1>5, FollowAppend
  <2> QED
    BY <1>2, <2>1, <2>2 DEF Through
<1>8. PICK at : at = Follow(s, f)
  OBVIOUS
<1>9. at \in Trail /\ Append(at, b) # <<>> /\ Front(Append(at, b)) = at
  BY <1>2, <1>5, <1>8, FollowType, FrontAppend DEF Trail
<1>10. Goto(start, dirname(path)) = at
  <2>1. Goto(start, dirname(path)) = Through(Append(at, b), "..")
    BY <1>7, <1>8, DirnameLeads
  <2> QED
    BY <1>9, <2>1 DEF Through
<1>11. Goto(at, <<b>>) = Append(at, b)
  <2>1. PICK w : w = <<b>>
    OBVIOUS
  <2>2. ~HasSlash(w)
    BY <1>2, <2>1, OneIs
  <2>3. Follow(at, w) = Through(at, b)
    BY <1>2, <1>9, <2>1, OneIs
  <2> QED
    BY <1>2, <2>1, <2>2, <2>3 DEF Goto, Through
<1> QED
  BY <1>1, <1>7, <1>8, <1>10, <1>11

\* And no component of the normal form can be left out.
LEMMA LeftNames ==
  ASSUME NEW path \in Path
  PROVE  /\ Left(path) \in Seq(Plain(Component))
         /\ \A j \in 1..Len(Left(path)) :
              \/ Left(path)[j] \in Name
              \/ Left(path)[j] = ".." /\ ~HasSlash(path) /\ \A k \in 1..j : Left(path)[k] = ".."
<1>1. PICK l : l = Left(path)
  OBVIOUS
<1>2. l \in Seq(Plain(Component))
  <2>1. PICK W \in Words : W = Component
    BY ComponentIs
  <2>2. PICK single \in Seq(W) : single = Single(path)
    BY <2>1, SingleIs DEF Path
  <2>3. Joins(HasSlash(path), <<>>, single) \in Seq(Plain(W))
    BY JoinsType
  <2> QED
    BY <1>1, <2>1, <2>2, <2>3 DEF Left
<1>3. NormalForm(HasSlash(path), l)
  BY <1>1, WordIs, EmptyTrail, LeftLeads
<1>4. Plain(Component) \subseteq Name \cup {".."}
  BY DEF Plain, Component
<1>5. ASSUME NEW j \in 1..Len(l)
      PROVE  l[j] \in Name \/ (l[j] = ".." /\ ~HasSlash(path) /\ \A k \in 1..j : l[k] = "..")
  <2>1. l[j] \in Name \cup {".."}
    BY <1>2, <1>4, ElementOfSeq
  <2> QED
    BY <1>3, <2>1 DEF NormalForm
<1> QED
  BY <1>1, <1>2, <1>5

LEMMA NormalizeNormal ==
  ASSUME NEW path \in Path, ~IsSpoilt(path)
  PROVE  IsNormal(normalize(path))
<1>1. PICK l, n : l = Left(path) /\ n = normalize(path)
  OBVIOUS
<1>2. /\ l \in Seq(Plain(Component))
      /\ \A j \in 1..Len(l) : l[j] \in Name \/ (l[j] = ".." /\ ~HasSlash(path) /\ \A k \in 1..j : l[k] = "..")
  BY <1>1, LeftNames
<1>3. n = IF path = <<"">> THEN path ELSE IF HasSlash(path) THEN Rooted(l) ELSE Spelled(l)
  BY <1>1, NormalizeIs DEF Path
<1>4. HasSlash(n) <=> HasSlash(path)
  BY <1>1, WordIs, NormalizeLeads
<1>5. DOMAIN l = 1..Len(l)
  BY <1>2, LenProperties
<1>6. CASE path = <<"">>
  BY <1>1, <1>3, <1>6, Zenon DEF IsNormal
<1>7. CASE path # <<"">> /\ l = <<>>
  <2>1. n = <<"", "">> \/ n = <<".">>
    BY <1>3, <1>7, Zenon DEF Rooted, Spelled
  <2> QED
    BY <1>1, <2>1, Zenon DEF IsNormal
<1>8. CASE path # <<"">> /\ l # <<>> /\ HasSlash(path)
  <2>1. n = Rooted(l)
    BY <1>3, <1>8, Zenon
  <2>2. l \in Seq(Component)
    BY <1>2, PlainIs
  <2>3. Tail(n) = l
    BY <1>8, <2>1, <2>2, ComponentIs, RootedIs
  <2> QED
    BY <1>1, <1>2, <1>4, <1>5, <1>8, <2>3, Zenon DEF IsNormal
<1>9. CASE path # <<"">> /\ l # <<>> /\ ~HasSlash(path)
  <2>1. n = l
    BY <1>3, <1>9, Zenon DEF Spelled
  <2> QED
    BY <1>1, <1>2, <1>4, <1>5, <1>9, <2>1, Zenon DEF IsNormal
<1> QED
  BY <1>6, <1>7, <1>8, <1>9, Zenon

LEMMA PathsAgree ==
  ASSUME files \in Seq(Written)
  PROVE  NormalFormAgrees
<1>1. SUFFICES ASSUME NEW i \in DOMAIN files, ~IsSpoilt(files[i])
      PROVE  LET path == files[i]
             IN /\ IsNormal(normalize(path))
                /\ \A n \in 0..(MaxComponents + 1) :
                     /\ ~HasRootName(path) =>
                          Goto(<<>>, absolute(Below(n), path)) = Goto(Below(n), path)
                     /\ Goto(Below(n), normalize(path)) = Goto(Below(n), path)
                     /\ Goto(Below(n), dirname(path)) = Goto(Goto(Below(n), path), <<"..">>)
                     /\ basename(path) \in Name =>
                          Goto(Goto(Below(n), dirname(path)), <<basename(path)>>) = Goto(Below(n), path)
  BY DEF NormalFormAgrees
<1>2. PICK path : path = files[i]
  OBVIOUS
<1>3. path \in Path /\ path # <<>> /\ path \in Trail /\ ~IsSpoilt(path)
  <2>1. path \in Written
    BY <1>2
  <2> QED
    BY <1>1, <1>2, <2>1, WordIs DEF Written
<1>4. ASSUME NEW n \in 0..(MaxComponents + 1)
      PROVE  /\ ~HasRootName(path) => Goto(<<>>, absolute(Below(n), path)) = Goto(Below(n), path)
             /\ Goto(Below(n), normalize(path)) = Goto(Below(n), path)
             /\ Goto(Below(n), dirname(path)) = Goto(Goto(Below(n), path), <<"..">>)
             /\ basename(path) \in Name =>
                  Goto(Goto(Below(n), dirname(path)), <<basename(path)>>) = Goto(Below(n), path)
  <2>1. n \in Nat /\ Below(n) \in Trail
    BY FileTreeAssumption, BelowIs
  <2> QED
    BY <1>3, <2>1, AbsoluteLeads, NormalizeLeads, DirnameLeads, BasenameLeads
<1>5. IsNormal(normalize(path))
  BY <1>3, NormalizeNormal
<1> QED
  BY <1>2, <1>4, <1>5

-----------------------------------------------------------------------------
(* Prefixes.                                                               *)

\* IsPrefix(), element by element.
Begins(a, b) == Len(a) <= Len(b) /\ \A i \in 1..Len(a) : a[i] = b[i]

LEMMA PrefixIn ==
  ASSUME NEW S, NEW a \in Seq(S), NEW b \in Seq(S)
  PROVE  IsPrefix(a, b) <=> Begins(a, b)
<1>1. CASE Len(a) <= Len(b)
  <2>1. SubSeq(a, 1, Len(a)) = [i \in 1..Len(a) |-> a[i]]
    OBVIOUS
  <2>2. SubSeq(b, 1, Len(a)) = [i \in 1..Len(a) |-> b[i]]
    BY <1>1
  <2> QED
    BY <1>1, <2>1, <2>2 DEF IsPrefix, Begins
<1>2. CASE ~(Len(a) <= Len(b))
  BY <1>2 DEF IsPrefix, Begins
<1> QED
  BY <1>1, <1>2

LEMMA PrefixIs ==
  ASSUME NEW a \in Path, NEW b \in Path
  PROVE  IsPrefix(a, b) <=> Len(a) <= Len(b) /\ \A i \in 1..Len(a) : a[i] = b[i]
BY PrefixIn DEF Path, Begins

LEMMA PrefixItself ==
  ASSUME NEW a \in Path
  PROVE  IsPrefix(a, a) /\ IsPrefix(<<>>, a)
<1>1. <<>> \in Path /\ Len(<<>>) = 0 /\ Len(a) \in Nat
  BY DEF Path
<1> QED
  BY <1>1, PrefixIs

LEMMA PrefixThrough ==
  ASSUME NEW a \in Path, NEW b \in Path, NEW c \in Path, IsPrefix(a, b), IsPrefix(b, c)
  PROVE  IsPrefix(a, c)
<1>1. Len(a) \in Nat /\ Len(b) \in Nat /\ Len(c) \in Nat
  BY DEF Path
<1>2. Len(a) <= Len(b) /\ \A i \in 1..Len(a) : a[i] = b[i]
  BY PrefixIs
<1>3. Len(b) <= Len(c) /\ \A i \in 1..Len(b) : b[i] = c[i]
  BY PrefixIs
<1>4. ASSUME NEW i \in 1..Len(a) PROVE a[i] = c[i]
  <2>1. i \in 1..Len(b)
    BY <1>1, <1>2
  <2> QED
    BY <1>2, <1>3, <2>1
<1>5. Len(a) <= Len(c)
  BY <1>1, <1>2, <1>3
<1> QED
  BY <1>4, <1>5, PrefixIs

LEMMA PrefixSame ==
  ASSUME NEW a \in Path, NEW b \in Path, IsPrefix(a, b), Len(a) >= Len(b)
  PROVE  a = b
<1>1. Len(a) \in Nat /\ Len(b) \in Nat
  BY DEF Path
<1>2. Len(a) = Len(b) /\ \A i \in 1..Len(a) : a[i] = b[i]
  BY <1>1, PrefixIs
<1> QED
  BY <1>2, SeqEqual DEF Path

\* The directory above a path.
LEMMA FrontPrefix ==
  ASSUME NEW a \in Path, a # <<>>
  PROVE  Front(a) \in Path /\ IsPrefix(Front(a), a) /\ Len(Front(a)) = Len(a) - 1 /\ Len(a) \in Nat \ {0}
<1>1. /\ Front(a) \in Path /\ Len(Front(a)) = Len(a) - 1
      /\ \A i \in 1..(Len(a) - 1) : Front(a)[i] = a[i]
  BY FrontOf DEF Path
<1>2. Len(a) \in Nat \ {0}
  BY EmptySeq, LenProperties DEF Path
<1> QED
  BY <1>1, <1>2, PrefixIs

\* What is above a path, and not the path, is above the directory above it.
LEMMA PrefixOfFront ==
  ASSUME NEW a \in Path, NEW b \in Path, IsPrefix(a, b), a # b
  PROVE  b # <<>> /\ IsPrefix(a, Front(b))
<1>1. Len(a) \in Nat /\ Len(b) \in Nat
  BY DEF Path
<1>2. Len(a) <= Len(b) /\ \A i \in 1..Len(a) : a[i] = b[i]
  BY PrefixIs
<1>3. Len(a) < Len(b)
  BY <1>1, <1>2, PrefixSame
<1>4. b # <<>>
  BY <1>1, <1>3
<1>5. /\ Front(b) \in Path /\ Len(Front(b)) = Len(b) - 1
      /\ \A i \in 1..(Len(b) - 1) : Front(b)[i] = b[i]
  BY <1>4, FrontOf DEF Path
<1>6. Len(a) <= Len(b) - 1 /\ \A i \in 1..Len(a) : i \in 1..(Len(b) - 1)
  BY <1>1, <1>3
<1>7. \A i \in 1..Len(a) : a[i] = Front(b)[i]
  BY <1>2, <1>5, <1>6
<1> QED
  BY <1>4, <1>5, <1>6, <1>7, PrefixIs

\* The first n components of a path.
LEMMA Beginning ==
  ASSUME NEW a \in Path, NEW n \in 1..Len(a)
  PROVE  /\ SubSeq(a, 1, n) \in Path \ {<<>>} /\ Len(SubSeq(a, 1, n)) = n
         /\ IsPrefix(SubSeq(a, 1, n), a)
<1>1. Len(a) \in Nat
  BY DEF Path
<1>2. SubSeq(a, 1, n) = [i \in 1..n |-> a[i]] /\ n \in Nat \ {0}
  BY <1>1 DEF Path
<1>3. \A i \in 1..n : a[i] \in Component
  BY <1>1 DEF Path
<1>4. SubSeq(a, 1, n) \in Path /\ Len(SubSeq(a, 1, n)) = n
  BY <1>2, <1>3 DEF Path
<1>5. SubSeq(a, 1, n) # <<>>
  BY <1>2, <1>4
<1>6. n <= Len(a) /\ \A i \in 1..n : SubSeq(a, 1, n)[i] = a[i]
  BY <1>1, <1>2
<1>7. IsPrefix(SubSeq(a, 1, n), a)
  BY <1>4, <1>6, PrefixIs
<1> QED
  BY <1>4, <1>5, <1>7

-----------------------------------------------------------------------------
(* The places of the files.                                                *)

\* A path without ".." leads straight down.
LEMMA FollowDown ==
  ASSUME NEW start \in Trail, NEW d \in Seq(Plain(Word)), \A j \in 1..Len(d) : d[j] # ".."
  PROVE  Follow(start, d) = start \o d
<1>1. d \in Trail
  BY WordIs
<1>2. PICK g : Along(start, d, g) /\ Follow(start, d) = g[Len(d)]
  BY <1>1, FollowIs
<1> DEFINE S == {n \in 0..Len(d) : /\ Len(g[n]) = Len(start) + n
                                   /\ \A i \in 1..Len(start) : g[n][i] = start[i]
                                   /\ \A i \in 1..n : g[n][Len(start) + i] = d[i]}
<1>3. start \in Seq(Word) /\ Len(start) \in Nat /\ Len(d) \in Nat
  BY LenProperties DEF Trail
<1>4. g[0] = start /\ \A n \in 0..Len(d) : g[n] \in Seq(Word)
  BY <1>2 DEF Along, Trail
<1>5. 0 \in S
  BY <1>3, <1>4
<1>6. ASSUME NEW n \in 1..Len(d), n - 1 \in S PROVE n \in S
  <2>1. n - 1 \in 0..Len(d) /\ n \in 0..Len(d)
    BY <1>3
  <2>2. PICK a, b : a = g[n - 1] /\ b = g[n]
    OBVIOUS
  <2>3. d[n] \in Plain(Word) /\ d[n] # ".."
    BY ElementOfSeq
  <2>4. d[n] \in Word
    BY <2>3, WordIs
  <2>5. b = Append(a, d[n])
    <3>1. b = Through(a, d[n])
      BY <1>2, <2>2 DEF Along
    <3>2. d[n] \notin {"", ".", ".."}
      BY <2>3 DEF Plain
    <3> QED
      BY <3>1, <3>2 DEF Through
  <2>6. a \in Seq(Word) /\ b \in Seq(Word)
    BY <1>4, <2>1, <2>2
  <2>7. /\ Len(a) = Len(start) + (n - 1)
        /\ \A i \in 1..Len(start) : a[i] = start[i]
        /\ \A i \in 1..(n - 1) : a[Len(start) + i] = d[i]
    BY <1>6, <2>2
  <2>8. /\ Len(b) = Len(a) + 1
        /\ \A i \in 1..Len(a) : b[i] = a[i]
        /\ b[Len(a) + 1] = d[n]
    BY <2>4, <2>5, <2>6, AppendProperties
  <2>9. Len(b) = Len(start) + n
    BY <1>3, <2>1, <2>7, <2>8
  <2>10. \A i \in 1..Len(start) : b[i] = start[i]
    <3>1. \A i \in 1..Len(start) : i \in 1..Len(a)
      BY <1>3, <2>1, <2>7
    <3> QED
      BY <2>7, <2>8, <3>1
  <2>11. \A i \in 1..n : b[Len(start) + i] = d[i]
    <3>1. ASSUME NEW i \in 1..(n - 1) PROVE b[Len(start) + i] = d[i]
      <4>1. Len(start) + i \in 1..Len(a)
        BY <1>3, <2>1, <2>7
      <4> QED
        BY <2>7, <2>8, <4>1
    <3>2. b[Len(start) + n] = d[n]
      <4>1. Len(a) + 1 = Len(start) + n
        BY <1>3, <2>1, <2>7
      <4> QED
        BY <2>8, <4>1
    <3>3. \A i \in 1..n : i \in 1..(n - 1) \/ i = n
      BY <2>1
    <3> QED
      BY <3>1, <3>2, <3>3
  <2> QED
    BY <2>1, <2>2, <2>9, <2>10, <2>11
<1>7. 0..Len(d) \subseteq S
  <2> HIDE DEF S
  <2> QED
    BY <1>3, <1>5, <1>6, UpTo
<1>8. PICK a : a = g[Len(d)]
  OBVIOUS
<1>9. PICK b : b = start \o d
  OBVIOUS
<1>10. Len(d) \in 0..Len(d)
  BY <1>3
<1>11. /\ a \in Seq(Word) /\ Len(a) = Len(start) + Len(d)
       /\ \A i \in 1..Len(start) : a[i] = start[i]
       /\ \A i \in 1..Len(d) : a[Len(start) + i] = d[i]
  BY <1>4, <1>7, <1>8, <1>10
<1>12. /\ b \in Seq(Word) /\ Len(b) = Len(start) + Len(d)
       /\ \A i \in 1..Len(start) : b[i] = start[i]
       /\ \A i \in 1..Len(d) : b[Len(start) + i] = d[i]
  <2>1. d \in Seq(Word)
    BY <1>1 DEF Trail
  <2> QED
    BY <1>3, <1>9, <2>1, ConcatProperties
<1>13. \A i \in 1..Len(a) : a[i] = b[i]
  <2>1. ASSUME NEW i \in 1..Len(a) PROVE a[i] = b[i]
    <3>1. i \in 1..Len(start) \/ i - Len(start) \in 1..Len(d)
      BY <1>3, <1>11
    <3>2. CASE i \in 1..Len(start)
      BY <1>11, <1>12, <3>2
    <3>3. CASE i - Len(start) \in 1..Len(d)
      <4>1. i \in Nat
        BY <1>3, <1>11
      <4>2. PICK k : k = i - Len(start)
        OBVIOUS
      <4>3. k \in 1..Len(d) /\ i = Len(start) + k
        BY <1>3, <3>3, <4>1, <4>2
      <4> QED
        BY <1>11, <1>12, <4>3
    <3> QED
      BY <3>1, <3>2, <3>3
  <2> QED
    BY <2>1
<1>14. a = b
  BY <1>11, <1>12, <1>13, SeqEqual
<1> QED
  BY <1>2, <1>8, <1>9, <1>14

\* From so deep that a path comes above the directory where it started: it is
\* above, or it went another way.
Astray(at, n) == Len(at) < n \/ \E j \in 1..n : j <= Len(at) /\ at[j] # ".name"

LEMMA FollowUp ==
  ASSUME NEW n \in Nat \ {0}, NEW d \in Seq(Plain(Word)), NormalForm(FALSE, d),
         \A j \in 1..Len(d) : d[j] # ".name",
         d # <<>>, d[1] = ".."
  PROVE  Follow(Below(n), d) \in Seq(Word) /\ Astray(Follow(Below(n), d), n)
<1>1. d \in Trail /\ Below(n) \in Trail
  BY WordIs, BelowIs
<1>2. PICK g : Along(Below(n), d, g) /\ Follow(Below(n), d) = g[Len(d)]
  BY <1>1, FollowIs
<1>3. Len(d) \in Nat \ {0}
  BY EmptySeq, LenProperties
<1>4. g[0] = Below(n) /\ \A m \in 0..Len(d) : g[m] \in Seq(Word)
  BY <1>2 DEF Along, Trail
<1> DEFINE S == {m \in 0..Len(d) : m # 0 => (Astray(g[m], n) /\ (d[m] = ".." => Len(g[m]) < n))}
<1>5. 0 \in S
  BY <1>3
<1>6. ASSUME NEW m \in 1..Len(d), m - 1 \in S PROVE m \in S
  <2>1. m - 1 \in 0..Len(d) /\ m \in 0..Len(d)
    BY <1>3
  <2>2. PICK a, b, c : a = g[m - 1] /\ b = g[m] /\ c = d[m]
    OBVIOUS
  <2>10. m - 1 # 0 => Astray(a, n) /\ (d[m - 1] = ".." => Len(a) < n)
    <3>1. m - 1 # 0 => Astray(g[m - 1], n) /\ (d[m - 1] = ".." => Len(g[m - 1]) < n)
      BY <1>6
    <3> QED
      BY <2>2, <3>1, Zenon
  <2>3. a \in Seq(Word) /\ b \in Seq(Word) /\ b = Through(a, c)
    BY <1>2, <1>4, <2>1, <2>2 DEF Along
  <2>4. c \in Plain(Word) /\ c \in Word
    BY <2>2, ElementOfSeq, WordIs
  <2>5. CASE c = ".."
    <3>1. Len(a) <= n
      <4>1. CASE m = 1
        <5>1. a = Below(n)
          BY <1>4, <2>2, <4>1
        <5> QED
          BY <5>1 DEF Below
      <4>2. CASE m # 1
        <5>1. m - 1 \in 1..m /\ m - 1 # 0
          BY <1>3, <4>2
        <5>2. d[m - 1] = ".."
          BY <2>2, <2>5, <5>1 DEF NormalForm
        <5> QED
          <6>1. Len(a) < n
            BY <2>10, <5>1, <5>2, Zenon
          <6>2. Len(a) \in Nat
            BY <2>3, LenProperties
          <6> QED
            BY <6>1, <6>2
      <4> QED
        BY <4>1, <4>2
    <3>2. Len(b) < n
      <4>1. CASE a = <<>>
        <5>1. b = <<>>
          BY <2>3, <2>5, <4>1 DEF Through
        <5> QED
          BY <5>1
      <4>2. CASE a # <<>>
        <5>1. b = Front(a)
          BY <2>3, <2>5, <4>2 DEF Through
        <5> QED
          BY <2>3, <3>1, <4>2, <5>1, FrontOf, LenProperties
      <4> QED
        BY <4>1, <4>2
    <3> QED
      BY <2>1, <2>2, <3>2 DEF Astray
  <2>6. CASE c # ".."
    <3>1. b = Append(a, c)
      <4>1. c \notin {"", ".", ".."}
        BY <2>4, <2>6 DEF Plain
      <4> QED
        BY <2>3, <4>1 DEF Through
    <3>2. m # 1
      BY <2>2, <2>6
    <3>3. m - 1 # 0
      BY <1>3, <3>2
    <3>4. Astray(a, n)
      BY <2>10, <3>3, Zenon
    <3>5. Len(b) = Len(a) + 1 /\ b[Len(a) + 1] = c /\ \A i \in 1..Len(a) : b[i] = a[i]
      BY <2>3, <2>4, <3>1, AppendProperties
    <3>6. c # ".name"
      BY <2>2
    <3>7. Len(a) \in Nat
      BY <2>3, LenProperties
    <3>8. CASE Len(a) < n
      <4>1. Len(a) + 1 \in 1..n /\ Len(a) + 1 <= Len(b)
        BY <3>5, <3>7, <3>8
      <4> QED
        BY <2>1, <2>2, <2>6, <3>5, <3>6, <4>1 DEF Astray
    <3>9. CASE \E j \in 1..n : j <= Len(a) /\ a[j] # ".name"
      <4>1. PICK j \in 1..n : j <= Len(a) /\ a[j] # ".name"
        BY <3>9
      <4>2. j \in 1..Len(a) /\ j <= Len(b)
        BY <3>5, <3>7, <4>1
      <4>3. b[j] # ".name"
        BY <3>5, <4>1, <4>2
      <4> QED
        BY <2>1, <2>2, <2>6, <4>2, <4>3 DEF Astray
    <3> QED
      BY <3>4, <3>8, <3>9 DEF Astray
  <2> QED
    BY <2>5, <2>6
<1>7. 0..Len(d) \subseteq S
  <2> HIDE DEF S
  <2> QED
    BY <1>3, <1>5, <1>6, UpTo
<1>8. Len(d) \in 0..Len(d) /\ Len(d) # 0
  BY <1>3
<1>9. Len(d) \in S
  BY <1>7, <1>8
<1>10. Astray(g[Len(d)], n)
  BY <1>8, <1>9
<1> QED
  BY <1>2, <1>4, <1>8, <1>10, Zenon

\* What follows the same beginning.
LEMMA SameBeginning ==
  ASSUME NEW S, NEW c \in Seq(S), NEW a \in Seq(S), NEW b \in Seq(S)
  PROVE  /\ IsPrefix(c \o a, c \o b) <=> IsPrefix(a, b)
         /\ c \o a = c \o b => a = b
         /\ IsPrefix(c, c \o a) /\ (c \o a = c <=> a = <<>>)
<1>1. Len(a) \in Nat /\ Len(b) \in Nat /\ Len(c) \in Nat
  BY LenProperties
<1>2. PICK ca, cb : ca = c \o a /\ cb = c \o b
  OBVIOUS
<1>3. /\ ca \in Seq(S) /\ Len(ca) = Len(c) + Len(a)
      /\ \A i \in 1..Len(c) : ca[i] = c[i]
      /\ \A i \in 1..Len(a) : ca[Len(c) + i] = a[i]
  BY <1>1, <1>2, ConcatProperties
<1>4. /\ cb \in Seq(S) /\ Len(cb) = Len(c) + Len(b)
      /\ \A i \in 1..Len(c) : cb[i] = c[i]
      /\ \A i \in 1..Len(b) : cb[Len(c) + i] = b[i]
  BY <1>1, <1>2, ConcatProperties
<1>5. ASSUME Len(a) <= Len(b)
      PROVE  (\A i \in 1..Len(ca) : ca[i] = cb[i]) <=> (\A i \in 1..Len(a) : a[i] = b[i])
  <2>1. ASSUME \A i \in 1..Len(ca) : ca[i] = cb[i], NEW i \in 1..Len(a)
        PROVE  a[i] = b[i]
    <3>1. i \in 1..Len(b) /\ Len(c) + i \in 1..Len(ca)
      BY <1>1, <1>3, <1>5
    <3> QED
      BY <1>3, <1>4, <2>1, <3>1
  <2>2. ASSUME \A i \in 1..Len(a) : a[i] = b[i], NEW i \in 1..Len(ca)
        PROVE  ca[i] = cb[i]
    <3>1. CASE i \in 1..Len(c)
      BY <1>3, <1>4, <3>1
    <3>2. CASE i \notin 1..Len(c)
      <4>1. PICK k : k = i - Len(c)
        OBVIOUS
      <4>2. i \in Nat
        BY <1>1, <1>3
      <4>3. k \in 1..Len(a) /\ k \in 1..Len(b) /\ i = Len(c) + k
        BY <1>1, <1>3, <1>5, <3>2, <4>1, <4>2
      <4> QED
        BY <1>3, <1>4, <2>2, <4>3
    <3> QED
      BY <3>1, <3>2
  <2> QED
    BY <2>1, <2>2
<1>6. Len(ca) <= Len(cb) <=> Len(a) <= Len(b)
  BY <1>1, <1>3, <1>4
<1>7. IsPrefix(ca, cb) <=> IsPrefix(a, b)
  <2>1. IsPrefix(ca, cb) <=> Begins(ca, cb)
    BY <1>3, <1>4, PrefixIn
  <2>2. IsPrefix(a, b) <=> Begins(a, b)
    BY PrefixIn
  <2>3. Begins(ca, cb) <=> Begins(a, b)
    BY <1>5, <1>6, Zenon DEF Begins
  <2> QED
    BY <2>1, <2>2, <2>3, Zenon
<1>8. ca = cb => a = b
  <2>1. SUFFICES ASSUME ca = cb PROVE a = b
    OBVIOUS
  <2>2. Len(a) = Len(b)
    BY <1>1, <1>3, <1>4, <2>1
  <2>3. \A i \in 1..Len(a) : a[i] = b[i]
    BY <1>1, <1>5, <2>1, <2>2
  <2> QED
    BY <2>2, <2>3, SeqEqual
<1>9. IsPrefix(c, ca)
  <2>1. Len(c) <= Len(ca) /\ \A i \in 1..Len(c) : c[i] = ca[i]
    BY <1>1, <1>3
  <2> QED
    BY <1>3, <2>1, PrefixIn DEF Begins
<1>10. ca = c <=> a = <<>>
  <2>1. ca = c => Len(a) = 0
    BY <1>1, <1>3
  <2>2. Len(a) = 0 => a = <<>>
    BY EmptySeq
  <2>3. a = <<>> => ca = c
    BY <1>2, ConcatEmptySeq
  <2> QED
    BY <2>1, <2>2, <2>3
<1> QED
  BY <1>2, <1>7, <1>8, <1>9, <1>10

\* A path that was led astray is not in the directory.
LEMMA AstrayIsOutside ==
  ASSUME NEW n \in Nat, NEW at \in Seq(Word), Astray(at, n)
  PROVE  ~IsPrefix(Below(n), at)
<1>1. PICK c : c = Below(n)
  OBVIOUS
<1>2. c \in Seq(Word) /\ Len(c) = n /\ \A i \in 1..n : c[i] = ".name"
  <2>1. c \in Seq(Word)
    BY <1>1, BelowIs DEF Trail
  <2> QED
    BY <1>1, <2>1 DEF Below
<1>3. SUFFICES ASSUME IsPrefix(c, at)
               PROVE  FALSE
  BY <1>1
<1>4. Len(c) <= Len(at) /\ \A i \in 1..Len(c) : c[i] = at[i]
  BY <1>2, <1>3, PrefixIn DEF Begins
<1>5. Len(at) \in Nat
  BY LenProperties
<1>6. CASE Len(at) < n
  BY <1>2, <1>4, <1>5, <1>6
<1>7. CASE \E j \in 1..n : j <= Len(at) /\ at[j] # ".name"
  BY <1>2, <1>4, <1>7
<1> QED
  BY <1>6, <1>7 DEF Astray

\* What is left of a path has no "..", or it begins with one.
Down(l) == \A j \in 1..Len(l) : l[j] # ".."

LEMMA LeftEmpty == Left(<<NoName>>) = <<>>
<1>1. PICK c, none : c = NoName /\ none = <<>>
  OBVIOUS
<1>2. PICK W, X : W = {c} /\ X = {none}
  OBVIOUS
<1>3. PICK v \in W, n \in X : v = c /\ n = none
  BY <1>2
<1>4. PICK p \in Seq(W) : p = <<v>>
  BY OneOf, Zenon
<1>5. Len(p) = 1 /\ p[1] = v
  BY <1>4, OneOf
<1>6. \A abs : \A d \in X, w \in W : Joined(abs, d, w) \in X
  <2>1. \A abs, d : Joined(abs, d, c) = d
    BY <1>1, Zenon DEF Joined, NoName
  <2> QED
    BY <1>2, <2>1
<1>7. \A abs : Joins(abs, n, p) \in X
  BY <1>6, JoinsIn
<1>8. Single(p) = p
  <2>1. ~(1 > 2)
    OBVIOUS
  <2>2. ~(Len(p) > 2)
    BY <1>5, <2>1, Zenon
  <2> QED
    BY <2>2, SlashIs DEF Single
<1>9. Left(p) \in X
  BY <1>1, <1>3, <1>7, <1>8 DEF Left
<1> QED
  BY <1>1, <1>2, <1>3, <1>4, <1>9

\* create() takes what is left of the path, where something is.
LEMMA RelativeIs ==
  ASSUME NEW path \in Path, ~IsSpoilt(path), Left(path) # <<>>
  PROVE  Relative(path) = Left(path)
<1>1. PICK l, n : l = Left(path) /\ n = normalize(path)
  OBVIOUS
<1>2. l \in Seq(Plain(Component)) /\ l # <<>>
  BY <1>1, LeftNames
<1>3. path # <<"">>
  <2>1. path # <<NoName>>
    BY LeftEmpty
  <2> QED
    BY <2>1, Zenon DEF NoName
<1>4. n = IF HasSlash(path) THEN Rooted(l) ELSE Spelled(l)
  BY <1>1, <1>3, NormalizeIs DEF Path
<1>5. HasSlash(n) <=> HasSlash(path)
  BY <1>1, WordIs, NormalizeLeads
<1>6. CASE HasSlash(path)
  <2>1. l \in Seq(Component)
    BY <1>2, PlainIs
  <2>2. Tail(Rooted(l)) = l
    BY <1>2, <2>1, ComponentIs, RootedIs
  <2> QED
    BY <1>1, <1>4, <1>5, <1>6, <2>2 DEF Relative
<1>7. CASE ~HasSlash(path)
  <2>1. Spelled(l) = l
    BY <1>2, Zenon DEF Spelled
  <2> QED
    BY <1>1, <1>4, <1>5, <1>7, <2>1 DEF Relative
<1> QED
  BY <1>6, <1>7

\* And finds it simple unless there is a ".." inside of it.
LEMMA SimpleIs ==
  ASSUME NEW l \in Seq(Plain(Component)), l # <<>>
  PROVE  is_simple(l) <=> \A i \in 2..(Len(l) - 1) : l[i] # ".."
<1>1. /\ \A j \in 1..Len(l) : l[j] # NoName /\ l[j] # "."
      /\ ~HasSlash(l) /\ l # <<NoName>>
  BY PlainIs
<1>2. Len(l) \in Nat \ {0}
  BY EmptySeq, LenProperties
<1>3. l[1] # "." /\ \A i \in 2..(Len(l) - 1) : l[i] # "."
  <2>1. 1 \in 1..Len(l) /\ \A i \in 2..(Len(l) - 1) : i \in 1..Len(l)
    BY <1>2
  <2> QED
    BY <1>1, <2>1
<1>4. Last(l) # NoName /\ Last(l) # "."
  <2>1. Len(l) \in 1..Len(l) /\ Last(l) = l[Len(l)]
    BY <1>2 DEF Last
  <2> QED
    BY <1>1, <2>1
<1> QED
  BY <1>1, <1>3, <1>4, Zenon DEF is_simple, NoName

\* The directories above the one the files are in.
LEMMA BelowNext ==
  ASSUME NEW m \in Nat
  PROVE  Below(m + 1) # <<>> /\ Front(Below(m + 1)) = Below(m)
<1>1. Below(m) \in Seq(Word) /\ ".name" \in Word
  BY BelowIs, WordsAre DEF Trail
<1>2. PICK a, b : a = Below(m) /\ b = Append(a, ".name")
  OBVIOUS
<1>3. a \in Seq(Word) /\ Len(a) = m /\ \A i \in 1..m : a[i] = ".name"
  BY <1>1, <1>2 DEF Below
<1>4. b \in Seq(Word) /\ Len(b) = m + 1 /\ b[m + 1] = ".name" /\ \A i \in 1..m : b[i] = ".name"
  BY <1>1, <1>2, <1>3, AppendProperties
<1>5. PICK c : c = Below(m + 1)
  OBVIOUS
<1>6. c \in Seq(Word) /\ Len(c) = m + 1 /\ \A i \in 1..(m + 1) : c[i] = ".name"
  BY <1>1, <1>5 DEF Below
<1>7. \A i \in 1..(m + 1) : i \in 1..m \/ i = m + 1
  OBVIOUS
<1>8. b = c
  BY <1>4, <1>6, <1>7, SeqEqual
<1>9. b # <<>> /\ Front(b) = a
  BY <1>1, <1>2, <1>3, FrontAppend
<1> QED
  BY <1>2, <1>5, <1>8, <1>9

LEMMA AboveIs ==
  /\ Base \in Trail /\ Above(1) \in Trail
  /\ Through(Base, "..") = Above(1) /\ Through(Above(1), "..") = Above(2)
  /\ IsPrefix(Above(1), Base)
<1>1. MaxComponents \in Nat \ {0}
  BY FileTreeAssumption
<1>2. PICK m \in Nat : MaxComponents = m + 1
  BY <1>1
<1>3. Base = Below(m + 1) /\ Above(1) = Below(m)
  <2>1. MaxComponents - 1 = m
    BY <1>2
  <2> QED
    BY <1>2, <2>1 DEF Base, Above
<1>4. Base \in Trail /\ Above(1) \in Trail
  BY <1>3, BelowIs
<1>5. Base # <<>> /\ Front(Base) = Above(1)
  BY <1>3, BelowNext
<1>6. Through(Above(1), "..") = Above(2)
  <2>1. MaxComponents - 2 = m - 1
    BY <1>2
  <2>2. Above(2) = Below(m - 1)
    BY <2>1 DEF Above
  <2>3. CASE m = 0
    <3>1. Below(m) = <<>>
      <4>1. Below(m) \in Seq(Word) /\ Len(Below(m)) = 0
        <5>1. Len(Below(m)) = 0
          BY <2>3 DEF Below
        <5> QED
          BY <1>3, <1>4, <5>1 DEF Trail
      <4> QED
        BY <4>1, EmptySeq
    <3>2. Below(m - 1) = Below(m)
      <4>1. 1..(m - 1) = 1..m
        BY <2>3
      <4> QED
        BY <4>1 DEF Below
    <3> QED
      BY <1>3, <2>2, <3>1, <3>2 DEF Through
  <2>4. CASE m # 0
    <3>1. PICK k \in Nat : m = k + 1
      BY <2>4
    <3>2. m - 1 = k
      BY <3>1
    <3>3. Below(m) # <<>> /\ Front(Below(m)) = Below(k)
      BY <3>1, BelowNext
    <3> QED
      BY <1>3, <2>2, <3>2, <3>3 DEF Through
  <2> QED
    BY <2>3, <2>4
<1>7. IsPrefix(Above(1), Base)
  <2>1. PICK a, b : a = Above(1) /\ b = Base
    OBVIOUS
  <2>2. a \in Seq(Word) /\ b \in Seq(Word) /\ Len(a) = Len(b) - 1 /\ \A i \in 1..(Len(b) - 1) : a[i] = b[i]
    BY <1>4, <1>5, <2>1, FrontOf DEF Trail
  <2>3. Len(a) <= Len(b)
    BY <2>2, LenProperties
  <2> QED
    BY <2>1, <2>2, <2>3, PrefixIn DEF Begins
<1> QED
  BY <1>4, <1>5, <1>6, <1>7 DEF Through

\* The place of a path is inside of the directory exactly when something is left
\* of the path, and no "..": there it is where the tree has it.
LEMMA PlaceIs ==
  ASSUME NEW path \in Path, ~IsSpoilt(path)
  PROVE  LET l == Left(path)
         IN  /\ Place(path) \in Seq(Word)
             /\ IsStrictPrefix(Base, Place(path)) <=> l # <<>> /\ Down(l)
             /\ Down(l) => Place(path) = Base \o l
             /\ ~Down(l) => ~HasSlash(path) /\ Place(path) = Follow(Base, l)
<1>1. PICK l : l = Left(path)
  OBVIOUS
<1>2. path \in Trail /\ Base \in Trail
  BY WordIs, AboveIs
<1>3. /\ NormalForm(HasSlash(path), l) /\ l \in Seq(Plain(Word)) /\ l \in Seq(Word)
      /\ \A s \in Trail : (HasSlash(path) => s = <<>>) => Follow(s, l) = Follow(s, path)
  BY <1>1, <1>2, EmptyTrail, LeftLeads DEF Trail
<1>4. CASE Down(l)
  <2>1. Place(path) = Base \o l
    <3>1. CASE HasSlash(path)
      <4>1. Follow(<<>>, path) = Follow(<<>>, l)
        BY <1>3, EmptyTrail
      <4>2. Follow(<<>>, l) = <<>> \o l
        BY <1>3, <1>4, EmptyTrail, FollowDown DEF Down
      <4>3. <<>> \o l = l
        BY <1>3, ConcatEmptySeq
      <4> QED
        BY <3>1, <4>1, <4>2, <4>3 DEF Place, Goto
    <3>2. CASE ~HasSlash(path)
      <4>1. Follow(Base, path) = Follow(Base, l)
        BY <1>2, <1>3, <3>2
      <4>2. Follow(Base, l) = Base \o l
        BY <1>2, <1>3, <1>4, FollowDown DEF Down
      <4> QED
        BY <3>2, <4>1, <4>2 DEF Place, Goto
    <3> QED
      BY <3>1, <3>2
  <2>2. PICK b \in Seq(Word) : b = Base
    BY <1>2 DEF Trail
  <2>3. b \o l \in Seq(Word) /\ IsPrefix(b, b \o l) /\ (b \o l = b <=> l = <<>>)
    BY <1>3, ConcatIs, SameBeginning
  <2> QED
    BY <1>1, <1>4, <2>1, <2>2, <2>3 DEF IsStrictPrefix
<1>5. CASE ~Down(l)
  <2>1. PICK j \in 1..Len(l) : l[j] = ".."
    BY <1>5 DEF Down
  <2>2. ~HasSlash(path) /\ l[1] = ".."
    <3>1. 1 \in 1..j
      BY <1>3, LenProperties
    <3> QED
      BY <1>3, <2>1, <3>1 DEF NormalForm
  <2>3. l # <<>>
    BY <1>3, <2>1
  <2>4. \A i \in 1..Len(l) : l[i] # ".name"
    <3>1. l \in Seq(Plain(Component))
      BY <1>1, LeftNames
    <3>2. ".name" \notin Component
      BY FileTreeAssumption DEF Component
    <3>3. \A i \in 1..Len(l) : l[i] \in Component
      BY <3>1, PlainIs
    <3> QED
      BY <3>2, <3>3
  <2>5. NormalForm(FALSE, l)
    BY <1>3, <2>2 DEF NormalForm
  <2>6. MaxComponents \in Nat \ {0}
    BY FileTreeAssumption
  <2>7. Follow(Base, l) \in Seq(Word) /\ Astray(Follow(Base, l), MaxComponents)
    BY <1>3, <2>2, <2>3, <2>4, <2>5, <2>6, FollowUp DEF Base
  <2>8. Place(path) = Follow(Base, l)
    BY <1>2, <1>3, <2>2 DEF Place, Goto
  <2>9. ~IsPrefix(Base, Place(path))
    BY <2>6, <2>7, <2>8, AstrayIsOutside DEF Base
  <2> QED
    BY <1>1, <1>5, <2>2, <2>7, <2>8, <2>9 DEF IsStrictPrefix
<1> QED
  BY <1>4, <1>5

\* What is simple leads at most to the directory above the one above.
LEMMA SimpleLeads ==
  ASSUME NEW path \in Path, ~IsSpoilt(path), is_simple(Relative(path))
  PROVE  IsPrefix(Above(1), Place(path)) \/ Place(path) = Above(2)
<1>1. PICK l, b, a : l = Left(path) /\ b = Base /\ a = Above(1)
  OBVIOUS
<1>2. b \in Seq(Word) /\ a \in Seq(Word) /\ b \in Trail /\ a \in Trail /\ IsPrefix(a, b)
  BY <1>1, AboveIs DEF Trail
<1>3. l \in Seq(Plain(Component)) /\ l \in Seq(Plain(Word)) /\ l \in Seq(Word) /\ NormalForm(HasSlash(path), l)
  BY <1>1, WordIs, EmptyTrail, LeftNames, LeftLeads DEF Trail
<1>4. CASE Down(l)
  <2>1. PICK p : p = b \o l
    OBVIOUS
  <2>2. p = Place(path)
    BY <1>1, <1>4, <2>1, PlaceIs
  <2>3. p \in Seq(Word) /\ IsPrefix(b, p)
    BY <1>2, <1>3, <2>1, ConcatIs, SameBeginning
  <2>4. Begins(a, b) /\ Begins(b, p)
    BY <1>2, <2>3, PrefixIn
  <2>5. Begins(a, p)
    <3>1. Len(a) \in Nat /\ Len(b) \in Nat /\ Len(p) \in Nat
      BY <1>2, <2>3, LenProperties
    <3>2. \A i \in 1..Len(a) : i \in 1..Len(b)
      BY <2>4, <3>1 DEF Begins
    <3> QED
      BY <2>4, <3>1, <3>2 DEF Begins
  <2> QED
    BY <1>1, <1>2, <2>2, <2>3, <2>5, PrefixIn
<1>5. CASE ~Down(l)
  <2>1. PICK up \in Word : up = ".."
    BY WordsAre
  <2>2. l # <<>> /\ l[1] = up /\ Len(l) \in Nat \ {0}
    <3>1. PICK j \in 1..Len(l) : l[j] = ".."
      BY <1>5 DEF Down
    <3>2. 1 \in 1..j /\ Len(l) \in Nat \ {0}
      BY <1>3, LenProperties
    <3>3. l # <<>>
      BY <3>2
    <3> QED
      BY <1>3, <2>1, <3>1, <3>2, <3>3 DEF NormalForm
  <2>3. \A i \in 2..(Len(l) - 1) : l[i] # up
    <3>1. Relative(path) = l
      BY <1>1, <2>2, RelativeIs
    <3> QED
      BY <1>3, <2>1, <2>2, <3>1, SimpleIs
  <2>4. Place(path) = Follow(b, l)
    BY <1>1, <1>5, PlaceIs
  <2>5. PICK f, t : f = <<up>> /\ t = Tail(l)
    OBVIOUS
  <2>6. t \in Seq(Plain(Word)) /\ Len(t) = Len(l) - 1 /\ \A i \in 1..(Len(l) - 1) : t[i] = l[i + 1]
    BY <1>3, <2>2, <2>5, TailOf
  <2>7. t \in Seq(Word) /\ t \in Trail
    BY <2>6, WordIs DEF Trail
  <2>8. f \in Seq(Word) /\ f \in Trail /\ Len(f) = 1 /\ f[1] = up /\ \A s \in Trail : Follow(s, f) = Through(s, up)
    BY <2>5, OneIs DEF Trail
  <2>9. l = f \o t
    BY <1>3, <2>2, <2>5, HeadTailIs
  <2>10. Follow(b, l) = Follow(a, t)
    <3>1. Follow(b, f \o t) = Follow(Follow(b, f), t)
      BY <1>2, <2>7, <2>8, FollowConcat
    <3>2. Follow(b, f) = a
      BY <1>1, <1>2, <2>1, <2>8, AboveIs
    <3> QED
      BY <2>9, <3>1, <3>2
  <2>11. CASE Down(t)
    <3>1. Follow(a, t) = a \o t
      BY <1>2, <2>6, <2>11, FollowDown DEF Down
    <3>2. IsPrefix(a, a \o t)
      BY <1>2, <2>7, SameBeginning
    <3> QED
      BY <1>1, <2>4, <2>10, <3>1, <3>2
  <2>12. CASE ~Down(t)
    <3>1. PICK j \in 1..Len(t) : t[j] = up
      BY <2>1, <2>12 DEF Down
    <3>2. j + 1 \in 1..Len(l) /\ j \in 1..(Len(l) - 1) /\ 2 \in 1..(j + 1) /\ j + 1 >= 2 /\ j \in Nat
      BY <2>2, <2>6
    <3>3. l[j + 1] = up
      BY <2>6, <3>1, <3>2
    <3>4. l[2] = up
      BY <1>3, <2>1, <3>2, <3>3 DEF NormalForm
    <3>5. Len(l) = 2
      <4>1. ~(2 \in 2..(Len(l) - 1))
        BY <2>3, <3>4
      <4> QED
        BY <2>2, <3>2, <4>1
    <3>6. Len(t) = 1 /\ t[1] = up
      BY <2>6, <3>4, <3>5
    <3>7. t = f
      <4>1. \A i \in 1..Len(t) : t[i] = f[i]
        BY <2>8, <3>6
      <4> QED
        BY <2>7, <2>8, <3>6, <4>1, SeqEqual
    <3>8. Follow(a, t) = Above(2)
      BY <1>1, <1>2, <2>1, <2>8, <3>7, AboveIs
    <3> QED
      BY <2>4, <2>10, <3>8
  <2> QED
    BY <2>11, <2>12
<1> QED
  BY <1>4, <1>5

\* The list makes a tree when all of its paths are simple, and none clashes with
\* one before it.
LEMMA CreateIs ==
  ASSUME NEW list \in Seq(Path)
  PROVE  /\ create(list) # NoTree <=>
              \A i \in DOMAIN list : /\ is_simple(Relative(list[i]))
                                     /\ \A j \in 1..(i - 1) : /\ ~IsPrefix(Relative(list[i]), Relative(list[j]))
                                                              /\ ~IsPrefix(Relative(list[j]), Relative(list[i]))
         /\ create(list) # NoTree => create(list) = {Relative(list[i]) : i \in DOMAIN list}
<1> DEFINE R(i) == Relative(list[i])
           before(i) == {R(j) : j \in 1 .. (i - 1)}
           fails == \E i \in DOMAIN list : ~is_simple(R(i)) \/ Clashes(R(i), before(i))
           tree == {R(i) : i \in DOMAIN list}
<1>1. create(list) = IF fails THEN NoTree ELSE tree
  BY DEF create
<1>2. tree # NoTree \/ fails
  <2>1. SUFFICES ASSUME tree = NoTree
                 PROVE  fails
    OBVIOUS
  <2>2. PICK i \in DOMAIN list : R(i) = <<"">>
    BY <2>1 DEF NoTree
  <2>3. ~is_simple(<<"">>)
    BY Zenon DEF is_simple
  <2>4. ~is_simple(R(i))
    BY <2>2, <2>3, Zenon
  <2> QED
    BY <2>4
<1> HIDE DEF R
<1>3. ~fails <=> \A i \in DOMAIN list : is_simple(R(i)) /\ ~Clashes(R(i), before(i))
  OBVIOUS
<1>4. \A i \in DOMAIN list :
        ~Clashes(R(i), before(i)) <=>
          \A j \in 1..(i - 1) : ~IsPrefix(R(i), R(j)) /\ ~IsPrefix(R(j), R(i))
  BY DEF Clashes
<1> HIDE DEF fails, before, tree
<1>5. create(list) # NoTree <=> ~fails
  BY <1>1, <1>2
<1>6. create(list) # NoTree <=>
        \A i \in DOMAIN list : /\ is_simple(R(i))
                               /\ \A j \in 1..(i - 1) : ~IsPrefix(R(i), R(j)) /\ ~IsPrefix(R(j), R(i))
  BY <1>3, <1>4, <1>5, Zenon
<1>7. create(list) # NoTree => create(list) = tree
  BY <1>1, <1>5
<1> QED
  BY <1>6, <1>7, Zenon DEF R, tree

LEMMA TreeIs ==
  ASSUME files \in Seq(Written)
  PROVE  TreeIsExact
<1> DEFINE R(i) == Relative(files[i])
           P(i) == Place(files[i])
           L(i) == Left(files[i])
           apart == \A i, j \in DOMAIN files : i # j => ~IsPrefix(P(i), P(j))
           distinct == \A i \in DOMAIN files : \A j \in 1..(i - 1) : ~IsPrefix(R(i), R(j)) /\ ~IsPrefix(R(j), R(i))
           places == {P(i) : i \in DOMAIN files}
<1>1. SUFFICES ASSUME \A i \in DOMAIN files : ~IsSpoilt(files[i])
      PROVE  /\ (\A p \in places : IsStrictPrefix(Base, p)) =>
                  /\ create(files) # NoTree <=> apart
                  /\ create(files) # NoTree => {Base \o leaf : leaf \in create(files)} = places
             /\ create(files) # NoTree =>
                  \A p \in places : IsPrefix(Above(1), p) \/ p = Above(2)
  BY Zenon DEF TreeIsExact
<1>2. files \in Seq(Path) /\ \A i \in DOMAIN files : files[i] \in Path /\ ~IsSpoilt(files[i])
  BY <1>1 DEF Written
<1>3. create(files) # NoTree <=> (\A i \in DOMAIN files : is_simple(R(i))) /\ distinct
  BY <1>2, CreateIs, Zenon
<1>4. create(files) # NoTree => create(files) = {R(i) : i \in DOMAIN files}
  BY <1>2, CreateIs
<1>5. ASSUME NEW i \in DOMAIN files, IsStrictPrefix(Base, P(i))
      PROVE  R(i) \in Seq(Word) /\ is_simple(R(i)) /\ P(i) = Base \o R(i)
  <2>1. PICK l : l = L(i)
    OBVIOUS
  <2>2. l # <<>> /\ Down(l) /\ P(i) = Base \o l
    BY <1>2, <1>5, <2>1, PlaceIs
  <2>3. l \in Seq(Plain(Component)) /\ l \in Seq(Word)
    BY <1>2, <2>1, WordIs, EmptyTrail, LeftNames, LeftLeads DEF Trail
  <2>4. R(i) = l
    BY <1>2, <2>1, <2>2, RelativeIs
  <2>5. \A j \in 2..(Len(l) - 1) : l[j] # ".."
    <3>1. \A j \in 2..(Len(l) - 1) : j \in 1..Len(l)
      BY <2>3, LenProperties
    <3> QED
      BY <2>2, <3>1 DEF Down
  <2> QED
    BY <2>2, <2>3, <2>4, <2>5, SimpleIs
<1>6. ASSUME NEW i \in DOMAIN files, is_simple(R(i))
      PROVE  IsPrefix(Above(1), P(i)) \/ P(i) = Above(2)
  BY <1>2, <1>6, SimpleLeads
<1>7. Base \in Seq(Word)
  BY AboveIs DEF Trail
<1> HIDE DEF R, P
<1>8. ASSUME \A i \in DOMAIN files : IsStrictPrefix(Base, P(i))
      PROVE  /\ create(files) # NoTree <=> apart
             /\ create(files) # NoTree => {Base \o leaf : leaf \in create(files)} = places
  <2>1. ASSUME NEW i \in DOMAIN files, NEW j \in DOMAIN files
        PROVE  IsPrefix(P(i), P(j)) <=> IsPrefix(R(i), R(j))
    <3>1. R(i) \in Seq(Word) /\ R(j) \in Seq(Word)
      BY <1>5, <1>8
    <3>2. P(i) = Base \o R(i) /\ P(j) = Base \o R(j)
      BY <1>5, <1>8
    <3>3. IsPrefix(Base \o R(i), Base \o R(j)) <=> IsPrefix(R(i), R(j))
      BY <1>7, <3>1, SameBeginning
    <3> QED
      BY <3>2, <3>3
  <2>2. ASSUME apart, NEW i \in DOMAIN files, NEW j \in 1..(i - 1)
        PROVE  ~IsPrefix(R(i), R(j)) /\ ~IsPrefix(R(j), R(i))
    <3>1. j \in DOMAIN files /\ j # i
      OBVIOUS
    <3> QED
      BY <2>1, <2>2, <3>1
  <2>3. ASSUME distinct, NEW i \in DOMAIN files, NEW j \in DOMAIN files, i # j
        PROVE  ~IsPrefix(P(i), P(j))
    <3>1. j \in 1..(i - 1) \/ i \in 1..(j - 1)
      BY <2>3
    <3> QED
      BY <2>1, <2>3, <3>1
  <2>4. apart <=> distinct
    BY <2>2, <2>3
  <2>5. \A i \in DOMAIN files : is_simple(R(i)) /\ P(i) = Base \o R(i)
    BY <1>5, <1>8
  <2>6. {Base \o r : r \in {R(i) : i \in DOMAIN files}} = places
    BY <2>5
  <2> QED
    BY <1>3, <1>4, <2>4, <2>5, <2>6
<1>9. (\A p \in places : IsStrictPrefix(Base, p)) => \A i \in DOMAIN files : IsStrictPrefix(Base, P(i))
  OBVIOUS
<1>10. create(files) # NoTree => \A p \in places : IsPrefix(Above(1), p) \/ p = Above(2)
  BY <1>3, <1>6
<1> QED
  BY <1>8, <1>9, <1>10

-----------------------------------------------------------------------------
(* Trees.                                                                  *)

\* A path is of a tree when a file of the tree is the path, or under it.
LEMMA NodesAre ==
  ASSUME NEW t \in Trees, NEW p
  PROVE  p \in Nodes(t) <=> p \in Path \ {<<>>} /\ \E leaf \in t : IsPrefix(p, leaf)
<1>1. t \subseteq Path \ {<<>>}
  BY DEF Trees
<1>2. ASSUME p \in Nodes(t)
      PROVE  p \in Path \ {<<>>} /\ \E leaf \in t : IsPrefix(p, leaf)
  <2>1. PICK leaf \in t : \E n \in 1..Len(leaf) : p = SubSeq(leaf, 1, n)
    BY <1>2 DEF Nodes
  <2> QED
    BY <1>1, <2>1, Beginning
<1>3. ASSUME p \in Path \ {<<>>}, NEW leaf \in t, IsPrefix(p, leaf)
      PROVE  p \in Nodes(t)
  <2>1. leaf \in Path
    BY <1>1
  <2>2. Len(p) <= Len(leaf) /\ p = SubSeq(p, 1, Len(p)) /\ SubSeq(p, 1, Len(p)) = SubSeq(leaf, 1, Len(p))
    <3>1. Len(p) <= Len(leaf) /\ SubSeq(p, 1, Len(p)) = SubSeq(leaf, 1, Len(p))
      BY <1>3 DEF IsPrefix
    <3>2. p = SubSeq(p, 1, Len(p))
      <4>1. SubSeq(p, 1, Len(p)) = [i \in 1..Len(p) |-> p[i]]
        BY <1>3 DEF Path
      <4>2. p = [i \in 1..Len(p) |-> p[i]]
        BY <1>3 DEF Path
      <4> QED
        BY <4>1, <4>2
    <3> QED
      BY <3>1, <3>2
  <2>3. Len(p) \in 1..Len(leaf)
    <3>1. Len(p) \in Nat \ {0}
      BY <1>3, FrontPrefix
    <3>2. Len(leaf) \in Nat
      BY <2>1 DEF Path
    <3> QED
      BY <2>2, <3>1, <3>2
  <2>4. p \in {SubSeq(leaf, 1, n) : n \in 1..Len(leaf)}
    BY <2>2, <2>3, Zenon
  <2> QED
    BY <1>3, <2>4, Zenon DEF Nodes
<1> QED
  BY <1>2, <1>3

LEMMA LeavesAreNodes ==
  ASSUME NEW t \in Trees
  PROVE  t \subseteq Nodes(t) /\ Nodes(t) \subseteq Path \ {<<>>} /\ t \subseteq Path \ {<<>>}
<1>1. t \subseteq Path \ {<<>>}
  BY DEF Trees
<1>2. \A leaf \in t : IsPrefix(leaf, leaf)
  BY <1>1, PrefixItself
<1> QED
  BY <1>1, <1>2, NodesAre

\* What is above a path of a tree is of the tree, and a directory of it.
LEMMA NodesAbove ==
  ASSUME NEW t \in Trees, NEW p \in Nodes(t), NEW a \in Path, a # <<>>, IsPrefix(a, p)
  PROVE  a \in Nodes(t) /\ (a \in t => a = p)
<1>1. PICK leaf \in t : p \in Path /\ leaf \in Path /\ IsPrefix(p, leaf)
  BY NodesAre, LeavesAreNodes
<1>2. IsPrefix(a, leaf)
  BY <1>1, PrefixThrough
<1>3. a \in Nodes(t)
  BY <1>1, <1>2, NodesAre
<1>4. ASSUME a \in t PROVE a = p
  <2>1. a = leaf
    BY <1>2, <1>4 DEF Trees
  <2>2. Len(a) \in Nat /\ Len(p) \in Nat
    BY <1>1 DEF Path
  <2>3. Len(p) <= Len(a)
    BY <1>1, <2>1 DEF IsPrefix
  <2> QED
    BY <1>1, <2>2, <2>3, PrefixSame
<1> QED
  BY <1>3, <1>4

\* The way from a directory down to a path under it begins with a child of it.
ChildOf(t, dir, c) == c \in Nodes(t) /\ c # <<>> /\ Front(c) = dir

LEMMA Toward ==
  ASSUME NEW t \in Trees, NEW p \in Nodes(t), NEW dir \in Path, dir # p, IsPrefix(dir, p)
  PROVE  \E c \in Path : ChildOf(t, dir, c) /\ IsPrefix(c, p)
<1>1. p \in Path /\ Len(p) \in Nat /\ Len(dir) \in Nat
  BY LeavesAreNodes DEF Path
<1>2. Len(dir) < Len(p)
  <2>1. Len(dir) <= Len(p)
    BY DEF IsPrefix
  <2>2. ~(Len(dir) >= Len(p))
    BY <1>1, PrefixSame
  <2> QED
    BY <1>1, <2>2
<1> DEFINE n == Len(dir) + 1
           c == SubSeq(p, 1, n)
<1>3. n \in 1..Len(p)
  BY <1>1, <1>2
<1>4. c \in Path \ {<<>>} /\ Len(c) = n /\ IsPrefix(c, p)
  BY <1>1, <1>3, Beginning
<1>5. c \in Nodes(t)
  BY <1>4, NodesAbove
<1>6. Front(c) = dir
  <2>1. Front(c) \in Path /\ IsPrefix(Front(c), c) /\ Len(Front(c)) = Len(c) - 1
    BY <1>4, FrontPrefix
  <2> HIDE DEF c
  <2>2. IsPrefix(Front(c), p)
    BY <1>1, <1>4, <2>1, PrefixThrough
  <2>3. Len(Front(c)) = Len(dir)
    BY <1>1, <1>4, <2>1
  <2>4. \A i \in 1..Len(dir) : Front(c)[i] = p[i]
    BY <1>1, <2>1, <2>2, <2>3, PrefixIs
  <2>5. \A i \in 1..Len(dir) : dir[i] = p[i]
    BY <1>1, PrefixIs
  <2>6. \A i \in 1..Len(dir) : Front(c)[i] = dir[i]
    BY <2>4, <2>5
  <2> QED
    BY <2>1, <2>3, <2>6, SeqEqual DEF Path
<1> QED
  BY <1>4, <1>5, <1>6 DEF ChildOf

-----------------------------------------------------------------------------
(* Directories.                                                            *)

\* What is somewhere is in a directory: what other processes may not break, and
\* the steps of the walks do not.
Solid(f) == \A p \in DOMAIN f : f[p] # "none" => IsDir(f, Front(p))

\* So nothing is below what is no directory.
LEMMA NothingBelow ==
  ASSUME NEW t \in Trees, NEW f, DOMAIN f = Nodes(t), Solid(f), NEW p \in Nodes(t), f[p] \notin {"dir", "full"},
         NEW q \in Nodes(t), IsPrefix(p, q), p # q
  PROVE  f[q] = "none"
<1>1. p \in Path \ {<<>>} /\ q \in Path \ {<<>>}
  BY LeavesAreNodes
<1>2. Len(p) \in Nat /\ Len(q) \in Nat
  BY <1>1 DEF Path
<1> DEFINE S == {n \in Nat : \E r \in Nodes(t) : Len(r) = n /\ IsPrefix(p, r) /\ r # p /\ f[r] # "none"}
<1>3. SUFFICES ASSUME f[q] # "none"
               PROVE  FALSE
  OBVIOUS
<1>4. Len(q) \in S
  BY <1>2, <1>3
<1>5. PICK n \in S : \A m \in S : n <= m
  <2>1. S \in SUBSET Nat /\ S # {}
    BY <1>4
  <2> HIDE DEF S
  <2> QED
    BY <2>1, Least
<1>6. PICK r \in Nodes(t) : Len(r) = n /\ IsPrefix(p, r) /\ r # p /\ f[r] # "none"
  BY <1>5
<1>7. r \in Path \ {<<>>}
  BY LeavesAreNodes
<1>8. /\ Front(r) \in Path /\ IsPrefix(Front(r), r) /\ Len(Front(r)) = n - 1
      /\ n \in Nat \ {0} /\ IsPrefix(p, Front(r))
  BY <1>1, <1>6, <1>7, FrontPrefix, PrefixOfFront
<1>9. IsDir(f, Front(r))
  BY <1>6 DEF Solid
<1>10. Front(r) # <<>>
  <2>1. Len(p) <= Len(Front(r)) /\ Len(p) # 0
    <3>1. Len(p) # 0
      BY <1>1, EmptySeq DEF Path
    <3> QED
      BY <1>8, <3>1 DEF IsPrefix
  <2> QED
    BY <1>2, <2>1
<1>11. Front(r) \in Nodes(t) /\ f[Front(r)] \in {"dir", "full"}
  BY <1>8, <1>9, <1>10, NodesAbove DEF IsDir
<1>12. n - 1 \in S
  BY <1>8, <1>11
<1> QED
  BY <1>5, <1>8, <1>12

-----------------------------------------------------------------------------
(* What holds of the variables one by one.                                 *)

FrameType == [dir : Path, new : BOOLEAN, errors : SUBSET Path, left : SUBSET Path]

\* A call works on a directory of the tree: its errors are about what is there,
\* and what is left are children of it.
FrameHolds(t, o, f) ==
  /\ f.dir = <<>> \/ f.dir \in Nodes(t)
  /\ o = "rm" => f.dir \notin t
  /\ \A p \in f.errors : IsPrefix(f.dir, p)
  /\ \A p \in f.left : ChildOf(t, f.dir, p)

\* Each call was made by the one for the directory above.
Stack(t, o, fr) ==
  /\ fr \in Seq(FrameType)
  /\ \A k \in 1..Len(fr) : FrameHolds(t, o, fr[k])
  /\ \A k \in 1..Len(fr) :
       IF k = Len(fr) THEN fr[k].dir = <<>> ELSE fr[k].dir # <<>> /\ Front(fr[k].dir) = fr[k + 1].dir

\* What a system call is made for.
MadeFor(t, o, c) ==
  \/ o \in {"cp", "fs_cp"} /\ c.what = "copy" /\ c.path \in t
  \/ o \in {"cp", "fs_cp"} /\ c.what \in {"stat", "mkdir"} /\ c.path \notin t
  \/ o = "cp" /\ c.what = "utime"
  \/ o \in {"rm", "fs_rm"} /\ c.what \in {"unlink", "rmdir"}
  \/ o = "rm" /\ c.what = "is_empty" /\ c.path \notin t

CallHolds(t, o, fr, c) ==
  \/ c = Walk
  \/ /\ fr # <<>>
     /\ c = [what |-> c.what, path |-> c.path]
     /\ ChildOf(t, fr[1].dir, c.path)
     /\ MadeFor(t, o, c)

TypeInv ==
  /\ files \in Seq(Written)
  /\ op \in Ops \cup {"list"}
  /\ leaves \in Trees
  /\ fs \in [Nodes(leaves) -> Kind]
  /\ Solid(fs)
  /\ Stack(leaves, op, frames)
  /\ CallHolds(leaves, op, frames, call)
  /\ reported \in SUBSET Path
  /\ meddled \in SUBSET Nodes(leaves)
  /\ op = "list" => leaves = {} /\ frames = <<>>

-----------------------------------------------------------------------------
(* What is still to be done.                                               *)

\* The calls that are under way, and the directories of those that another one
\* made.
Under(fr) == {fr[k] : k \in 1..Len(fr)}

Emptied(fr) == {fr[k].dir : k \in 1..(Len(fr) - 1)}

\* An error, or what is left to be done, is about this path.
Concerns(f, p) == \E q \in f.errors \cup f.left : IsPrefix(q, p)

SomeConcern(fr, p) == \E f \in Under(fr) : Concerns(f, p)

\* While files are copied, each is copied, or it is left or reported.
Owed(p) ==
  \/ fs[p] = "copy"
  \/ SomeConcern(frames, p)
  \/ call.what \in {"copy", "stat", "mkdir"} /\ IsPrefix(call.path, p)
  \/ frames = <<>> /\ \E q \in reported : IsPrefix(q, p)

CopyInv == op \in {"cp", "fs_cp"} => \A leaf \in leaves \ meddled : Owed(leaf)

\* An error is never lost, though what it was about may be.
SomeError(fr) == \E f \in Under(fr) : f.errors # {}

Erred(fr, rep) == SomeError(fr) \/ (fr = <<>> /\ rep # {})

\* A path is still to be removed: it is under what is left of a directory, it is
\* a directory that is being emptied, or the next system call is for it.
Waits(fr, p) ==
  \/ \E f \in Under(fr) : \E c \in f.left : IsPrefix(c, p)
  \/ p \in Emptied(fr)

Called(c, p) == c.what \in {"unlink", "is_empty", "rmdir"} /\ c.path = p

Touched(p, m) == \E q \in m : IsPrefix(p, q) \/ IsPrefix(q, p)

Settled(p) == fs[p] = "none" \/ Stays(p) \/ Touched(p, meddled)

SeenTo(p) == Settled(p) \/ Waits(frames, p) \/ Called(call, p)

RemoveInv ==
  (op \in {"rm", "fs_rm"} /\ ~Erred(frames, reported)) => \A p \in Nodes(leaves) : SeenTo(p)

IInv == TypeInv /\ CopyInv /\ RemoveInv

-----------------------------------------------------------------------------
(* What the steps do to the calls that are under way.                      *)

\* The innermost call is changed, or makes another one, or returns to the one
\* that made it.
Replaced(fr, g, f) ==
  /\ g \in Seq(FrameType) /\ Len(g) = Len(fr) /\ g[1] = f
  /\ \A k \in 2..Len(fr) : g[k] = fr[k]

Pushed(fr, g, f) ==
  /\ g \in Seq(FrameType) /\ Len(g) = Len(fr) + 1 /\ g[1] = f
  /\ \A k \in 1..Len(fr) : g[k + 1] = fr[k]

Popped(fr, g, f) ==
  /\ g \in Seq(FrameType) /\ Len(g) = Len(fr) - 1 /\ g[1] = f
  /\ \A k \in 2..Len(g) : g[k] = fr[k + 1]

With(f, E, L) == [dir |-> f.dir, new |-> f.new, errors |-> E, left |-> L]

LEMMA FrameFields ==
  ASSUME NEW f \in FrameType
  PROVE  /\ f.dir \in Path /\ f.new \in BOOLEAN /\ f.errors \in SUBSET Path /\ f.left \in SUBSET Path
         /\ \A E, L \in SUBSET Path : With(f, E, L) \in FrameType
         /\ f = With(f, f.errors, f.left)
  BY DEF FrameType, With

LEMMA ReplaceTop ==
  ASSUME NEW fr \in Seq(FrameType), fr # <<>>, NEW f \in FrameType
  PROVE  Replaced(fr, [fr EXCEPT ![1] = f], f)
<1>1. Len(fr) \in Nat \ {0}
  BY EmptySeq, LenProperties
<1> DEFINE g == [fr EXCEPT ![1] = f]
<1>2. g \in Seq(FrameType) /\ Len(g) = Len(fr)
  BY <1>1, ExceptSeq
<1>3. g[1] = f /\ \A k \in 2..Len(fr) : g[k] = fr[k]
  BY <1>1
<1> QED
  BY <1>2, <1>3 DEF Replaced

LEMMA PushTop ==
  ASSUME NEW fr \in Seq(FrameType), NEW f \in FrameType
  PROVE  Pushed(fr, <<f>> \o fr, f)
<1>1. <<f>> \in Seq(FrameType) /\ Len(<<f>>) = 1 /\ <<f>>[1] = f /\ Len(fr) \in Nat
  OBVIOUS
<1> DEFINE g == <<f>> \o fr
<1>2. g \in Seq(FrameType) /\ Len(g) = Len(fr) + 1
  BY <1>1, ConcatProperties
<1>3. \A k \in 1..(Len(fr) + 1) : g[k] = IF k <= 1 THEN f ELSE fr[k - 1]
  <2>1. \A k \in 1..(Len(fr) + 1) : g[k] = IF k <= Len(<<f>>) THEN <<f>>[k] ELSE fr[k - Len(<<f>>)]
    BY <1>1, ConcatProperties
  <2> QED
    BY <1>1, <2>1
<1>4. ASSUME NEW k \in 1..Len(fr) PROVE g[k + 1] = fr[k]
  <2>1. k + 1 \in 1..(Len(fr) + 1) /\ ~(k + 1 <= 1) /\ k + 1 - 1 = k
    BY <1>1
  <2> QED
    BY <1>3, <2>1
<1>5. g[1] = f
  BY <1>1, <1>3
<1> QED
  BY <1>2, <1>4, <1>5 DEF Pushed

LEMMA PopTop ==
  ASSUME NEW fr \in Seq(FrameType), Len(fr) > 1, NEW f \in FrameType
  PROVE  Popped(fr, [Tail(fr) EXCEPT ![1] = f], f)
<1>1. Len(fr) \in Nat
  OBVIOUS
<1>2. fr # <<>>
  BY <1>1
<1>3. /\ Tail(fr) \in Seq(FrameType) /\ Len(Tail(fr)) = Len(fr) - 1
      /\ \A k \in 1..Len(Tail(fr)) : Tail(fr)[k] = fr[k + 1]
  BY <1>2, HeadTailProperties
<1>4. Tail(fr) # <<>>
  <2>1. Len(Tail(fr)) # 0
    BY <1>1, <1>3
  <2> QED
    BY <1>3, <2>1, EmptySeq
<1> DEFINE g == [Tail(fr) EXCEPT ![1] = f]
<1>5. Replaced(Tail(fr), g, f)
  BY <1>3, <1>4, ReplaceTop
<1>6. \A k \in 2..Len(g) : k \in 1..Len(Tail(fr))
  BY <1>1, <1>3, <1>5 DEF Replaced
<1> QED
  BY <1>3, <1>5, <1>6 DEF Replaced, Popped

LEMMA ReplacedHolds ==
  ASSUME NEW t, NEW o, NEW fr, NEW g, NEW f, Stack(t, o, fr), fr # <<>>, Replaced(fr, g, f),
         FrameHolds(t, o, f), f.dir = fr[1].dir
  PROVE  Stack(t, o, g) /\ g # <<>>
<1>1. Len(fr) \in Nat \ {0} /\ fr \in Seq(FrameType)
  BY EmptySeq, LenProperties DEF Stack
<1>2. g \in Seq(FrameType) /\ Len(g) = Len(fr) /\ g[1] = f /\ \A k \in 2..Len(fr) : g[k] = fr[k]
  BY DEF Replaced
<1>3. ASSUME NEW k \in 1..Len(g)
      PROVE  /\ FrameHolds(t, o, g[k])
             /\ IF k = Len(g) THEN g[k].dir = <<>> ELSE g[k].dir # <<>> /\ Front(g[k].dir) = g[k + 1].dir
  <2>1. g[k].dir = fr[k].dir /\ FrameHolds(t, o, g[k])
    <3>1. CASE k = 1
      BY <1>2, <3>1
    <3>2. CASE k # 1
      <4>1. k \in 2..Len(fr) /\ k \in 1..Len(fr)
        BY <1>1, <1>2, <3>2
      <4> QED
        BY <1>2, <4>1 DEF Stack
    <3> QED
      BY <3>1, <3>2
  <2>2. k # Len(g) => k + 1 \in 2..Len(fr)
    BY <1>1, <1>2
  <2>3. k # Len(g) => g[k + 1] = fr[k + 1]
    BY <1>2, <2>2
  <2>4. IF k = Len(fr) THEN fr[k].dir = <<>> ELSE fr[k].dir # <<>> /\ Front(fr[k].dir) = fr[k + 1].dir
    BY <1>2 DEF Stack
  <2> QED
    BY <1>2, <2>1, <2>3, <2>4
<1>4. g # <<>>
  BY <1>1, <1>2
<1> QED
  BY <1>2, <1>3, <1>4 DEF Stack

LEMMA PushedHolds ==
  ASSUME NEW t, NEW o, NEW fr, NEW g, NEW f, Stack(t, o, fr), fr # <<>>, Pushed(fr, g, f),
         FrameHolds(t, o, f), ChildOf(t, fr[1].dir, f.dir)
  PROVE  Stack(t, o, g) /\ g # <<>>
<1>1. Len(fr) \in Nat \ {0} /\ fr \in Seq(FrameType)
  BY EmptySeq, LenProperties DEF Stack
<1>2. g \in Seq(FrameType) /\ Len(g) = Len(fr) + 1 /\ g[1] = f /\ \A k \in 1..Len(fr) : g[k + 1] = fr[k]
  BY DEF Pushed
<1>3. ASSUME NEW k \in 1..Len(g)
      PROVE  /\ FrameHolds(t, o, g[k])
             /\ IF k = Len(g) THEN g[k].dir = <<>> ELSE g[k].dir # <<>> /\ Front(g[k].dir) = g[k + 1].dir
  <2>1. CASE k = 1
    <3>1. 1 \in 1..Len(fr) /\ k # Len(g) /\ k + 1 = 2
      BY <1>1, <1>2, <2>1
    <3>2. g[k + 1] = fr[1]
      BY <1>2, <2>1, <3>1
    <3> QED
      BY <1>2, <2>1, <3>1, <3>2 DEF ChildOf
  <2>2. CASE k # 1
    <3> DEFINE j == k - 1
    <3>1. j \in 1..Len(fr) /\ k = j + 1 /\ (k = Len(g) <=> j = Len(fr)) /\ (k # Len(g) => k \in 1..Len(fr))
      BY <1>1, <1>2, <2>2
    <3>2. g[k] = fr[j] /\ (k # Len(g) => g[k + 1] = fr[j + 1])
      BY <1>2, <3>1
    <3>3. IF j = Len(fr) THEN fr[j].dir = <<>> ELSE fr[j].dir # <<>> /\ Front(fr[j].dir) = fr[j + 1].dir
      BY <3>1 DEF Stack
    <3>4. FrameHolds(t, o, fr[j])
      BY <3>1 DEF Stack
    <3> QED
      BY <3>1, <3>2, <3>3, <3>4
  <2> QED
    BY <2>1, <2>2
<1>4. g # <<>>
  BY <1>1, <1>2
<1> QED
  BY <1>2, <1>3, <1>4 DEF Stack

LEMMA PoppedHolds ==
  ASSUME NEW t, NEW o, NEW fr, NEW g, NEW f, Stack(t, o, fr), Len(fr) > 1, Popped(fr, g, f),
         FrameHolds(t, o, f), f.dir = fr[2].dir
  PROVE  Stack(t, o, g) /\ g # <<>>
<1>1. Len(fr) \in Nat
  BY LenProperties DEF Stack
<1>2. g \in Seq(FrameType) /\ Len(g) = Len(fr) - 1 /\ g[1] = f /\ \A k \in 2..Len(g) : g[k] = fr[k + 1]
  BY DEF Popped
<1>3. ASSUME NEW k \in 1..Len(g)
      PROVE  /\ FrameHolds(t, o, g[k])
             /\ IF k = Len(g) THEN g[k].dir = <<>> ELSE g[k].dir # <<>> /\ Front(g[k].dir) = g[k + 1].dir
  <2>1. g[k].dir = fr[k + 1].dir /\ FrameHolds(t, o, g[k]) /\ k + 1 \in 1..Len(fr)
    <3>1. CASE k = 1
      BY <1>1, <1>2, <3>1
    <3>2. CASE k # 1
      <4>1. k \in 2..Len(g) /\ k + 1 \in 1..Len(fr)
        BY <1>1, <1>2, <3>2
      <4> QED
        BY <1>2, <4>1 DEF Stack
    <3> QED
      BY <3>1, <3>2
  <2>2. k # Len(g) => k + 1 \in 2..Len(g)
    BY <1>1, <1>2
  <2>3. k # Len(g) => g[k + 1] = fr[k + 1 + 1]
    BY <1>2, <2>2
  <2>4. k = Len(g) <=> k + 1 = Len(fr)
    BY <1>1, <1>2
  <2>5. IF k + 1 = Len(fr) THEN fr[k + 1].dir = <<>>
                           ELSE fr[k + 1].dir # <<>> /\ Front(fr[k + 1].dir) = fr[k + 1 + 1].dir
    BY <2>1 DEF Stack
  <2> QED
    BY <2>1, <2>3, <2>4, <2>5
<1>4. g # <<>>
  BY <1>1, <1>2
<1> QED
  BY <1>2, <1>3, <1>4 DEF Stack

\* Which calls are under way then.
LEMMA ReplacedUnder ==
  ASSUME NEW fr \in Seq(FrameType), NEW g, NEW f, fr # <<>>, Replaced(fr, g, f), f.dir = fr[1].dir
  PROVE  /\ f \in Under(g) /\ Under(fr) \ {fr[1]} \subseteq Under(g)
         /\ fr[1] \in Under(fr) /\ Emptied(g) = Emptied(fr)
<1>1. Len(fr) \in Nat \ {0}
  BY EmptySeq, LenProperties
<1>2. g \in Seq(FrameType) /\ Len(g) = Len(fr) /\ g[1] = f /\ \A k \in 2..Len(fr) : g[k] = fr[k]
  BY DEF Replaced
<1>3. 1 \in 1..Len(fr) /\ \A k \in 1..Len(fr) : k = 1 \/ k \in 2..Len(fr)
  BY <1>1
<1>4. f \in Under(g) /\ fr[1] \in Under(fr)
  BY <1>2, <1>3 DEF Under
<1>5. ASSUME NEW h \in Under(fr), h # fr[1] PROVE h \in Under(g)
  <2>1. PICK k \in 1..Len(fr) : h = fr[k]
    BY DEF Under
  <2>2. h = g[k] /\ k \in 1..Len(g)
    BY <1>2, <1>3, <1>5, <2>1
  <2> QED
    BY <2>2 DEF Under
<1>6. Emptied(g) = Emptied(fr)
  <2>1. \A k \in 1..(Len(fr) - 1) : g[k].dir = fr[k].dir
    <3>1. \A k \in 1..(Len(fr) - 1) : k \in 1..Len(fr)
      BY <1>1
    <3> QED
      BY <1>2, <1>3, <3>1
  <2> QED
    BY <1>2, <2>1 DEF Emptied
<1> QED
  BY <1>4, <1>5, <1>6

LEMMA PushedUnder ==
  ASSUME NEW fr \in Seq(FrameType), NEW g, NEW f, fr # <<>>, Pushed(fr, g, f)
  PROVE  /\ f \in Under(g) /\ Under(fr) \subseteq Under(g)
         /\ f.dir \in Emptied(g) /\ Emptied(fr) \subseteq Emptied(g)
<1>1. Len(fr) \in Nat \ {0}
  BY EmptySeq, LenProperties
<1>2. g \in Seq(FrameType) /\ Len(g) = Len(fr) + 1 /\ g[1] = f /\ \A k \in 1..Len(fr) : g[k + 1] = fr[k]
  BY DEF Pushed
<1>3. 1 \in 1..Len(g) /\ 1 \in 1..(Len(g) - 1) /\ \A k \in 1..Len(fr) : k + 1 \in 1..Len(g)
  BY <1>1, <1>2
<1>4. \A k \in 1..(Len(fr) - 1) : k \in 1..Len(fr) /\ k + 1 \in 1..(Len(g) - 1)
  BY <1>1, <1>2
<1>5. ASSUME NEW h \in Under(fr) PROVE h \in Under(g)
  <2>1. PICK k \in 1..Len(fr) : h = fr[k]
    BY DEF Under
  <2> QED
    BY <1>2, <1>3, <2>1 DEF Under
<1>6. ASSUME NEW d \in Emptied(fr) PROVE d \in Emptied(g)
  <2>1. PICK k \in 1..(Len(fr) - 1) : d = fr[k].dir
    BY DEF Emptied
  <2>2. d = g[k + 1].dir
    BY <1>2, <1>4, <2>1
  <2> QED
    BY <1>4, <2>2 DEF Emptied
<1>7. f \in Under(g) /\ f.dir \in Emptied(g)
  BY <1>2, <1>3 DEF Under, Emptied
<1> QED
  BY <1>5, <1>6, <1>7

LEMMA PoppedUnder ==
  ASSUME NEW fr \in Seq(FrameType), NEW g, NEW f, Len(fr) > 1, Popped(fr, g, f), f.dir = fr[2].dir
  PROVE  /\ f \in Under(g) /\ Under(fr) \ {fr[1], fr[2]} \subseteq Under(g)
         /\ fr[1] \in Under(fr) /\ fr[2] \in Under(fr) /\ Emptied(fr) \ {fr[1].dir} \subseteq Emptied(g)
<1>1. Len(fr) \in Nat
  BY LenProperties
<1>2. g \in Seq(FrameType) /\ Len(g) = Len(fr) - 1 /\ g[1] = f /\ \A k \in 2..Len(g) : g[k] = fr[k + 1]
  BY DEF Popped
<1>3. 1 \in 1..Len(g) /\ 1 \in 1..Len(fr) /\ 2 \in 1..Len(fr)
  BY <1>1, <1>2
<1>4. ASSUME NEW k \in 1..Len(fr), k # 1, k # 2
      PROVE  k - 1 \in 2..Len(g) /\ k - 1 \in 1..Len(g) /\ g[k - 1] = fr[k]
  <2>1. k - 1 \in 2..Len(g) /\ k - 1 \in 1..Len(g) /\ k - 1 + 1 = k
    BY <1>1, <1>2, <1>4
  <2> QED
    BY <1>2, <2>1
<1>5. ASSUME NEW h \in Under(fr), h # fr[1], h # fr[2] PROVE h \in Under(g)
  <2>1. PICK k \in 1..Len(fr) : h = fr[k]
    BY DEF Under
  <2>2. k # 1 /\ k # 2
    BY <1>5, <2>1
  <2> QED
    BY <1>4, <2>1, <2>2 DEF Under
<1>6. ASSUME NEW d \in Emptied(fr), d # fr[1].dir PROVE d \in Emptied(g)
  <2>1. PICK k \in 1..(Len(fr) - 1) : d = fr[k].dir
    BY DEF Emptied
  <2>2. k # 1
    BY <1>6, <2>1
  <2>3. k - 1 \in 1..(Len(g) - 1) /\ k \in 1..Len(fr)
    BY <1>1, <1>2, <2>2
  <2>4. d = g[k - 1].dir
    <3>1. CASE k = 2
      BY <1>2, <2>1, <3>1
    <3>2. CASE k # 2
      BY <1>4, <2>1, <2>2, <2>3, <3>2
    <3> QED
      BY <3>1, <3>2
  <2> QED
    BY <2>3, <2>4 DEF Emptied
<1>7. f \in Under(g) /\ fr[1] \in Under(fr) /\ fr[2] \in Under(fr)
  BY <1>2, <1>3 DEF Under
<1> QED
  BY <1>5, <1>6, <1>7

-----------------------------------------------------------------------------
(* The changes that the steps make.                                        *)

\* The innermost call after them.
Changed(t, o, fr, g, E, L) ==
  /\ Stack(t, o, g) /\ g # <<>>
  /\ g[1] = With(fr[1], E, L)
  /\ With(fr[1], E, L) \in Under(g)
  /\ Under(fr) \ {fr[1]} \subseteq Under(g)
  /\ Emptied(g) = Emptied(fr)

\* What there is in the innermost call.
LEMMA TopHolds ==
  ASSUME NEW t \in Trees, NEW o, NEW fr, Stack(t, o, fr), fr # <<>>
  PROVE  /\ fr \in Seq(FrameType) /\ fr[1] \in FrameType /\ fr[1] \in Under(fr)
         /\ FrameHolds(t, o, fr[1]) /\ Len(fr) \in Nat \ {0}
<1>1. fr \in Seq(FrameType)
  BY DEF Stack
<1>2. Len(fr) \in Nat \ {0}
  BY <1>1, EmptySeq, LenProperties
<1>3. 1 \in 1..Len(fr)
  BY <1>2
<1> QED
  BY <1>1, <1>2, <1>3, ElementOfSeq DEF Stack, Under

LEMMA ChildIs ==
  ASSUME NEW t \in Trees, NEW dir, NEW p, ChildOf(t, dir, p)
  PROVE  p \in Path \ {<<>>} /\ p \in Nodes(t) /\ dir \in Path /\ IsPrefix(dir, p) /\ Front(p) = dir
<1>1. p \in Path \ {<<>>}
  BY LeavesAreNodes DEF ChildOf
<1> QED
  BY <1>1, FrontPrefix DEF ChildOf

\* Its errors and what is left of it may change, and stay in its directory.
LEMMA ChangeTop ==
  ASSUME NEW t \in Trees, NEW o, NEW fr, Stack(t, o, fr), fr # <<>>,
         NEW E \in SUBSET Path, \A p \in E : IsPrefix(fr[1].dir, p),
         NEW L \in SUBSET fr[1].left
  PROVE  Changed(t, o, fr, [fr EXCEPT ![1] = With(fr[1], E, L)], E, L)
<1> DEFINE f == With(fr[1], E, L)
           g == [fr EXCEPT ![1] = f]
<1>1. fr \in Seq(FrameType) /\ fr[1] \in FrameType /\ FrameHolds(t, o, fr[1])
  BY TopHolds
<1>2. L \in SUBSET Path
  BY <1>1, FrameFields
<1>3. f \in FrameType
  BY <1>1, <1>2, FrameFields
<1>4. f.dir = fr[1].dir /\ f.errors = E /\ f.left = L
  BY DEF With
<1> HIDE DEF f
<1>5. FrameHolds(t, o, f)
  BY <1>1, <1>4 DEF FrameHolds
<1>6. Replaced(fr, g, f)
  BY <1>1, <1>3, ReplaceTop
<1>7. Stack(t, o, g) /\ g # <<>>
  BY <1>4, <1>5, <1>6, ReplacedHolds
<1>8. f \in Under(g) /\ Under(fr) \ {fr[1]} \subseteq Under(g) /\ Emptied(g) = Emptied(fr)
  BY <1>1, <1>4, <1>6, ReplacedUnder
<1>9. g[1] = f
  BY <1>6 DEF Replaced
<1> QED
  BY <1>7, <1>8, <1>9 DEF Changed, f

\* The forms that these changes have.
NewTop(fr, f) == [fr EXCEPT ![1] = f]

NewLeft(fr, L) == [fr EXCEPT ![1].left = L]

NewErrors(fr, E) == [fr EXCEPT ![1].errors = E]

NewBoth(fr, E, L) == [fr EXCEPT ![1].left = L, ![1].errors = E]

LEMMA WithIs ==
  ASSUME NEW fr \in Seq(FrameType), fr # <<>>, fr[1] \in FrameType, NEW E, NEW L
  PROVE  /\ NewLeft(fr, L) = NewTop(fr, With(fr[1], fr[1].errors, L))
         /\ NewErrors(fr, E) = NewTop(fr, With(fr[1], E, fr[1].left))
         /\ NewBoth(fr, E, L) = NewTop(fr, With(fr[1], E, L))
<1>1. 1 \in DOMAIN fr
  <2>1. Len(fr) \in Nat \ {0}
    BY EmptySeq, LenProperties
  <2> QED
    BY <2>1
<1>2. fr[1] = [dir |-> fr[1].dir, new |-> fr[1].new, errors |-> fr[1].errors, left |-> fr[1].left]
  BY DEF FrameType
<1>3. [fr[1] EXCEPT !.left = L] = With(fr[1], fr[1].errors, L)
  BY <1>2 DEF With
<1>4. [fr[1] EXCEPT !.errors = E] = With(fr[1], E, fr[1].left)
  BY <1>2 DEF With
<1>5. [fr EXCEPT ![1].left = L] = [fr EXCEPT ![1] = With(fr[1], fr[1].errors, L)]
  BY <1>3
<1>6. [fr EXCEPT ![1].errors = E] = [fr EXCEPT ![1] = With(fr[1], E, fr[1].left)]
  BY <1>4
<1> DEFINE g == [fr EXCEPT ![1] = With(fr[1], fr[1].errors, L)]
<1>7. g[1] = With(fr[1], fr[1].errors, L) /\ DOMAIN g = DOMAIN fr
  BY <1>1
<1>8. [g[1] EXCEPT !.errors = E] = With(fr[1], E, L)
  BY <1>7 DEF With
<1>9. [g EXCEPT ![1].errors = E] = [fr EXCEPT ![1] = With(fr[1], E, L)]
  BY <1>1, <1>7, <1>8
<1>10. [fr EXCEPT ![1].left = L, ![1].errors = E] = [g EXCEPT ![1].errors = E]
  BY <1>5
<1> QED
  BY <1>5, <1>6, <1>9, <1>10 DEF NewTop, NewLeft, NewErrors, NewBoth

\* A child is taken; with an error; and what a step may do instead: the rest of
\* the directory is dropped.
LEMMA TakeChanges ==
  ASSUME leaves \in Trees, Stack(leaves, op, frames), frames # <<>>, NEW p \in Top.left
  PROVE  /\ ChildOf(leaves, Top.dir, p)
         /\ Changed(leaves, op, frames, Taken(p), Top.errors, Top.left \ {p})
         /\ Changed(leaves, op, frames, TakenFailed(p), Top.errors \cup {p}, Top.left \ {p})
<1>1. /\ frames \in Seq(FrameType) /\ frames[1] \in FrameType
      /\ FrameHolds(leaves, op, frames[1])
  BY TopHolds
<1>2. ChildOf(leaves, Top.dir, p)
  BY <1>1 DEF FrameHolds, Top
<1>3. p \in Path /\ IsPrefix(Top.dir, p)
  BY <1>2, ChildIs
<1>4. Top.errors \cup {p} \in SUBSET Path /\ Top.errors \in SUBSET Path
  BY <1>1, <1>3, FrameFields DEF Top
<1>5. \A q \in Top.errors \cup {p} : IsPrefix(Top.dir, q)
  BY <1>1, <1>3 DEF FrameHolds, Top
<1>6. /\ Taken(p) = [frames EXCEPT ![1] = With(frames[1], Top.errors, Top.left \ {p})]
      /\ TakenFailed(p) = [frames EXCEPT ![1] = With(frames[1], Top.errors \cup {p}, Top.left \ {p})]
  <2>1. Taken(p) = NewLeft(frames, Top.left \ {p})
    BY DEF Taken, NewLeft, Top
  <2>2. TakenFailed(p) = NewBoth(frames, Top.errors \cup {p}, Top.left \ {p})
    <3>1. 1 \in DOMAIN frames
      <4>1. Len(frames) \in Nat \ {0}
        BY <1>1, TopHolds
      <4> QED
        BY <1>1, <4>1
    <3>2. frames[1] = [dir |-> frames[1].dir, new |-> frames[1].new, errors |-> frames[1].errors, left |-> frames[1].left]
      BY <1>1 DEF FrameType
    <3> QED
      BY <3>1, <3>2 DEF TakenFailed, NewBoth, Top
  <2>3. NewLeft(frames, Top.left \ {p}) = NewTop(frames, With(frames[1], Top.errors, Top.left \ {p}))
    BY <1>1, WithIs DEF Top
  <2>4. NewBoth(frames, Top.errors \cup {p}, Top.left \ {p})
          = NewTop(frames, With(frames[1], Top.errors \cup {p}, Top.left \ {p}))
    BY <1>1, WithIs
  <2> QED
    BY <2>1, <2>2, <2>3, <2>4 DEF NewTop
<1>7. Top.left \ {p} \in SUBSET frames[1].left
  BY DEF Top
<1>8. /\ Changed(leaves, op, frames, [frames EXCEPT ![1] = With(frames[1], Top.errors, Top.left \ {p})],
                 Top.errors, Top.left \ {p})
      /\ Changed(leaves, op, frames, [frames EXCEPT ![1] = With(frames[1], Top.errors \cup {p}, Top.left \ {p})],
                 Top.errors \cup {p}, Top.left \ {p})
  BY <1>4, <1>5, <1>7, ChangeTop DEF Top
<1> QED
  BY <1>2, <1>6, <1>8

LEMMA FailChanges ==
  ASSUME leaves \in Trees, Stack(leaves, op, frames), frames # <<>>, NEW p, ChildOf(leaves, Top.dir, p), Failed(p)
  PROVE  Changed(leaves, op, frames, frames', Top.errors \cup {p}, Top.left)
<1>1. /\ frames \in Seq(FrameType) /\ frames[1] \in FrameType
      /\ FrameHolds(leaves, op, frames[1])
  BY TopHolds
<1>2. p \in Path /\ IsPrefix(Top.dir, p)
  BY ChildIs
<1>3. Top.errors \cup {p} \in SUBSET Path /\ \A q \in Top.errors \cup {p} : IsPrefix(frames[1].dir, q)
  BY <1>1, <1>2, FrameFields DEF FrameHolds, Top
<1>4. frames' = [frames EXCEPT ![1] = With(frames[1], Top.errors \cup {p}, frames[1].left)]
  <2>1. frames' = NewErrors(frames, Top.errors \cup {p})
    BY DEF Failed, NewErrors, Top
  <2>2. frames' = NewTop(frames, With(frames[1], Top.errors \cup {p}, frames[1].left))
    BY <1>1, <2>1, WithIs
  <2> QED
    BY <2>2 DEF NewTop
<1> QED
  BY <1>3, <1>4, ChangeTop DEF Top

LEMMA DropChanges ==
  ASSUME leaves \in Trees, Stack(leaves, op, frames), frames # <<>>, NEW e \in Path, IsPrefix(Top.dir, e)
  PROVE  Changed(leaves, op, frames, [frames EXCEPT ![1].left = {}, ![1].errors = {e}], {e}, {})
<1>1. frames \in Seq(FrameType) /\ frames[1] \in FrameType
  BY TopHolds
<1>2. [frames EXCEPT ![1].left = {}, ![1].errors = {e}] = [frames EXCEPT ![1] = With(frames[1], {e}, {})]
  <2>1. NewBoth(frames, {e}, {}) = NewTop(frames, With(frames[1], {e}, {}))
    BY <1>1, WithIs
  <2> QED
    BY <2>1 DEF NewBoth, NewTop
<1>3. {e} \in SUBSET Path /\ {} \in SUBSET frames[1].left /\ \A q \in {e} : IsPrefix(frames[1].dir, q)
  BY DEF Top
<1> QED
  BY <1>2, <1>3, ChangeTop

\* A call for a child of the directory.
Entered(t, o, fr, g, f) ==
  /\ Stack(t, o, g) /\ g # <<>>
  /\ g[1] = f
  /\ f \in Under(g) /\ Under(fr) \subseteq Under(g)
  /\ f.dir \in Emptied(g) /\ Emptied(fr) \subseteq Emptied(g)

\* The call for a directory begins with all of its children.
LEMMA NewFrame ==
  ASSUME leaves \in Trees, NEW p \in Path, p = <<>> \/ p \in Nodes(leaves), op = "rm" => p \notin leaves, NEW new \in BOOLEAN
  PROVE  /\ Frame(p, new) \in FrameType /\ FrameHolds(leaves, op, Frame(p, new))
         /\ Frame(p, new).dir = p /\ Frame(p, new).left = Children(p) /\ Frame(p, new).errors = {}
         /\ \A c : c \in Children(p) <=> ChildOf(leaves, p, c)
<1>1. \A c : c \in Children(p) <=> ChildOf(leaves, p, c)
  BY DEF Children, ChildOf
<1>2. Children(p) \in SUBSET Path
  BY LeavesAreNodes DEF Children
<1> HIDE DEF Children
<1>3. Frame(p, new) \in FrameType
  BY <1>2 DEF Frame, FrameType
<1>4. Frame(p, new).dir = p /\ Frame(p, new).left = Children(p) /\ Frame(p, new).errors = {}
  BY DEF Frame
<1> HIDE DEF Frame
<1>5. FrameHolds(leaves, op, Frame(p, new))
  BY <1>1, <1>4 DEF FrameHolds
<1> QED
  BY <1>1, <1>3, <1>4, <1>5

LEMMA EnterChanges ==
  ASSUME leaves \in Trees, NEW fr, Stack(leaves, op, fr), fr # <<>>, NEW p, ChildOf(leaves, fr[1].dir, p),
         op = "rm" => p \notin leaves, NEW new \in BOOLEAN
  PROVE  Entered(leaves, op, fr, <<Frame(p, new)>> \o fr, Frame(p, new))
<1> DEFINE f == Frame(p, new)
           g == <<f>> \o fr
<1>1. p \in Path /\ p \in Nodes(leaves)
  BY ChildIs
<1>2. f \in FrameType /\ FrameHolds(leaves, op, f) /\ f.dir = p
  BY <1>1, NewFrame
<1>3. fr \in Seq(FrameType)
  BY DEF Stack
<1> HIDE DEF f
<1>4. Pushed(fr, g, f)
  BY <1>2, <1>3, PushTop
<1>5. Stack(leaves, op, g) /\ g # <<>>
  BY <1>2, <1>4, PushedHolds
<1>6. f \in Under(g) /\ Under(fr) \subseteq Under(g) /\ f.dir \in Emptied(g) /\ Emptied(fr) \subseteq Emptied(g)
  BY <1>3, <1>4, PushedUnder
<1>7. g[1] = f
  BY <1>4 DEF Pushed
<1> QED
  BY <1>5, <1>6, <1>7 DEF Entered, f

\* A call returns, and the one that made it goes on with its errors.
Returned(t, o, fr, g, E) ==
  /\ Stack(t, o, g) /\ g # <<>>
  /\ ChildOf(t, g[1].dir, fr[1].dir)
  /\ g[1] \in Under(g) /\ fr[2] \in Under(fr)
  /\ g[1].errors = fr[2].errors \cup E /\ g[1].left = fr[2].left
  /\ Under(fr) \ {fr[1], fr[2]} \subseteq Under(g)
  /\ Emptied(fr) \ {fr[1].dir} \subseteq Emptied(g)

LEMMA ReturnChanges ==
  ASSUME NEW t \in Trees, NEW o, NEW fr, Stack(t, o, fr), fr # <<>>, Len(fr) # 1,
         NEW E \in SUBSET Path, \A p \in E : IsPrefix(fr[1].dir, p)
  PROVE  Returned(t, o, fr, [Tail(fr) EXCEPT ![1].errors = @ \cup E], E)
<1>1. /\ fr \in Seq(FrameType) /\ fr[1] \in FrameType /\ FrameHolds(t, o, fr[1])
      /\ Len(fr) \in Nat \ {0}
  BY TopHolds
<1>2. Len(fr) > 1 /\ 1 \in 1..Len(fr) /\ 2 \in 1..Len(fr)
  <2>1. \A n \in Nat \ {0} : n # 1 => n > 1 /\ 1 \in 1..n /\ 2 \in 1..n
    OBVIOUS
  <2> QED
    BY <1>1, <2>1, Zenon
<1>3. fr[2] \in FrameType /\ FrameHolds(t, o, fr[2])
  BY <1>1, <1>2, ElementOfSeq DEF Stack
<1>4. fr[1].dir # <<>> /\ Front(fr[1].dir) = fr[2].dir
  BY <1>1, <1>2 DEF Stack
<1>5. ChildOf(t, fr[2].dir, fr[1].dir)
  BY <1>1, <1>4 DEF FrameHolds, ChildOf
<1>6. fr[1].dir \in Path /\ fr[2].dir \in Path /\ IsPrefix(fr[2].dir, fr[1].dir)
  BY <1>5, ChildIs
<1>7. \A p \in E : IsPrefix(fr[2].dir, p)
  BY <1>6, PrefixThrough
<1> DEFINE f == With(fr[2], fr[2].errors \cup E, fr[2].left)
           g == [Tail(fr) EXCEPT ![1] = f]
<1>8. fr[2].errors \cup E \in SUBSET Path /\ fr[2].left \in SUBSET Path
  BY <1>3, FrameFields
<1>9. f \in FrameType
  BY <1>3, <1>8, FrameFields
<1>10. f.dir = fr[2].dir /\ f.errors = fr[2].errors \cup E /\ f.left = fr[2].left
  BY DEF With
<1>11. [Tail(fr) EXCEPT ![1].errors = @ \cup E] = g
  <2>1. Tail(fr) \in Seq(FrameType) /\ Len(Tail(fr)) = Len(fr) - 1 /\ Tail(fr)[1] = fr[2]
    <3>1. /\ Tail(fr) \in Seq(FrameType) /\ Len(Tail(fr)) = Len(fr) - 1
          /\ \A k \in 1..Len(Tail(fr)) : Tail(fr)[k] = fr[k + 1]
      BY <1>1, HeadTailProperties
    <3>2. 1 \in 1..Len(Tail(fr)) /\ 1 + 1 = 2
      BY <1>1, <1>2, <3>1
    <3> QED
      BY <3>1, <3>2
  <2>2. Tail(fr) # <<>>
    <3>1. Len(Tail(fr)) # 0
      BY <1>1, <1>2, <2>1
    <3> QED
      BY <2>1, <3>1, EmptySeq
  <2>3. [Tail(fr) EXCEPT ![1].errors = @ \cup E] = NewErrors(Tail(fr), fr[2].errors \cup E)
    BY <2>1 DEF NewErrors
  <2>4. NewErrors(Tail(fr), fr[2].errors \cup E) = NewTop(Tail(fr), f)
    BY <1>3, <2>1, <2>2, WithIs
  <2> QED
    BY <2>3, <2>4 DEF NewTop
<1> HIDE DEF f
<1>12. Popped(fr, g, f)
  BY <1>1, <1>2, <1>9, PopTop
<1>13. FrameHolds(t, o, f)
  BY <1>3, <1>7, <1>10 DEF FrameHolds
<1>14. Stack(t, o, g) /\ g # <<>>
  BY <1>2, <1>10, <1>12, <1>13, PoppedHolds
<1>15. /\ f \in Under(g) /\ Under(fr) \ {fr[1], fr[2]} \subseteq Under(g)
       /\ fr[2] \in Under(fr) /\ Emptied(fr) \ {fr[1].dir} \subseteq Emptied(g)
  BY <1>1, <1>2, <1>10, <1>12, PoppedUnder
<1>16. g[1] = f
  BY <1>12 DEF Popped
<1>17. Returned(t, o, fr, g, E)
  BY <1>5, <1>10, <1>14, <1>15, <1>16 DEF Returned
<1> QED
  BY <1>11, <1>17

-----------------------------------------------------------------------------
(* The types are kept.                                                     *)

\* What a system call does to the directory leaves a directory.
FsHolds(t, f) == f \in [Nodes(t) -> Kind] /\ Solid(f)

LEMMA PutHolds ==
  ASSUME leaves \in Trees, FsHolds(leaves, fs), NEW p \in Nodes(leaves), NEW k \in Kind,
         fs[p] = "none", IsDir(fs, Front(p))
  PROVE  FsHolds(leaves, [fs EXCEPT ![p] = k])
<1> DEFINE f == [fs EXCEPT ![p] = k]
<1>1. f \in [Nodes(leaves) -> Kind] /\ DOMAIN f = DOMAIN fs
  BY DEF FsHolds
<1>2. ASSUME NEW q \in Nodes(leaves), f[q] # "none" PROVE IsDir(f, Front(q))
  <2>1. IsDir(fs, Front(q))
    BY <1>2 DEF FsHolds, Solid
  <2>2. Front(q) = <<>> \/ (Front(q) \in Nodes(leaves) /\ fs[Front(q)] \in {"dir", "full"})
    BY <2>1 DEF IsDir, FsHolds
  <2> QED
    BY <1>1, <2>2 DEF IsDir, FsHolds
<1> QED
  BY <1>1, <1>2 DEF FsHolds, Solid

LEMMA RemoveHolds ==
  ASSUME leaves \in Trees, FsHolds(leaves, fs), NEW p \in Nodes(leaves),
         ~IsDir(fs, p) \/ IsEmpty(p)
  PROVE  FsHolds(leaves, [fs EXCEPT ![p] = "none"])
<1> DEFINE f == [fs EXCEPT ![p] = "none"]
<1>1. f \in [Nodes(leaves) -> Kind] /\ DOMAIN f = DOMAIN fs
  BY DEF FsHolds, Kind, Others
<1>2. ASSUME NEW q \in Nodes(leaves), f[q] # "none" PROVE IsDir(f, Front(q))
  <2>1. q # p /\ fs[q] # "none"
    BY <1>2 DEF FsHolds
  <2>2. IsDir(fs, Front(q))
    BY <2>1 DEF FsHolds, Solid
  <2>3. q # <<>>
    BY LeavesAreNodes
  <2>4. Front(q) # p
    BY <2>1, <2>2, <2>3 DEF IsEmpty, Children
  <2>5. Front(q) = <<>> \/ (Front(q) \in Nodes(leaves) /\ fs[Front(q)] \in {"dir", "full"})
    BY <2>2 DEF IsDir, FsHolds
  <2> QED
    BY <1>1, <2>4, <2>5 DEF IsDir, FsHolds
<1> QED
  BY <1>1, <1>2 DEF FsHolds, Solid

LEMMA ClearHolds ==
  ASSUME leaves \in Trees, FsHolds(leaves, fs), NEW p \in Nodes(leaves), IsDir(fs, p)
  PROVE  FsHolds(leaves, [fs EXCEPT ![p] = "dir"])
<1> DEFINE f == [fs EXCEPT ![p] = "dir"]
<1>1. f \in [Nodes(leaves) -> Kind] /\ DOMAIN f = DOMAIN fs
  BY DEF FsHolds, Kind, Others
<1>2. p # <<>>
  BY LeavesAreNodes
<1>3. fs[p] # "none"
  BY <1>2 DEF IsDir
<1>4. ASSUME NEW q \in Nodes(leaves), f[q] # "none" PROVE IsDir(f, Front(q))
  <2>1. fs[q] # "none"
    BY <1>3, <1>4 DEF FsHolds
  <2>2. IsDir(fs, Front(q))
    BY <2>1 DEF FsHolds, Solid
  <2>3. Front(q) = <<>> \/ (Front(q) \in Nodes(leaves) /\ fs[Front(q)] \in {"dir", "full"})
    BY <2>2 DEF IsDir, FsHolds
  <2> QED
    BY <1>1, <2>3 DEF IsDir, FsHolds
<1> QED
  BY <1>1, <1>4 DEF FsHolds, Solid

\* A system call is for a child of the innermost directory.
LEMMA CallIs ==
  ASSUME TypeInv, NEW w, At(w), w # "walk"
  PROVE  /\ frames # <<>> /\ op # "list"
         /\ call = [what |-> w, path |-> call.path]
         /\ ChildOf(leaves, Top.dir, call.path)
         /\ MadeFor(leaves, op, call)
  BY DEF At, TypeInv, CallHolds, Walk, Top

\* A step of a walk.
LEMMA Walked ==
  ASSUME TypeInv, op # "list", UNCHANGED <<files, op, leaves>>,
         FsHolds(leaves, fs'), Stack(leaves, op, frames'), CallHolds(leaves, op, frames', call'),
         reported' \in SUBSET Path, meddled' \in SUBSET Nodes(leaves)
  PROVE  TypeInv'
  BY DEF TypeInv, FsHolds

LEMMA TypeParts ==
  ASSUME TypeInv
  PROVE  /\ leaves \in Trees /\ FsHolds(leaves, fs) /\ Stack(leaves, op, frames)
         /\ reported \in SUBSET Path /\ meddled \in SUBSET Nodes(leaves)
         /\ CallHolds(leaves, op, frames, call)
         /\ (frames # <<>> => op # "list")
  BY DEF TypeInv, FsHolds

\* NoName is asked for.
LEMMA WalkHolds ==
  ASSUME NEW t, NEW o, NEW fr
  PROVE  CallHolds(t, o, fr, Walk)
  BY DEF CallHolds

\* A system call is made for what was taken.
LEMMA AskHolds ==
  ASSUME NEW t, NEW o, NEW g, g # <<>>, NEW w, NEW p, ChildOf(t, g[1].dir, p),
         MadeFor(t, o, [what |-> w, path |-> p])
  PROVE  CallHolds(t, o, g, [what |-> w, path |-> p])
  BY DEF CallHolds

LEMMA ChangedDir ==
  ASSUME NEW t, NEW o, NEW fr, NEW g, NEW E, NEW L, Changed(t, o, fr, g, E, L)
  PROVE  g # <<>> /\ g[1].dir = fr[1].dir /\ Stack(t, o, g) /\ g[1].errors = E /\ g[1].left = L /\ g[1] \in Under(g)
  BY DEF Changed, With

LEMMA NoNodes == Nodes({}) = {}
  BY DEF Nodes

LEMMA TypeInit ==
  ASSUME Init
  PROVE  TypeInv
<1>1. leaves \in Trees
  BY DEF Init, Trees
<1>2. Nodes(leaves) = {} /\ DOMAIN fs = {}
  BY NoNodes DEF Init
<1>3. fs \in [Nodes(leaves) -> Kind] /\ Solid(fs)
  <2>1. fs = [x \in {} |-> x]
    BY <1>2 DEF Init
  <2> QED
    BY <1>2, <2>1 DEF Solid
<1>4. Stack(leaves, op, frames)
  <2>1. <<>> \in Seq(FrameType) /\ Len(<<>>) = 0
    OBVIOUS
  <2> QED
    BY <2>1 DEF Init, Stack
<1> QED
  BY <1>1, <1>3, <1>4 DEF Init, TypeInv, CallHolds

LEMMA WriteTypes ==
  ASSUME TypeInv, Write
  PROVE  TypeInv'
<1>1. files' \in Seq(Written)
  <2>1. PICK c \in Component :
          \/ files' = Append(files, <<c>>)
          \/ files # <<>> /\ files' = Append(Front(files), Append(Last(files), c))
    BY DEF Write
  <2>2. PICK one : one = <<c>>
    OBVIOUS
  <2>3. one \in Written
    BY <2>2 DEF Path, Written
  <2>4. CASE files' = Append(files, one)
    BY <2>3, <2>4 DEF TypeInv
  <2>5. CASE files # <<>> /\ files' = Append(Front(files), Append(Last(files), c))
    <3>1. Front(files) \in Seq(Written) /\ Last(files) \in Written
      BY <2>5, FrontOf DEF TypeInv
    <3>2. Append(Last(files), c) \in Written
      <4>1. PICK l \in Seq(Component) : l = Last(files)
        BY <3>1 DEF Written, Path
      <4>2. Append(l, c) \in Seq(Component) /\ Append(l, c) # <<>>
        BY FrontAppend
      <4> QED
        BY <4>1, <4>2 DEF Written, Path
    <3> QED
      BY <2>5, <3>1, <3>2
  <2> QED
    BY <2>1, <2>2, <2>4, <2>5
<1> QED
  BY <1>1 DEF TypeInv, Write

\* The first call is for the root, with all of its children.
FirstFrame(t) ==
  [dir |-> <<>>, new |-> FALSE, errors |-> {}, left |-> {p \in Nodes(t) : p # <<>> /\ Front(p) = <<>>}]

LEMMA BeginTypes ==
  ASSUME TypeInv, Begin
  PROVE  TypeInv' /\ frames' = <<FirstFrame(leaves')>> /\ FirstFrame(leaves') \in Under(frames')
<1>1. op = "list" /\ frames = <<>> /\ leaves = {} /\ op' \in Ops /\ files' = <<>>
  BY DEF TypeInv, Begin
<1>2. leaves' \in Trees
  <2>1. files \in Seq(Path)
    BY DEF TypeInv, Written
  <2> QED
    BY <2>1, CreateType DEF Begin
<1>3. call' = Walk /\ reported' = reported /\ meddled' = {}
  <2>1. call = Walk
    BY <1>1 DEF TypeInv, CallHolds
  <2>2. meddled = {}
    BY <1>1, NoNodes DEF TypeInv
  <2> QED
    BY <2>1, <2>2 DEF Begin
<1>4. fs' \in [Nodes(leaves') -> Kind] /\ Solid(fs')
  <2>1. fs' \in [Nodes(leaves') -> Others] /\ IsTree(fs')
    BY DEF Begin
  <2>2. Others \subseteq Kind
    BY DEF Kind
  <2> QED
    BY <2>1, <2>2 DEF IsTree, Solid
<1> DEFINE f == FirstFrame(leaves')
           L == {p \in Nodes(leaves') : p # <<>> /\ Front(p) = <<>>}
<1>5. f = [dir |-> <<>>, new |-> FALSE, errors |-> {}, left |-> L]
  BY DEF FirstFrame
<1>6. \A c : c \in L <=> ChildOf(leaves', <<>>, c)
  BY DEF ChildOf
<1>7. L \in SUBSET Path
  BY <1>2, LeavesAreNodes
<1> HIDE DEF L
<1>8. f \in FrameType
  <2>1. <<>> \in Path
    BY DEF Path
  <2> QED
    BY <1>5, <1>7, <2>1 DEF FrameType
<1>9. FrameHolds(leaves', op', f)
  <2>1. <<>> \notin leaves'
    BY <1>2, LeavesAreNodes
  <2> QED
    BY <1>5, <1>6, <2>1 DEF FrameHolds
<1>10. frames' = <<f>>
  BY DEF FirstFrame, Begin, Frame, Children
<1>11. f.dir = <<>> /\ f.left = L
  BY <1>5
<1> HIDE DEF f
<1>12. frames' \in Seq(FrameType) /\ Len(frames') = 1 /\ frames'[1] = f
  BY <1>8, <1>10
<1>13. \A k \in 1..Len(frames') : k = 1
  BY <1>12
<1>14. Stack(leaves', op', frames') /\ f \in Under(frames')
  <2>1. 1 \in 1..Len(frames')
    BY <1>12
  <2> QED
    BY <1>9, <1>11, <1>12, <1>13, <2>1 DEF Stack, Under
<1>15. op' # "list" /\ op' \in Ops \cup {"list"}
  BY <1>1 DEF Ops
<1>16. <<>> \in Seq(Written)
  BY EmptyIn
<1>17. TypeInv'
  BY <1>1, <1>2, <1>3, <1>4, <1>14, <1>15, <1>16 DEF TypeInv, CallHolds
<1> QED
  BY <1>10, <1>14, <1>17 DEF f

LEMMA MeddleTypes ==
  ASSUME TypeInv, NEW p \in Nodes(leaves), NEW k \in Others, Meddle(p, k)
  PROVE  TypeInv'
<1>1. FsHolds(leaves, fs')
  <2>1. fs' \in [Nodes(leaves) -> Kind]
    BY DEF Meddle, TypeInv, Kind
  <2> QED
    BY <2>1 DEF Meddle, IsTree, Solid, FsHolds
<1>2. op # "list"
  BY TypeParts DEF Meddle
<1>3. meddled' \in SUBSET Nodes(leaves)
  BY DEF Meddle, TypeInv
<1> QED
  BY <1>1, <1>2, <1>3, TypeParts, Walked DEF Meddle

LEMMA ReturnTypes ==
  ASSUME TypeInv, Return
  PROVE  TypeInv'
<1>1. /\ leaves \in Trees /\ FsHolds(leaves, fs) /\ Stack(leaves, op, frames)
      /\ reported \in SUBSET Path /\ meddled \in SUBSET Nodes(leaves)
  BY TypeParts
<1>2. op # "list" /\ frames # <<>> /\ call = Walk /\ UNCHANGED <<files, op, leaves, fs, meddled>>
  BY DEF Return
<1>3. /\ frames \in Seq(FrameType) /\ frames[1] \in FrameType /\ FrameHolds(leaves, op, frames[1])
  BY <1>1, <1>2, TopHolds
<1>4. Top.errors \in SUBSET Path /\ \A p \in Top.errors : IsPrefix(frames[1].dir, p)
  BY <1>3, FrameFields DEF Top, FrameHolds
<1>5. CASE Len(frames) = 1
  <2>1. reported' = Top.errors /\ frames' = <<>> /\ call' = Walk
    BY <1>2, <1>5 DEF Return
  <2>2. Stack(leaves, op, frames')
    <3>1. <<>> \in Seq(FrameType) /\ Len(<<>>) = 0
      OBVIOUS
    <3> QED
      BY <2>1, <3>1 DEF Stack
  <2>3. CallHolds(leaves, op, frames', call')
    BY <2>1, WalkHolds
  <2>4. FsHolds(leaves, fs')
    BY <1>1, <1>2
  <2> QED
    BY <1>1, <1>2, <1>4, <2>1, <2>2, <2>3, <2>4, Walked
<1>6. CASE Len(frames) # 1
  <2>1. frames' = [Tail(frames) EXCEPT ![1].errors = @ \cup Top.errors] /\ reported' = reported
    BY <1>6 DEF Return
  <2>2. Returned(leaves, op, frames, frames', Top.errors)
    BY <1>1, <1>2, <1>4, <1>6, <2>1, ReturnChanges
  <2>3. Stack(leaves, op, frames') /\ frames' # <<>> /\ ChildOf(leaves, frames'[1].dir, Top.dir)
    BY <2>2 DEF Returned, Top
  <2>4. CallHolds(leaves, op, frames', call')
    <3>1. \/ op = "fs_rm" /\ call' = [what |-> "rmdir", path |-> Top.dir]
          \/ op = "rm" /\ call' = [what |-> "is_empty", path |-> Top.dir]
          \/ op = "cp" /\ call' = [what |-> "utime", path |-> Top.dir]
          \/ call' = Walk
      BY <1>6 DEF Return
    <3>2. op = "rm" => Top.dir \notin leaves
      BY <1>3 DEF FrameHolds, Top
    <3> QED
      BY <2>3, <3>1, <3>2, AskHolds, WalkHolds DEF MadeFor
  <2>5. FsHolds(leaves, fs')
    BY <1>1, <1>2
  <2> QED
    BY <1>1, <1>2, <2>1, <2>3, <2>4, <2>5, Walked
<1> QED
  BY <1>5, <1>6

\* What is so when a child is taken, and when a system call is made.
LEMMA TakeFacts ==
  ASSUME TypeInv, NEW p, Take(p)
  PROVE  /\ op # "list" /\ frames # <<>> /\ call = Walk /\ p \in Top.left
         /\ ChildOf(leaves, Top.dir, p) /\ p \in Path /\ p \in Nodes(leaves) /\ IsPrefix(Top.dir, p)
         /\ Changed(leaves, op, frames, Taken(p), Top.errors, Top.left \ {p})
         /\ Changed(leaves, op, frames, TakenFailed(p), Top.errors \cup {p}, Top.left \ {p})
<1>1. leaves \in Trees /\ Stack(leaves, op, frames)
  BY TypeParts
<1>2. op # "list" /\ frames # <<>> /\ call = Walk /\ p \in Top.left
  BY DEF Take
<1>3. /\ ChildOf(leaves, Top.dir, p)
      /\ Changed(leaves, op, frames, Taken(p), Top.errors, Top.left \ {p})
      /\ Changed(leaves, op, frames, TakenFailed(p), Top.errors \cup {p}, Top.left \ {p})
  BY <1>1, <1>2, TakeChanges
<1> QED
  BY <1>1, <1>2, <1>3, ChildIs

LEMMA CallFacts ==
  ASSUME TypeInv, NEW w, At(w), w # "walk"
  PROVE  /\ call.path \in Path /\ call.path \in Nodes(leaves) /\ Front(call.path) = Top.dir
         /\ Failed(call.path) => Changed(leaves, op, frames, frames', Top.errors \cup {call.path}, Top.left)
<1>1. leaves \in Trees /\ Stack(leaves, op, frames)
  BY TypeParts
<1>2. frames # <<>> /\ ChildOf(leaves, Top.dir, call.path)
  BY CallIs
<1>3. ASSUME Failed(call.path)
      PROVE  Changed(leaves, op, frames, frames', Top.errors \cup {call.path}, Top.left)
  BY <1>1, <1>2, <1>3, FailChanges
<1> QED
  BY <1>1, <1>2, <1>3, ChildIs

\* The steps that ask whether something exists, or what an entry is.
LEMMA TakeTypes ==
  ASSUME TypeInv, NEW p, Take(p), UNCHANGED <<files, op, leaves, fs, reported, meddled>>,
         frames' \in {Taken(p), TakenFailed(p)},
         \/ call' = call
         \/ \E w : call' = [what |-> w, path |-> p] /\ MadeFor(leaves, op, [what |-> w, path |-> p])
  PROVE  TypeInv'
<1>1. /\ leaves \in Trees /\ FsHolds(leaves, fs) /\ Stack(leaves, op, frames)
      /\ reported \in SUBSET Path /\ meddled \in SUBSET Nodes(leaves)
  BY TypeParts
<1>2. op # "list" /\ frames # <<>> /\ call = Walk /\ ChildOf(leaves, Top.dir, p)
  BY TakeFacts
<1>3. Stack(leaves, op, frames') /\ frames' # <<>> /\ frames'[1].dir = Top.dir
  <2>1. CASE frames' = Taken(p)
    <3>1. Changed(leaves, op, frames, frames', Top.errors, Top.left \ {p})
      BY <2>1, TakeFacts
    <3> QED
      BY <3>1, ChangedDir DEF Top
  <2>2. CASE frames' = TakenFailed(p)
    <3>1. Changed(leaves, op, frames, frames', Top.errors \cup {p}, Top.left \ {p})
      BY <2>2, TakeFacts
    <3> QED
      BY <3>1, ChangedDir DEF Top
  <2> QED
    BY <2>1, <2>2
<1>4. CallHolds(leaves, op, frames', call')
  <2>1. CASE call' = call
    BY <1>2, <2>1, WalkHolds
  <2>2. ASSUME NEW w, call' = [what |-> w, path |-> p], MadeFor(leaves, op, [what |-> w, path |-> p])
        PROVE  CallHolds(leaves, op, frames', call')
    BY <1>2, <1>3, <2>2, AskHolds
  <2> QED
    BY <2>1, <2>2
<1>5. FsHolds(leaves, fs')
  BY <1>1
<1> QED
  BY <1>1, <1>2, <1>3, <1>4, <1>5, Walked

\* The steps that make the system call.
LEMMA CallTypes ==
  ASSUME TypeInv, NEW w, At(w), w # "walk", Done, UNCHANGED <<files, op, leaves, reported, meddled>>,
         FsHolds(leaves, fs'), frames' = frames \/ Failed(call.path) \/ Stack(leaves, op, frames')
  PROVE  TypeInv'
<1>1. /\ leaves \in Trees /\ Stack(leaves, op, frames)
      /\ reported \in SUBSET Path /\ meddled \in SUBSET Nodes(leaves)
  BY TypeParts
<1>2. Stack(leaves, op, frames')
  <2>1. CASE frames' = frames
    BY <1>1, <2>1
  <2>2. CASE Failed(call.path)
    BY <2>2, CallFacts, ChangedDir
  <2> QED
    BY <2>1, <2>2
<1>3. CallHolds(leaves, op, frames', call')
  BY WalkHolds DEF Done
<1>4. op # "list"
  BY CallIs
<1> QED
  BY <1>1, <1>2, <1>3, <1>4, Walked

LEMMA CopyTypes ==
  ASSUME TypeInv, cp
  PROVE  TypeInv'
<1>1. /\ leaves \in Trees /\ FsHolds(leaves, fs) /\ Stack(leaves, op, frames)
      /\ reported \in SUBSET Path /\ meddled \in SUBSET Nodes(leaves)
  BY TypeParts
<1>2. ASSUME NEW p \in Nodes(leaves), TestFile(p) PROVE TypeInv'
  <2>1. Take(p) /\ UNCHANGED <<files, op, leaves, fs, reported, meddled>>
    BY <1>2 DEF TestFile
  <2>2. frames' \in {Taken(p), TakenFailed(p)}
    BY <1>2 DEF TestFile
  <2>3. call' = call \/ (call' = [what |-> "copy", path |-> p] /\ MadeFor(leaves, op, [what |-> "copy", path |-> p]))
    BY <1>2 DEF TestFile, MadeFor
  <2> QED
    BY <2>1, <2>2, <2>3, TakeTypes
<1>3. ASSUME NEW p \in Nodes(leaves), TestDirectory(p) PROVE TypeInv'
  <2>1. Take(p) /\ UNCHANGED <<files, op, leaves, fs, reported, meddled>>
    BY <1>3 DEF TestDirectory
  <2>2. frames' \in {Taken(p), TakenFailed(p)}
    BY <1>3 DEF TestDirectory
  <2>3. \/ call' = call
        \/ call' = [what |-> "mkdir", path |-> p] /\ MadeFor(leaves, op, [what |-> "mkdir", path |-> p])
        \/ call' = [what |-> "stat", path |-> p] /\ MadeFor(leaves, op, [what |-> "stat", path |-> p])
    BY <1>3 DEF TestDirectory, MadeFor
  <2> QED
    BY <2>1, <2>2, <2>3, TakeTypes
<1>4. ASSUME NEW p \in Nodes(leaves), CopyEntry(p) PROVE TypeInv'
  <2>1. Take(p) /\ op = "fs_cp" /\ UNCHANGED <<files, op, leaves, fs, reported, meddled>>
    BY <1>4 DEF CopyEntry
  <2>2. CASE frames' = TakenFailed(p) /\ UNCHANGED call
    BY <2>1, <2>2, TakeTypes
  <2>3. CASE frames' = [frames EXCEPT ![1].left = {}, ![1].errors = {Top.dir}] /\ UNCHANGED call
    <3>1. op # "list" /\ frames # <<>> /\ call = Walk /\ Top.dir \in Path
      BY <2>1, TakeFacts, <1>1, ChildIs
    <3>2. IsPrefix(Top.dir, Top.dir)
      BY <3>1, PrefixItself
    <3>3. Stack(leaves, op, frames')
      <4>1. Changed(leaves, op, frames, frames', {Top.dir}, {})
        BY <1>1, <2>3, <3>1, <3>2, DropChanges
      <4> QED
        BY <4>1, ChangedDir
    <3>4. CallHolds(leaves, op, frames', call')
      BY <2>3, <3>1, WalkHolds
    <3>5. FsHolds(leaves, fs')
      BY <1>1, <2>1
    <3> QED
      BY <1>1, <2>1, <3>1, <3>3, <3>4, <3>5, Walked
  <2>4. CASE /\ frames' = Taken(p)
             /\ call' = [what |-> IF p \in leaves THEN "copy" ELSE "mkdir", path |-> p]
    <3>1. \/ call' = [what |-> "copy", path |-> p] /\ MadeFor(leaves, op, [what |-> "copy", path |-> p])
          \/ call' = [what |-> "mkdir", path |-> p] /\ MadeFor(leaves, op, [what |-> "mkdir", path |-> p])
      BY <2>1, <2>4 DEF MadeFor
    <3> QED
      BY <2>1, <2>4, <3>1, TakeTypes
  <2> QED
    BY <1>4, <2>2, <2>3, <2>4 DEF CopyEntry
<1>5. ASSUME CopyFile PROVE TypeInv'
  <2>1. At("copy") /\ Done /\ UNCHANGED <<files, op, leaves, reported, meddled>>
    BY <1>5 DEF CopyFile
  <2>2. call.path \in Nodes(leaves)
    BY <2>1, CallFacts
  <2>3. "copy" \in Kind /\ "part" \in Kind
    BY DEF Kind
  <2>4. FsHolds(leaves, fs')
    <3>1. CASE fs' = fs
      BY <1>1, <3>1
    <3>2. ASSUME NEW k \in {"copy", "part"}, fs[call.path] = "none", IsDir(fs, Front(call.path)),
                 fs' = [fs EXCEPT ![call.path] = k]
          PROVE  FsHolds(leaves, fs')
      BY <1>1, <2>2, <2>3, <3>2, PutHolds
    <3> QED
      BY <1>5, <3>1, <3>2 DEF CopyFile
  <2>5. frames' = frames \/ Failed(call.path)
    BY <1>5 DEF CopyFile
  <2> QED
    BY <2>1, <2>4, <2>5, CallTypes
<1>6. ASSUME StatDirectory PROVE TypeInv'
  <2>1. At("stat") /\ Done /\ UNCHANGED <<files, op, leaves, fs, reported, meddled>>
    BY <1>6 DEF StatDirectory
  <2>2. frames # <<>> /\ ChildOf(leaves, Top.dir, call.path) /\ op # "rm"
    BY <2>1, CallIs DEF MadeFor
  <2>3. Failed(call.path) \/ Stack(leaves, op, frames')
    <3>1. CASE frames' = <<Frame(call.path, FALSE)>> \o frames
      BY <1>1, <2>2, <3>1, EnterChanges DEF Entered, Top
    <3> QED
      BY <1>6, <3>1 DEF StatDirectory, Enter
  <2>4. FsHolds(leaves, fs')
    BY <1>1, <2>1
  <2> QED
    BY <2>1, <2>3, <2>4, CallTypes
<1>7. ASSUME MakeDirectory PROVE TypeInv'
  <2>1. At("mkdir") /\ Done /\ UNCHANGED <<files, op, leaves, reported, meddled>>
    BY <1>7 DEF MakeDirectory
  <2>2. frames # <<>> /\ ChildOf(leaves, Top.dir, call.path) /\ op # "rm"
    BY <2>1, CallIs DEF MadeFor
  <2>3. Failed(call.path) \/ Stack(leaves, op, frames')
    <3>1. CASE frames' = <<Frame(call.path, TRUE)>> \o frames
      BY <1>1, <2>2, <3>1, EnterChanges DEF Entered, Top
    <3> QED
      BY <1>7, <3>1 DEF MakeDirectory, Enter
  <2>4. FsHolds(leaves, fs')
    <3>1. call.path \in Nodes(leaves) /\ "dir" \in Kind
      BY <2>1, CallFacts DEF Kind, Others
    <3>2. CASE fs[call.path] = "none" /\ IsDir(fs, Front(call.path)) /\ fs' = [fs EXCEPT ![call.path] = "dir"]
      BY <1>1, <3>1, <3>2, PutHolds
    <3> QED
      BY <1>1, <1>7, <3>2 DEF MakeDirectory
  <2> QED
    BY <2>1, <2>3, <2>4, CallTypes
<1>8. ASSUME SetTimes PROVE TypeInv'
  <2>1. At("utime") /\ Done /\ UNCHANGED <<files, op, leaves, fs, reported, meddled>>
    BY <1>8 DEF SetTimes
  <2>2. frames' = frames \/ Failed(call.path)
    BY <1>8 DEF SetTimes
  <2>3. FsHolds(leaves, fs')
    BY <1>1, <2>1
  <2> QED
    BY <2>1, <2>2, <2>3, CallTypes
<1> QED
  BY <1>2, <1>3, <1>4, <1>5, <1>6, <1>7, <1>8 DEF cp

\* A removal goes down to a child.
Descended(fr, g, f, h) ==
  /\ g # <<>> /\ f \in Under(g) /\ h \in Under(g)
  /\ Under(fr) \ {fr[1]} \subseteq Under(g)
  /\ f.dir \in Emptied(g) /\ Emptied(fr) \subseteq Emptied(g)

LEMMA DescendFacts ==
  ASSUME TypeInv, NEW p, Take(p), op = "rm" => p \notin leaves
  PROVE  /\ Stack(leaves, op, <<Frame(p, FALSE)>> \o Taken(p))
         /\ Descended(frames, <<Frame(p, FALSE)>> \o Taken(p), Frame(p, FALSE), With(Top, Top.errors, Top.left \ {p}))
<1> DEFINE g == Taken(p)
           f == Frame(p, FALSE)
<1>1. leaves \in Trees /\ ChildOf(leaves, Top.dir, p)
  BY TypeParts, TakeFacts
<1>2. Changed(leaves, op, frames, g, Top.errors, Top.left \ {p})
  BY TakeFacts
<1>3. g # <<>> /\ g[1].dir = Top.dir /\ Stack(leaves, op, g)
  BY <1>2, ChangedDir DEF Top
<1> HIDE DEF g
<1>4. Entered(leaves, op, g, <<f>> \o g, f)
  BY <1>1, <1>3, EnterChanges
<1>5. /\ With(Top, Top.errors, Top.left \ {p}) \in Under(g) /\ Under(frames) \ {frames[1]} \subseteq Under(g)
      /\ Emptied(g) = Emptied(frames)
  BY <1>2 DEF Changed, Top
<1> HIDE DEF f
<1>6. Descended(frames, <<f>> \o g, f, With(Top, Top.errors, Top.left \ {p}))
  BY <1>4, <1>5 DEF Entered, Descended
<1>7. Stack(leaves, op, <<f>> \o g)
  BY <1>4 DEF Entered
<1> QED
  BY <1>6, <1>7 DEF f, g

LEMMA DropsIs ==
  ASSUME NEW f \in FrameType
  PROVE  [f EXCEPT !.left = {}, !.errors = {f.dir}] = With(f, {f.dir}, {})
<1>1. f = [dir |-> f.dir, new |-> f.new, errors |-> f.errors, left |-> f.left]
  BY DEF FrameType
<1> DEFINE g == [f EXCEPT !.left = {}]
<1>2. g = With(f, f.errors, {})
  BY <1>1 DEF With
<1>3. [f EXCEPT !.left = {}, !.errors = {f.dir}] = [g EXCEPT !.errors = {f.dir}]
  OBVIOUS
<1> HIDE DEF g
<1>4. [g EXCEPT !.errors = {f.dir}] = With(f, {f.dir}, {})
  BY <1>2 DEF With
<1> QED
  BY <1>3, <1>4

LEMMA UnreadableFacts ==
  ASSUME TypeInv, Unreadable
  PROVE  IF Len(frames) = 1 THEN Changed(leaves, op, frames, frames', {Top.dir}, {})
                            ELSE Returned(leaves, op, frames, frames', {Top.dir})
<1>1. leaves \in Trees /\ Stack(leaves, op, frames)
  BY TypeParts
<1>2. frames # <<>>
  BY DEF Unreadable
<1>3. frames \in Seq(FrameType) /\ frames[1] \in FrameType
  BY <1>1, <1>2, TopHolds
<1>4. Top.dir \in Path /\ IsPrefix(Top.dir, Top.dir)
  BY <1>3, FrameFields, PrefixItself DEF Top
<1>5. CASE Len(frames) = 1
  <2> DEFINE f == With(frames[1], {Top.dir}, {})
  <2>1. frames' = <<[Top EXCEPT !.left = {}, !.errors = {Top.dir}]>>
    BY <1>5 DEF Unreadable
  <2>2. [Top EXCEPT !.left = {}, !.errors = {Top.dir}] = With(Top, {Top.dir}, {})
    BY <1>3, DropsIs DEF Top
  <2>3. frames' = <<f>>
    BY <2>1, <2>2 DEF Top
  <2>4. {Top.dir} \in SUBSET Path /\ {} \in SUBSET frames[1].left /\ \A q \in {Top.dir} : IsPrefix(frames[1].dir, q)
    BY <1>4 DEF Top
  <2>5. Changed(leaves, op, frames, [frames EXCEPT ![1] = f], {Top.dir}, {})
    BY <1>1, <1>2, <2>4, ChangeTop
  <2>6. f \in FrameType
    BY <1>3, <2>4, FrameFields
  <2>7. Replaced(frames, [frames EXCEPT ![1] = f], f)
    BY <1>2, <1>3, <2>6, ReplaceTop
  <2> HIDE DEF f
  <2>8. [frames EXCEPT ![1] = f] = <<f>>
    <3> DEFINE g == [frames EXCEPT ![1] = f]
    <3>1. g \in Seq(FrameType) /\ Len(g) = 1 /\ g[1] = f
      BY <1>5, <2>7 DEF Replaced
    <3>2. <<f>> \in Seq(FrameType) /\ Len(<<f>>) = 1 /\ <<f>>[1] = f
      BY <2>6
    <3> HIDE DEF g
    <3>3. \A k \in 1..1 : g[k] = <<f>>[k]
      BY <3>1, <3>2
    <3>4. g = <<f>>
      BY <3>1, <3>2, <3>3, SeqEqual
    <3> QED
      BY <3>4 DEF g
  <2> QED
    BY <1>5, <2>3, <2>5, <2>8
<1>6. CASE Len(frames) # 1
  <2>1. frames' = [Tail(frames) EXCEPT ![1].errors = @ \cup {Top.dir}]
    BY <1>6 DEF Unreadable
  <2>2. {Top.dir} \in SUBSET Path /\ \A q \in {Top.dir} : IsPrefix(frames[1].dir, q)
    BY <1>4 DEF Top
  <2>3. Returned(leaves, op, frames, frames', {Top.dir})
    BY <1>1, <1>2, <1>6, <2>1, <2>2, ReturnChanges
  <2> QED
    BY <1>6, <2>3
<1> QED
  BY <1>5, <1>6

LEMMA RemoveTypes ==
  ASSUME TypeInv, rm
  PROVE  TypeInv'
<1>1. /\ leaves \in Trees /\ FsHolds(leaves, fs) /\ Stack(leaves, op, frames)
      /\ reported \in SUBSET Path /\ meddled \in SUBSET Nodes(leaves)
  BY TypeParts
<1>2. ASSUME NEW p \in Nodes(leaves), Skip(p) \/ NoEntry(p) \/ NoAccess(p) PROVE TypeInv'
  <2>1. Take(p) /\ UNCHANGED <<files, op, leaves, fs, call, reported, meddled>>
    BY <1>2 DEF Skip, NoEntry, NoAccess
  <2>2. frames' \in {Taken(p), TakenFailed(p)}
    BY <1>2 DEF Skip, NoEntry, NoAccess
  <2> QED
    BY <2>1, <2>2, TakeTypes
<1>3. ASSUME NEW p \in Nodes(leaves), GiveUp(p) PROVE TypeInv'
  <2>1. Take(p) /\ UNCHANGED <<files, op, leaves, fs, call, reported, meddled>>
    BY <1>3 DEF GiveUp
  <2>2. op # "list" /\ frames # <<>> /\ call = Walk /\ p \in Path /\ IsPrefix(Top.dir, p)
    BY <2>1, TakeFacts
  <2>3. Changed(leaves, op, frames, frames', {p}, {})
    BY <1>1, <1>3, <2>2, DropChanges DEF GiveUp
  <2>4. Stack(leaves, op, frames') /\ CallHolds(leaves, op, frames', call') /\ FsHolds(leaves, fs')
    BY <1>1, <2>1, <2>2, <2>3, ChangedDir, WalkHolds
  <2> QED
    BY <1>1, <2>1, <2>2, <2>4, Walked
<1>4. ASSUME NEW p \in Nodes(leaves), Find(p) PROVE TypeInv'
  <2>1. Take(p) /\ op = "rm" /\ UNCHANGED <<files, op, leaves, fs, reported, meddled>>
    BY <1>4 DEF Find
  <2>2. CASE p \in leaves
    <3>1. frames' \in {Taken(p), TakenFailed(p)} /\ call' = [what |-> "unlink", path |-> p]
      BY <1>4, <2>2 DEF Find
    <3>2. MadeFor(leaves, op, [what |-> "unlink", path |-> p])
      BY <2>1 DEF MadeFor
    <3> QED
      BY <2>1, <3>1, <3>2, TakeTypes
  <2>3. CASE p \notin leaves
    <3>1. frames' = <<Frame(p, FALSE)>> \o Taken(p) /\ call' = call
      BY <1>4, <2>3 DEF Find
    <3>2. call = Walk
      BY <2>1, TakeFacts
    <3>3. Stack(leaves, op, frames') /\ CallHolds(leaves, op, frames', call') /\ FsHolds(leaves, fs')
      BY <1>1, <2>1, <2>3, <3>1, <3>2, DescendFacts, WalkHolds
    <3> QED
      BY <1>1, <2>1, <3>3, Walked
  <2> QED
    BY <2>2, <2>3
<1>5. ASSUME NEW p \in Nodes(leaves), RemoveEntry(p) PROVE TypeInv'
  <2>1. Take(p) /\ op = "fs_rm" /\ UNCHANGED <<files, op, leaves, reported, meddled>>
    BY <1>5 DEF RemoveEntry
  <2>2. CASE IsDir(fs, p)
    <3>1. frames' = <<Frame(p, FALSE)>> \o Taken(p) /\ call' = call /\ fs' \in {fs, [fs EXCEPT ![p] = "dir"]}
      BY <1>5, <2>2 DEF RemoveEntry
    <3>2. call = Walk
      BY <2>1, TakeFacts
    <3>3. Stack(leaves, op, frames') /\ CallHolds(leaves, op, frames', call')
      BY <2>1, <3>1, <3>2, DescendFacts, WalkHolds
    <3>4. FsHolds(leaves, fs')
      BY <1>1, <2>2, <3>1, ClearHolds
    <3> QED
      BY <1>1, <2>1, <3>3, <3>4, Walked
  <2>3. CASE ~IsDir(fs, p)
    <3>1. frames' \in {Taken(p), TakenFailed(p)} /\ call' = [what |-> "unlink", path |-> p] /\ UNCHANGED fs
      BY <1>5, <2>3 DEF RemoveEntry
    <3>2. MadeFor(leaves, op, [what |-> "unlink", path |-> p])
      BY <2>1 DEF MadeFor
    <3> QED
      BY <2>1, <3>1, <3>2, TakeTypes
  <2> QED
    BY <2>2, <2>3
<1>6. ASSUME Unreadable PROVE TypeInv'
  <2>1. op # "list" /\ call = Walk /\ UNCHANGED <<files, op, leaves, fs, call, reported, meddled>>
    BY <1>6 DEF Unreadable
  <2>2. Stack(leaves, op, frames')
    <3>1. CASE Changed(leaves, op, frames, frames', {Top.dir}, {})
      BY <3>1, ChangedDir
    <3>2. CASE Returned(leaves, op, frames, frames', {Top.dir})
      BY <3>2 DEF Returned
    <3> QED
      BY <1>6, <3>1, <3>2, UnreadableFacts
  <2>3. CallHolds(leaves, op, frames', call') /\ FsHolds(leaves, fs')
    BY <1>1, <2>1, WalkHolds
  <2> QED
    BY <1>1, <2>1, <2>2, <2>3, Walked
<1>7. ASSUME Unlink PROVE TypeInv'
  <2>1. At("unlink") /\ Done /\ UNCHANGED <<files, op, leaves, reported, meddled>>
    BY <1>7 DEF Unlink
  <2>2. call.path \in Nodes(leaves)
    BY <2>1, CallFacts
  <2>3. FsHolds(leaves, fs') /\ (frames' = frames \/ Failed(call.path))
    BY <1>1, <1>7, <2>2, RemoveHolds DEF Unlink
  <2> QED
    BY <2>1, <2>3, CallTypes
<1>8. ASSUME ReadDirectory PROVE TypeInv'
  <2>1. At("is_empty") /\ UNCHANGED <<files, op, leaves, fs, reported, meddled>>
    BY <1>8 DEF ReadDirectory
  <2>2. FsHolds(leaves, fs')
    BY <1>1, <2>1
  <2>3. CASE Done /\ (frames' = frames \/ Failed(call.path))
    BY <2>1, <2>2, <2>3, CallTypes
  <2>4. CASE frames' = frames /\ call' = [call EXCEPT !.what = "rmdir"]
    <3>1. /\ frames # <<>> /\ op # "list" /\ call = [what |-> "is_empty", path |-> call.path]
          /\ ChildOf(leaves, Top.dir, call.path) /\ op = "rm"
      BY <2>1, CallIs DEF MadeFor
    <3>2. call' = [what |-> "rmdir", path |-> call.path]
      BY <2>4, <3>1
    <3>3. CallHolds(leaves, op, frames', call')
      BY <2>4, <3>1, <3>2, AskHolds DEF Top, MadeFor
    <3> QED
      BY <1>1, <2>1, <2>2, <2>4, <3>1, <3>3, Walked
  <2> QED
    BY <1>8, <2>3, <2>4 DEF ReadDirectory, Done
<1>9. ASSUME RemoveDirectory PROVE TypeInv'
  <2>1. At("rmdir") /\ Done /\ UNCHANGED <<files, op, leaves, reported, meddled>>
    BY <1>9 DEF RemoveDirectory
  <2>2. call.path \in Nodes(leaves)
    BY <2>1, CallFacts
  <2>3. FsHolds(leaves, fs') /\ (frames' = frames \/ Failed(call.path))
    BY <1>1, <1>9, <2>2, RemoveHolds DEF RemoveDirectory
  <2> QED
    BY <2>1, <2>3, CallTypes
<1> QED
  BY <1>2, <1>3, <1>4, <1>5, <1>6, <1>7, <1>8, <1>9 DEF rm

LEMMA TypeStep ==
  ASSUME TypeInv, [Next]_vars
  PROVE  TypeInv'
<1>1. CASE UNCHANGED vars
  <2>1. UNCHANGED <<files, op, leaves, fs, frames, call, reported, meddled>>
    BY <1>1 DEF vars
  <2> QED
    BY <2>1 DEF TypeInv
<1>2. ASSUME NEW p \in Nodes(leaves), NEW k \in Others, Meddle(p, k) PROVE TypeInv'
  BY <1>2, MeddleTypes
<1> QED
  BY <1>1, <1>2, WriteTypes, BeginTypes, CopyTypes, RemoveTypes, ReturnTypes DEF Next

-----------------------------------------------------------------------------
(* Copying.                                                                *)

\* What a change of the calls keeps, and what it may drop.
LEMMA ChangedConcern ==
  ASSUME NEW t, NEW o, NEW fr, NEW g, NEW E, NEW L, Changed(t, o, fr, g, E, L), NEW p
  PROVE  /\ (\E q \in E \cup L : IsPrefix(q, p)) => SomeConcern(g, p)
         /\ SomeConcern(fr, p) => SomeConcern(g, p) \/ (\E q \in fr[1].errors \cup fr[1].left : IsPrefix(q, p))
<1>1. g[1].errors = E /\ g[1].left = L /\ g[1] \in Under(g) /\ Under(fr) \ {fr[1]} \subseteq Under(g)
  <2>1. g[1].errors = E /\ g[1].left = L /\ g[1] \in Under(g)
    BY ChangedDir
  <2> QED
    BY <2>1 DEF Changed
<1>2. (\E q \in E \cup L : IsPrefix(q, p)) => SomeConcern(g, p)
  BY <1>1 DEF SomeConcern, Concerns
<1>3. SomeConcern(fr, p) => SomeConcern(g, p) \/ (\E q \in fr[1].errors \cup fr[1].left : IsPrefix(q, p))
  BY <1>1 DEF SomeConcern, Concerns
<1> QED
  BY <1>2, <1>3

LEMMA ReturnedConcern ==
  ASSUME NEW t, NEW o, NEW fr, NEW g, NEW E, Returned(t, o, fr, g, E), NEW p
  PROVE  /\ (\E q \in E : IsPrefix(q, p)) => SomeConcern(g, p)
         /\ SomeConcern(fr, p) => SomeConcern(g, p) \/ (\E q \in fr[1].errors \cup fr[1].left : IsPrefix(q, p))
<1>1. /\ g[1].errors = fr[2].errors \cup E /\ g[1].left = fr[2].left /\ g[1] \in Under(g)
      /\ Under(fr) \ {fr[1], fr[2]} \subseteq Under(g)
  BY DEF Returned
<1>2. (\E q \in E : IsPrefix(q, p)) => SomeConcern(g, p)
  BY <1>1 DEF SomeConcern, Concerns
<1>3. Concerns(fr[2], p) => SomeConcern(g, p)
  BY <1>1 DEF SomeConcern, Concerns
<1>4. SomeConcern(fr, p) => SomeConcern(g, p) \/ (\E q \in fr[1].errors \cup fr[1].left : IsPrefix(q, p))
  BY <1>1, <1>3 DEF SomeConcern, Concerns
<1> QED
  BY <1>2, <1>4

\* A file of the tree is not above another one.
LEMMA LeafIs ==
  ASSUME NEW t \in Trees, NEW a \in t, NEW b \in t, IsPrefix(a, b)
  PROVE  a = b
  BY DEF Trees

\* A child that is taken is reported, or asked for.
LEMMA TakeOwed ==
  ASSUME TypeInv, NEW p, Take(p), NEW leaf \in leaves, Owed(leaf), fs' = fs,
         \/ frames' = TakenFailed(p)
         \/ frames' = Taken(p) /\ call'.path = p /\ call'.what \in {"copy", "stat", "mkdir"}
  PROVE  Owed(leaf)'
<1>1. frames # <<>> /\ call = Walk
  BY TakeFacts
<1>2. CASE fs[leaf] = "copy"
  BY <1>2 DEF Owed
<1>3. CASE SomeConcern(frames, leaf)
  <2>1. CASE frames' = TakenFailed(p)
    <3>1. Changed(leaves, op, frames, frames', Top.errors \cup {p}, Top.left \ {p})
      BY <2>1, TakeFacts
    <3>2. SomeConcern(frames', leaf)
      <4>1. \/ SomeConcern(frames', leaf)
            \/ \E q \in frames[1].errors \cup frames[1].left : IsPrefix(q, leaf)
        BY <1>3, <3>1, ChangedConcern
      <4>2. (\E q \in (Top.errors \cup {p}) \cup (Top.left \ {p}) : IsPrefix(q, leaf)) => SomeConcern(frames', leaf)
        BY <3>1, ChangedConcern
      <4> QED
        BY <4>1, <4>2 DEF Top
    <3> QED
      BY <3>2 DEF Owed
  <2>2. CASE frames' = Taken(p) /\ call'.path = p /\ call'.what \in {"copy", "stat", "mkdir"}
    <3>1. Changed(leaves, op, frames, frames', Top.errors, Top.left \ {p})
      BY <2>2, TakeFacts
    <3>2. SomeConcern(frames', leaf) \/ IsPrefix(p, leaf)
      <4>1. \/ SomeConcern(frames', leaf)
            \/ \E q \in frames[1].errors \cup frames[1].left : IsPrefix(q, leaf)
        BY <1>3, <3>1, ChangedConcern
      <4>2. (\E q \in Top.errors \cup (Top.left \ {p}) : IsPrefix(q, leaf)) => SomeConcern(frames', leaf)
        BY <3>1, ChangedConcern
      <4> QED
        BY <4>1, <4>2 DEF Top
    <3> QED
      BY <2>2, <3>2 DEF Owed
  <2> QED
    BY <2>1, <2>2
<1> QED
  BY <1>1, <1>2, <1>3 DEF Owed, Walk

\* The error of a system call is pooled.
LEMMA FailOwed ==
  ASSUME TypeInv, NEW w, At(w), w # "walk", Failed(call.path), NEW leaf \in leaves, Owed(leaf),
         fs[leaf] = "copy" => fs'[leaf] = "copy"
  PROVE  Owed(leaf)'
<1>1. Changed(leaves, op, frames, frames', Top.errors \cup {call.path}, Top.left)
  BY CallFacts
<1>2. (\E q \in (Top.errors \cup {call.path}) \cup Top.left : IsPrefix(q, leaf)) => SomeConcern(frames', leaf)
  BY <1>1, ChangedConcern
<1>3. CASE SomeConcern(frames, leaf)
  <2>1. \/ SomeConcern(frames', leaf)
        \/ \E q \in frames[1].errors \cup frames[1].left : IsPrefix(q, leaf)
    BY <1>1, <1>3, ChangedConcern
  <2>2. SomeConcern(frames', leaf)
    BY <1>2, <2>1 DEF Top
  <2> QED
    BY <2>2 DEF Owed
<1>4. CASE call.what \in {"copy", "stat", "mkdir"} /\ IsPrefix(call.path, leaf)
  <2>1. SomeConcern(frames', leaf)
    BY <1>2, <1>4
  <2> QED
    BY <2>1 DEF Owed
<1>5. frames # <<>>
  BY DEF At
<1> QED
  BY <1>3, <1>4, <1>5 DEF Owed

\* A directory that is there, or was made, is copied to: its children are left.
LEMMA EnterOwed ==
  ASSUME TypeInv, NEW w, At(w), w \in {"stat", "mkdir"}, NEW new \in BOOLEAN, Enter(call.path, new),
         NEW leaf \in leaves, Owed(leaf), fs[leaf] = "copy" => fs'[leaf] = "copy"
  PROVE  Owed(leaf)'
<1>1. leaves \in Trees /\ Stack(leaves, op, frames) /\ frames # <<>>
  BY TypeParts DEF At
<1>2. ChildOf(leaves, Top.dir, call.path) /\ op # "rm" /\ call.path \notin leaves
  <2>1. call = [what |-> w, path |-> call.path] /\ MadeFor(leaves, op, call) /\ ChildOf(leaves, Top.dir, call.path)
    BY CallIs
  <2> QED
    BY <2>1 DEF MadeFor
<1>3. Entered(leaves, op, frames, frames', Frame(call.path, new))
  BY <1>1, <1>2, EnterChanges DEF Enter, Top
<1>4. CASE SomeConcern(frames, leaf)
  <2>1. SomeConcern(frames', leaf)
    BY <1>3, <1>4 DEF SomeConcern, Entered
  <2> QED
    BY <2>1 DEF Owed
<1>5. CASE IsPrefix(call.path, leaf)
  <2>1. call.path \in Path /\ call.path # leaf /\ leaf \in Nodes(leaves) /\ call.path \in Nodes(leaves)
    BY <1>1, <1>2, ChildIs, LeavesAreNodes
  <2>2. PICK c \in Path : ChildOf(leaves, call.path, c) /\ IsPrefix(c, leaf)
    BY <1>1, <1>5, <2>1, Toward
  <2>3. c \in Frame(call.path, new).left
    BY <1>1, <1>2, <2>1, <2>2, NewFrame
  <2>4. SomeConcern(frames', leaf)
    BY <1>3, <2>2, <2>3 DEF SomeConcern, Entered, Concerns
  <2> QED
    BY <2>4 DEF Owed
<1> QED
  BY <1>1, <1>4, <1>5 DEF Owed

\* The errors of a call are pooled, and become those that are reported.
LEMMA ReturnOwed ==
  ASSUME TypeInv, Return, NEW leaf \in leaves, Owed(leaf)
  PROVE  Owed(leaf)'
<1>1. leaves \in Trees /\ Stack(leaves, op, frames)
  BY TypeParts
<1>2. frames # <<>> /\ call = Walk /\ Top.left = {} /\ fs' = fs
  BY DEF Return
<1>3. frames \in Seq(FrameType) /\ frames[1] \in FrameType /\ FrameHolds(leaves, op, frames[1])
  BY <1>1, <1>2, TopHolds
<1>4. Top.errors \in SUBSET Path /\ \A p \in Top.errors : IsPrefix(frames[1].dir, p)
  BY <1>3, FrameFields DEF Top, FrameHolds
<1>5. CASE fs[leaf] = "copy"
  BY <1>2, <1>5 DEF Owed
<1>6. CASE SomeConcern(frames, leaf)
  <2>1. CASE Len(frames) = 1
    <3>1. reported' = Top.errors /\ frames' = <<>>
      BY <2>1 DEF Return
    <3>2. \A f \in Under(frames) : f = Top
      BY <2>1 DEF Under, Top
    <3>3. \E q \in Top.errors : IsPrefix(q, leaf)
      BY <1>2, <1>6, <3>2 DEF SomeConcern, Concerns
    <3> QED
      BY <3>1, <3>3 DEF Owed
  <2>2. CASE Len(frames) # 1
    <3>1. frames' = [Tail(frames) EXCEPT ![1].errors = @ \cup Top.errors]
      BY <2>2 DEF Return
    <3>2. Returned(leaves, op, frames, frames', Top.errors)
      BY <1>1, <1>2, <1>4, <2>2, <3>1, ReturnChanges
    <3>3. \/ SomeConcern(frames', leaf)
          \/ \E q \in frames[1].errors \cup frames[1].left : IsPrefix(q, leaf)
      BY <1>6, <3>2, ReturnedConcern
    <3>4. (\E q \in Top.errors : IsPrefix(q, leaf)) => SomeConcern(frames', leaf)
      BY <3>2, ReturnedConcern
    <3>5. SomeConcern(frames', leaf)
      BY <1>2, <3>3, <3>4 DEF Top
    <3> QED
      BY <3>5 DEF Owed
  <2> QED
    BY <2>1, <2>2
<1> QED
  BY <1>2, <1>5, <1>6 DEF Owed, Walk

LEMMA CopyOwed ==
  ASSUME TypeInv, cp, NEW leaf \in leaves, Owed(leaf)
  PROVE  Owed(leaf)'
<1>1. leaves \in Trees /\ Stack(leaves, op, frames)
  BY TypeParts
<1>2. ASSUME NEW p \in Nodes(leaves), TestFile(p) \/ TestDirectory(p) PROVE Owed(leaf)'
  <2>1. Take(p) /\ fs' = fs
    BY <1>2 DEF TestFile, TestDirectory
  <2>2. \/ frames' = TakenFailed(p)
        \/ frames' = Taken(p) /\ call'.path = p /\ call'.what \in {"copy", "stat", "mkdir"}
    BY <1>2 DEF TestFile, TestDirectory
  <2> QED
    BY <2>1, <2>2, TakeOwed
<1>3. ASSUME NEW p \in Nodes(leaves), CopyEntry(p) PROVE Owed(leaf)'
  <2>1. Take(p) /\ fs' = fs
    BY <1>3 DEF CopyEntry
  <2>2. CASE \/ frames' = TakenFailed(p)
             \/ /\ frames' = Taken(p)
                /\ call' = [what |-> IF p \in leaves THEN "copy" ELSE "mkdir", path |-> p]
    BY <2>1, <2>2, TakeOwed
  <2>3. CASE frames' = [frames EXCEPT ![1].left = {}, ![1].errors = {Top.dir}]
    <3>1. frames # <<>> /\ call = Walk /\ frames[1] \in FrameType /\ FrameHolds(leaves, op, frames[1])
      BY <1>1, <2>1, TakeFacts, TopHolds
    <3>2. Top.dir \in Path /\ Top.errors \in SUBSET Path /\ Top.left \in SUBSET Path
      BY <3>1, FrameFields DEF Top
    <3>3. IsPrefix(Top.dir, Top.dir)
      BY <3>2, PrefixItself
    <3>4. Changed(leaves, op, frames, frames', {Top.dir}, {})
      BY <1>1, <2>3, <3>1, <3>2, <3>3, DropChanges
    <3>5. IsPrefix(Top.dir, leaf) => SomeConcern(frames', leaf)
      <4>1. (\E q \in {Top.dir} \cup {} : IsPrefix(q, leaf)) => SomeConcern(frames', leaf)
        BY <3>4, ChangedConcern
      <4> QED
        BY <4>1
    <3>6. CASE SomeConcern(frames, leaf)
      <4>1. \/ SomeConcern(frames', leaf)
            \/ \E q \in frames[1].errors \cup frames[1].left : IsPrefix(q, leaf)
        BY <3>4, <3>6, ChangedConcern
      <4>2. ASSUME NEW q \in frames[1].errors \cup frames[1].left, IsPrefix(q, leaf)
            PROVE  IsPrefix(Top.dir, leaf)
        <5>1. q \in Path /\ IsPrefix(Top.dir, q)
          <6>1. q \in Path
            BY <3>2, <4>2 DEF Top
          <6>2. CASE q \in frames[1].errors
            BY <3>1, <6>1, <6>2 DEF FrameHolds, Top
          <6>3. CASE q \in frames[1].left
            <7>1. ChildOf(leaves, Top.dir, q)
              BY <3>1, <6>3 DEF FrameHolds, Top
            <7> QED
              BY <1>1, <6>1, <7>1, ChildIs
          <6> QED
            BY <4>2, <6>1, <6>2, <6>3
        <5>2. leaf \in Path
          BY <1>1, LeavesAreNodes
        <5> QED
          BY <3>2, <4>2, <5>1, <5>2, PrefixThrough
      <4>3. SomeConcern(frames', leaf)
        BY <3>5, <4>1, <4>2
      <4> QED
        BY <4>3 DEF Owed
    <3>7. CASE fs[leaf] = "copy"
      BY <2>1, <3>7 DEF Owed
    <3> QED
      BY <3>1, <3>6, <3>7 DEF Owed, Walk
  <2> QED
    BY <1>3, <2>2, <2>3 DEF CopyEntry
<1>4. ASSUME CopyFile PROVE Owed(leaf)'
  <2>1. At("copy") /\ call' = Walk
    BY <1>4 DEF CopyFile, Done
  <2>2. call.path \in leaves /\ frames # <<>>
    <3>1. call = [what |-> "copy", path |-> call.path] /\ MadeFor(leaves, op, call) /\ frames # <<>>
      BY <2>1, CallIs
    <3> QED
      BY <3>1 DEF MadeFor
  <2>3. fs[leaf] = "copy" => fs'[leaf] = "copy"
    <3>1. fs \in [Nodes(leaves) -> Kind] /\ leaf \in Nodes(leaves)
      BY <1>1, LeavesAreNodes DEF TypeInv
    <3> QED
      BY <1>4, <3>1 DEF CopyFile
  <2>4. CASE Failed(call.path)
    BY <2>1, <2>3, <2>4, FailOwed
  <2>5. CASE frames' = frames /\ fs' = [fs EXCEPT ![call.path] = "copy"]
    <3>1. fs'[call.path] = "copy"
      <4>1. call.path \in DOMAIN fs
        BY <1>1, <2>2, LeavesAreNodes DEF TypeInv
      <4> QED
        BY <2>5, <4>1
    <3>2. CASE IsPrefix(call.path, leaf)
      <4>1. call.path = leaf
        BY <1>1, <2>2, <3>2, LeafIs
      <4> QED
        BY <3>1, <4>1 DEF Owed
    <3>3. CASE ~IsPrefix(call.path, leaf)
      BY <2>2, <2>3, <2>5, <3>3 DEF Owed
    <3> QED
      BY <3>2, <3>3
  <2> QED
    BY <1>4, <2>4, <2>5 DEF CopyFile
<1>5. ASSUME StatDirectory PROVE Owed(leaf)'
  <2>1. At("stat") /\ fs' = fs /\ (Failed(call.path) \/ Enter(call.path, FALSE))
    BY <1>5 DEF StatDirectory
  <2> QED
    BY <2>1, FailOwed, EnterOwed
<1>6. ASSUME MakeDirectory PROVE Owed(leaf)'
  <2>1. At("mkdir") /\ (Failed(call.path) \/ Enter(call.path, TRUE))
    BY <1>6 DEF MakeDirectory
  <2>2. fs[leaf] = "copy" => fs'[leaf] = "copy"
    <3>1. fs \in [Nodes(leaves) -> Kind] /\ leaf \in Nodes(leaves)
      BY <1>1, LeavesAreNodes DEF TypeInv
    <3> QED
      BY <1>6, <3>1 DEF MakeDirectory
  <2> QED
    BY <2>1, <2>2, FailOwed, EnterOwed
<1>7. ASSUME SetTimes PROVE Owed(leaf)'
  <2>1. At("utime") /\ fs' = fs /\ (Failed(call.path) \/ frames' = frames)
    BY <1>7 DEF SetTimes
  <2>2. CASE frames' = frames
    <3>1. call.what = "utime" /\ frames # <<>>
      BY <2>1 DEF At
    <3> QED
      BY <2>1, <2>2, <3>1 DEF Owed
  <2> QED
    BY <2>1, <2>2, FailOwed
<1> QED
  BY <1>2, <1>3, <1>4, <1>5, <1>6, <1>7 DEF cp

\* What the steps of a removal leave: it is no copying.
LEMMA RemovalIs ==
  ASSUME TypeInv, rm
  PROVE  op \in {"rm", "fs_rm"} /\ UNCHANGED <<op, leaves, meddled, reported>> /\ frames # <<>>
<1>1. CASE \E p \in Nodes(leaves) : Skip(p) \/ GiveUp(p) \/ Find(p) \/ NoEntry(p) \/ NoAccess(p) \/ RemoveEntry(p)
  BY <1>1 DEF Skip, GiveUp, Find, NoEntry, NoAccess, RemoveEntry, Take
<1>2. CASE Unreadable
  BY <1>2 DEF Unreadable
<1>3. ASSUME NEW w \in {"unlink", "is_empty", "rmdir"}, At(w)
      PROVE  op \in {"rm", "fs_rm"} /\ frames # <<>>
  <2>1. call = [what |-> w, path |-> call.path] /\ MadeFor(leaves, op, call) /\ frames # <<>>
    BY <1>3, CallIs
  <2> QED
    BY <2>1 DEF MadeFor
<1>4. CASE Unlink
  BY <1>3, <1>4 DEF Unlink
<1>5. CASE ReadDirectory
  BY <1>3, <1>5 DEF ReadDirectory
<1>6. CASE RemoveDirectory
  BY <1>3, <1>6 DEF RemoveDirectory
<1> QED
  BY <1>1, <1>2, <1>4, <1>5, <1>6 DEF rm

LEMMA CopyingIs ==
  ASSUME TypeInv, cp
  PROVE  op \in {"cp", "fs_cp"} /\ UNCHANGED <<op, leaves, meddled, reported>> /\ frames # <<>>
<1>1. CASE \E p \in Nodes(leaves) : TestFile(p) \/ TestDirectory(p) \/ CopyEntry(p)
  BY <1>1 DEF TestFile, TestDirectory, CopyEntry, Take
<1>2. ASSUME NEW w \in {"copy", "stat", "mkdir", "utime"}, At(w)
      PROVE  op \in {"cp", "fs_cp"} /\ frames # <<>>
  <2>1. call = [what |-> w, path |-> call.path] /\ MadeFor(leaves, op, call) /\ frames # <<>>
    BY <1>2, CallIs
  <2> QED
    BY <2>1 DEF MadeFor
<1>3. CASE CopyFile
  BY <1>2, <1>3 DEF CopyFile
<1>4. CASE StatDirectory
  BY <1>2, <1>4 DEF StatDirectory
<1>5. CASE MakeDirectory
  BY <1>2, <1>5 DEF MakeDirectory
<1>6. CASE SetTimes
  BY <1>2, <1>6 DEF SetTimes
<1> QED
  BY <1>1, <1>3, <1>4, <1>5, <1>6 DEF cp

LEMMA CopyStep ==
  ASSUME TypeInv, CopyInv, [Next]_vars
  PROVE  CopyInv'
<1>1. leaves \in Trees
  BY TypeParts
<1>2. CASE UNCHANGED vars
  BY <1>2 DEF vars, CopyInv, Owed
<1>3. CASE Write
  BY <1>3 DEF Write, CopyInv, Ops
<1>4. CASE Begin
  <2>1. leaves' \in Trees /\ frames' = <<FirstFrame(leaves')>> /\ FirstFrame(leaves') \in Under(frames')
    BY <1>4, BeginTypes DEF TypeInv
  <2>2. ASSUME NEW leaf \in leaves' PROVE SomeConcern(frames', leaf)
    <3>1. leaf \in Nodes(leaves') /\ leaf \in Path /\ leaf # <<>> /\ <<>> \in Path /\ IsPrefix(<<>>, leaf)
      <4>1. leaf \in Nodes(leaves') /\ leaf \in Path /\ leaf # <<>>
        BY <2>1, LeavesAreNodes
      <4> QED
        BY <4>1, PrefixItself DEF Path
    <3>2. PICK c \in Path : ChildOf(leaves', <<>>, c) /\ IsPrefix(c, leaf)
      BY <2>1, <3>1, Toward
    <3>3. c \in FirstFrame(leaves').left
      BY <3>2 DEF FirstFrame, ChildOf
    <3> QED
      BY <2>1, <3>2, <3>3 DEF SomeConcern, Concerns
  <2> QED
    BY <2>2 DEF CopyInv, Owed
<1>5. CASE cp
  <2>1. UNCHANGED <<op, leaves, meddled>>
    BY <1>5, CopyingIs
  <2>2. \A leaf \in leaves : Owed(leaf) => Owed(leaf)'
    BY <1>5, CopyOwed
  <2> QED
    BY <2>1, <2>2 DEF CopyInv
<1>6. CASE rm
  BY <1>6, RemovalIs DEF CopyInv
<1>7. CASE Return
  <2>1. UNCHANGED <<op, leaves, meddled>>
    BY <1>7 DEF Return
  <2>2. \A leaf \in leaves : Owed(leaf) => Owed(leaf)'
    BY <1>7, ReturnOwed
  <2> QED
    BY <2>1, <2>2 DEF CopyInv
<1>8. ASSUME NEW p \in Nodes(leaves), NEW k \in Others, Meddle(p, k) PROVE CopyInv'
  <2>1. /\ meddled' = meddled \cup {p} /\ UNCHANGED <<op, leaves, frames, call, reported>>
        /\ fs' = [fs EXCEPT ![p] = k]
    BY <1>8 DEF Meddle
  <2>2. ASSUME NEW leaf \in leaves, leaf \notin meddled', Owed(leaf) PROVE Owed(leaf)'
    <3>1. fs'[leaf] = fs[leaf]
      BY <1>1, <2>1, <2>2, LeavesAreNodes DEF TypeInv
    <3> QED
      BY <2>1, <2>2, <3>1 DEF Owed
  <2> QED
    BY <2>1, <2>2 DEF CopyInv
<1> QED
  BY <1>2, <1>3, <1>4, <1>5, <1>6, <1>7, <1>8 DEF Next

-----------------------------------------------------------------------------
(* Removing.                                                               *)

\* Errors are pooled, and what replaces them is an error as well.
LEMMA ChangedError ==
  ASSUME NEW t, NEW o, NEW fr, NEW g, NEW E, NEW L, Changed(t, o, fr, g, E, L)
  PROVE  /\ E # {} => SomeError(g)
         /\ (SomeError(fr) /\ (fr[1].errors \subseteq E \/ E # {})) => SomeError(g)
<1>1. g[1].errors = E /\ g[1] \in Under(g)
  BY ChangedDir
<1>2. Under(fr) \ {fr[1]} \subseteq Under(g)
  BY DEF Changed
<1> QED
  BY <1>1, <1>2 DEF SomeError

LEMMA ReturnedError ==
  ASSUME NEW t, NEW o, NEW fr, NEW g, NEW E, Returned(t, o, fr, g, E)
  PROVE  /\ E # {} => SomeError(g)
         /\ (SomeError(fr) /\ (fr[1].errors \subseteq E \/ E # {})) => SomeError(g)
<1>1. g[1].errors = fr[2].errors \cup E /\ g[1] \in Under(g) /\ Under(fr) \ {fr[1], fr[2]} \subseteq Under(g)
  BY DEF Returned
<1>2. fr[2].errors # {} => SomeError(g)
  BY <1>1 DEF SomeError
<1>3. E # {} => SomeError(g)
  BY <1>1 DEF SomeError
<1> QED
  BY <1>1, <1>2, <1>3 DEF SomeError

\* What no longer waits was under a child that was taken, or is the directory
\* whose call returned.
LEMMA ChangedWaits ==
  ASSUME NEW t, NEW o, NEW fr, NEW g, NEW E, NEW L, Changed(t, o, fr, g, E, L), NEW p, Waits(fr, p)
  PROVE  Waits(g, p) \/ \E c \in fr[1].left \ L : IsPrefix(c, p)
<1>1. g[1].left = L /\ g[1] \in Under(g)
  BY ChangedDir
<1>2. Under(fr) \ {fr[1]} \subseteq Under(g) /\ Emptied(g) = Emptied(fr)
  BY DEF Changed
<1> QED
  BY <1>1, <1>2 DEF Waits

LEMMA ReturnedWaits ==
  ASSUME NEW t, NEW o, NEW fr, NEW g, NEW E, Returned(t, o, fr, g, E), NEW p, Waits(fr, p)
  PROVE  Waits(g, p) \/ p = fr[1].dir \/ \E c \in fr[1].left : IsPrefix(c, p)
<1>1. /\ g[1].left = fr[2].left /\ g[1] \in Under(g) /\ Under(fr) \ {fr[1], fr[2]} \subseteq Under(g)
      /\ Emptied(fr) \ {fr[1].dir} \subseteq Emptied(g)
  BY DEF Returned
<1>2. (\E c \in fr[2].left : IsPrefix(c, p)) => Waits(g, p)
  BY <1>1 DEF Waits
<1> QED
  BY <1>1, <1>2 DEF Waits

LEMMA DescendedWaits ==
  ASSUME TypeInv, NEW p, Take(p), op = "rm" => p \notin leaves, NEW q \in Nodes(leaves)
  PROVE  /\ Waits(frames, q) => Waits(<<Frame(p, FALSE)>> \o Taken(p), q)
         /\ SomeError(frames) => SomeError(<<Frame(p, FALSE)>> \o Taken(p))
<1> DEFINE g == <<Frame(p, FALSE)>> \o Taken(p)
           f == Frame(p, FALSE)
           h == With(Top, Top.errors, Top.left \ {p})
<1>1. leaves \in Trees /\ p \in Path /\ p \in Nodes(leaves) /\ p \in Top.left /\ q \in Path
  BY TypeParts, TakeFacts, LeavesAreNodes
<1>2. Descended(frames, g, f, h)
  BY DescendFacts
<1>3. f.dir = p /\ \A c : c \in f.left <=> ChildOf(leaves, p, c)
  <2>1. FALSE \in BOOLEAN
    OBVIOUS
  <2>2. f.dir = p /\ f.left = Children(p) /\ \A c : c \in Children(p) <=> ChildOf(leaves, p, c)
    BY <1>1, <2>1, NewFrame
  <2> HIDE DEF f
  <2> QED
    BY <2>2
<1>4. h.left = Top.left \ {p} /\ h.errors = Top.errors
  BY DEF With
<1> HIDE DEF f, g, h
<1>5. /\ f \in Under(g) /\ h \in Under(g) /\ Under(frames) \ {Top} \subseteq Under(g)
      /\ p \in Emptied(g) /\ Emptied(frames) \subseteq Emptied(g)
  BY <1>2, <1>3 DEF Descended, Top
<1>6. ASSUME IsPrefix(p, q) PROVE Waits(g, q)
  <2>1. CASE p = q
    BY <1>5, <2>1 DEF Waits
  <2>2. CASE p # q
    <3>1. PICK c \in Path : ChildOf(leaves, p, c) /\ IsPrefix(c, q)
      BY <1>1, <1>6, <2>2, Toward
    <3> QED
      BY <1>3, <1>5, <3>1 DEF Waits
  <2> QED
    BY <2>1, <2>2
<1>7. ASSUME Waits(frames, q) PROVE Waits(g, q)
  BY <1>4, <1>5, <1>6, <1>7 DEF Waits
<1>8. ASSUME SomeError(frames) PROVE SomeError(g)
  BY <1>4, <1>5, <1>8 DEF SomeError
<1> QED
  BY <1>7, <1>8 DEF g

\* The directory of a call that another one made is being emptied.
LEMMA TopEmptied ==
  ASSUME NEW t \in Trees, NEW o, NEW fr, Stack(t, o, fr), fr # <<>>, fr[1].dir # <<>>
  PROVE  fr[1].dir \in Emptied(fr)
<1>1. Len(fr) \in Nat \ {0}
  BY TopHolds
<1>2. 1 \in 1..Len(fr)
  BY <1>1
<1>3. Len(fr) # 1
  BY <1>2 DEF Stack
<1>4. 1 \in 1..(Len(fr) - 1)
  <2>1. \A n \in Nat \ {0} : n # 1 => 1 \in 1..(n - 1)
    OBVIOUS
  <2> QED
    BY <1>1, <1>3, <2>1, Zenon
<1> QED
  BY <1>4 DEF Emptied

\* What stays, stays unless it is changed, or what is in it is.
LEMMA StaysKept ==
  ASSUME leaves \in Trees, fs \in [Nodes(leaves) -> Kind], NEW p \in Nodes(leaves), NEW k,
         fs' = [fs EXCEPT ![p] = k], UNCHANGED <<op, leaves>>,
         NEW q \in Nodes(leaves), q # p, Front(p) # q
  PROVE  fs'[q] = fs[q] /\ (Stays(q) => Stays(q)')
<1>1. fs'[q] = fs[q] /\ DOMAIN fs' = DOMAIN fs
  OBVIOUS
<1>2. IsDir(fs, q) <=> IsDir(fs', q)
  BY <1>1 DEF IsDir
<1>3. \A c \in Children(q) : c # p /\ c \in Nodes(leaves) /\ fs'[c] = fs[c]
  BY DEF Children
<1>4. Children(q)' = Children(q)
  BY DEF Children
<1>5. IsEmpty(q)' <=> IsEmpty(q)
  BY <1>1, <1>3, <1>4 DEF IsEmpty
<1> QED
  BY <1>1, <1>2, <1>5 DEF Stays

LEMMA SettledSame ==
  ASSUME UNCHANGED <<op, leaves, fs, meddled>>, NEW q
  PROVE  Settled(q)' <=> Settled(q)
<1>1. Children(q)' = Children(q)
  BY DEF Children
<1>2. IsEmpty(q)' <=> IsEmpty(q)
  BY <1>1 DEF IsEmpty
<1>3. Stays(q)' <=> Stays(q)
  BY <1>2 DEF Stays
<1> QED
  BY <1>3 DEF Settled

\* Of a child that was taken nothing waits any more; the rest does.
LEMMA TakenSeen ==
  ASSUME TypeInv, NEW p, Take(p), UNCHANGED <<op, leaves, fs, meddled>>, frames' = Taken(p),
         NEW q \in Nodes(leaves), SeenTo(q),
         IsPrefix(p, q) => Settled(q) \/ Called(call', q)
  PROVE  SeenTo(q)'
<1>1. Changed(leaves, op, frames, frames', Top.errors, Top.left \ {p}) /\ call = Walk
  BY TakeFacts
<1>2. Settled(q)' <=> Settled(q)
  BY SettledSame
<1>3. ~Called(call, q)
  BY <1>1 DEF Walk, Called
<1>4. ASSUME Waits(frames, q) PROVE Waits(frames', q) \/ IsPrefix(p, q)
  <2>1. Waits(frames', q) \/ \E c \in frames[1].left \ (Top.left \ {p}) : IsPrefix(c, q)
    BY <1>1, <1>4, ChangedWaits
  <2> QED
    BY <2>1 DEF Top
<1>5. Settled(q) \/ Waits(frames', q) \/ Called(call', q)
  BY <1>3, <1>4 DEF SeenTo
<1> QED
  BY <1>2, <1>5 DEF SeenTo

\* NoName is below what is no directory, or has gone.
LEMMA BelowNone ==
  ASSUME TypeInv, NEW p \in Nodes(leaves), ~IsDir(fs, p), NEW q \in Nodes(leaves), IsPrefix(p, q), p # q
  PROVE  fs[q] = "none"
<1>1. leaves \in Trees /\ DOMAIN fs = Nodes(leaves) /\ Solid(fs)
  BY DEF TypeInv
<1>2. fs[p] \notin {"dir", "full"}
  BY <1>1 DEF IsDir
<1> QED
  BY <1>1, <1>2, NothingBelow

\* What the steps of a removal keep: an error, or that every path is seen to.
LEMMA ErrorKept ==
  ASSUME TypeInv, rm, SomeError(frames)
  PROVE  SomeError(frames')
<1>1. leaves \in Trees /\ Stack(leaves, op, frames)
  BY TypeParts
<1>2. ASSUME NEW p, Take(p), frames' \in {Taken(p), TakenFailed(p)} PROVE SomeError(frames')
  <2>1. CASE frames' = Taken(p)
    <3>1. Changed(leaves, op, frames, frames', Top.errors, Top.left \ {p})
      BY <1>2, <2>1, TakeFacts
    <3>2. frames[1].errors \subseteq Top.errors
      BY DEF Top
    <3> QED
      BY <3>1, <3>2, ChangedError
  <2>2. CASE frames' = TakenFailed(p)
    <3>1. Changed(leaves, op, frames, frames', Top.errors \cup {p}, Top.left \ {p})
      BY <1>2, <2>2, TakeFacts
    <3> QED
      BY <3>1, ChangedError
  <2> QED
    BY <1>2, <2>1, <2>2
<1>3. ASSUME NEW p \in Nodes(leaves), Take(p), op = "rm" => p \notin leaves, frames' = <<Frame(p, FALSE)>> \o Taken(p)
      PROVE  SomeError(frames')
  BY <1>3, DescendedWaits
<1>4. ASSUME NEW p \in Nodes(leaves), Skip(p) \/ NoEntry(p) \/ NoAccess(p) PROVE SomeError(frames')
  BY <1>2, <1>4 DEF Skip, NoEntry, NoAccess
<1>5. ASSUME NEW p \in Nodes(leaves), GiveUp(p) PROVE SomeError(frames')
  <2>1. Take(p) /\ frames' = [frames EXCEPT ![1].left = {}, ![1].errors = {p}]
    BY <1>5 DEF GiveUp
  <2>2. frames # <<>> /\ p \in Path /\ IsPrefix(Top.dir, p)
    BY <2>1, TakeFacts
  <2>3. Changed(leaves, op, frames, frames', {p}, {})
    BY <1>1, <2>1, <2>2, DropChanges
  <2> QED
    BY <2>3, ChangedError
<1>6. ASSUME NEW p \in Nodes(leaves), Find(p) PROVE SomeError(frames')
  BY <1>2, <1>3, <1>6 DEF Find
<1>7. ASSUME NEW p \in Nodes(leaves), RemoveEntry(p) PROVE SomeError(frames')
  BY <1>2, <1>3, <1>7 DEF RemoveEntry
<1>8. ASSUME Unreadable PROVE SomeError(frames')
  BY <1>8, UnreadableFacts, ChangedError, ReturnedError
<1>9. ASSUME NEW w, At(w), w # "walk", frames' = frames \/ Failed(call.path) PROVE SomeError(frames')
  BY <1>9, CallFacts, ChangedError
<1>10. ASSUME Unlink \/ ReadDirectory \/ RemoveDirectory PROVE SomeError(frames')
  BY <1>9, <1>10 DEF Unlink, ReadDirectory, RemoveDirectory
<1> QED
  BY <1>4, <1>5, <1>6, <1>7, <1>8, <1>10 DEF rm

\* Something is removed: the directory it was in is still to be removed.
LEMMA RemovedSeen ==
  ASSUME TypeInv, NEW w, At(w), w # "walk", UNCHANGED <<op, leaves, frames, meddled>>,
         fs' = [fs EXCEPT ![call.path] = "none"], NEW q \in Nodes(leaves), SeenTo(q)
  PROVE  SeenTo(q)'
<1>1. leaves \in Trees /\ Stack(leaves, op, frames) /\ frames # <<>> /\ fs \in [Nodes(leaves) -> Kind]
  BY TypeParts DEF At, TypeInv
<1>2. call.path \in Nodes(leaves) /\ Front(call.path) = Top.dir
  BY CallFacts
<1>3. CASE q = call.path
  <2>1. fs'[q] = "none"
    BY <1>1, <1>2, <1>3
  <2> QED
    BY <2>1 DEF SeenTo, Settled
<1>4. CASE q = Front(call.path)
  <2>1. frames[1].dir # <<>>
    BY <1>1, <1>2, <1>4, LeavesAreNodes DEF Top
  <2>2. q \in Emptied(frames)
    BY <1>1, <1>2, <1>4, <2>1, TopEmptied DEF Top
  <2> QED
    BY <2>2 DEF SeenTo, Waits
<1>5. CASE q # call.path /\ q # Front(call.path)
  <2>1. fs'[q] = fs[q] /\ (Stays(q) => Stays(q)')
    BY <1>1, <1>2, <1>5, StaysKept
  <2>2. ~Called(call, q)
    BY <1>5 DEF Called
  <2> QED
    BY <2>1, <2>2 DEF SeenTo, Settled
<1> QED
  BY <1>3, <1>4, <1>5

LEMMA RemovalSeen ==
  ASSUME TypeInv, rm, NEW q \in Nodes(leaves), SeenTo(q), ~SomeError(frames')
  PROVE  SeenTo(q)'
<1>1. /\ leaves \in Trees /\ Stack(leaves, op, frames) /\ q \in Path
      /\ fs \in [Nodes(leaves) -> Kind] /\ FsHolds(leaves, fs)
  BY TypeParts, LeavesAreNodes DEF TypeInv
<1>2. ASSUME NEW p \in Nodes(leaves), Skip(p) PROVE SeenTo(q)'
  <2>1. /\ Take(p) /\ UNCHANGED <<op, leaves, fs, meddled>> /\ frames' = Taken(p)
        /\ op = "rm" /\ fs[p] \in {"none", "link"}
    BY <1>2 DEF Skip, Lookup
  <2>2. ~IsDir(fs, p)
    BY <1>1, <2>1, LeavesAreNodes DEF IsDir
  <2>3. ASSUME IsPrefix(p, q) PROVE Settled(q)
    <3>1. CASE p = q
      BY <2>1, <3>1 DEF Settled, Stays
    <3>2. CASE p # q
      BY <2>2, <2>3, <3>2, BelowNone DEF Settled
    <3> QED
      BY <3>1, <3>2
  <2> QED
    BY <2>1, <2>3, TakenSeen
<1>3. ASSUME NEW p \in Nodes(leaves), GiveUp(p) PROVE FALSE
  <2>1. Take(p) /\ frames' = [frames EXCEPT ![1].left = {}, ![1].errors = {p}]
    BY <1>3 DEF GiveUp
  <2>2. frames # <<>> /\ p \in Path /\ IsPrefix(Top.dir, p)
    BY <2>1, TakeFacts
  <2>3. Changed(leaves, op, frames, frames', {p}, {})
    BY <1>1, <2>1, <2>2, DropChanges
  <2> QED
    BY <2>3, ChangedError
<1>4. ASSUME NEW p \in Nodes(leaves), Find(p) PROVE SeenTo(q)'
  <2>1. Take(p) /\ UNCHANGED <<op, leaves, fs, meddled>>
    BY <1>4 DEF Find
  <2>2. p \in Path \ {<<>>}
    BY <1>1, LeavesAreNodes
  <2>3. CASE p \in leaves
    <3>1. frames' = Taken(p) /\ call' = [what |-> "unlink", path |-> p]
      BY <1>4, <2>3 DEF Find
    <3>2. IsPrefix(p, q) => p = q
      BY <1>1, <2>2, <2>3, NodesAbove
    <3>3. IsPrefix(p, q) => Called(call', q)
      BY <3>1, <3>2 DEF Called
    <3> QED
      BY <2>1, <3>1, <3>3, TakenSeen
  <2>4. CASE p \notin leaves
    <3>1. frames' = <<Frame(p, FALSE)>> \o Taken(p) /\ call' = call
      BY <1>4, <2>4 DEF Find
    <3>2. Waits(frames, q) => Waits(frames', q)
      BY <2>1, <2>4, <3>1, DescendedWaits
    <3>3. Settled(q)' <=> Settled(q)
      BY <2>1, SettledSame
    <3> QED
      BY <3>1, <3>2, <3>3 DEF SeenTo
  <2> QED
    BY <2>3, <2>4
<1>5. ASSUME NEW p \in Nodes(leaves), NoEntry(p) PROVE SeenTo(q)'
  <2>1. /\ Take(p) /\ UNCHANGED <<op, leaves, fs, meddled>> /\ frames' = Taken(p)
        /\ fs[p] = "none" \/ p \in meddled
    BY <1>5 DEF NoEntry
  <2>2. ASSUME IsPrefix(p, q) PROVE Settled(q)
    <3>1. CASE p \in meddled
      BY <2>2, <3>1 DEF Settled, Touched
    <3>2. CASE fs[p] = "none"
      <4>1. ~IsDir(fs, p)
        BY <1>1, <3>2, LeavesAreNodes DEF IsDir
      <4>2. fs[q] = "none"
        BY <2>2, <3>2, <4>1, BelowNone
      <4> QED
        BY <4>2 DEF Settled
    <3> QED
      BY <2>1, <3>1, <3>2
  <2> QED
    BY <2>1, <2>2, TakenSeen
<1>6. ASSUME NEW p \in Nodes(leaves), NoAccess(p) PROVE FALSE
  <2>1. Take(p) /\ frames' = TakenFailed(p)
    BY <1>6 DEF NoAccess
  <2>2. Changed(leaves, op, frames, frames', Top.errors \cup {p}, Top.left \ {p})
    BY <2>1, TakeFacts
  <2>3. Top.errors \cup {p} # {}
    OBVIOUS
  <2> QED
    BY <2>2, <2>3, ChangedError
<1>7. ASSUME NEW p \in Nodes(leaves), RemoveEntry(p) PROVE SeenTo(q)'
  <2>1. Take(p) /\ op = "fs_rm" /\ UNCHANGED <<op, leaves, meddled>>
    BY <1>7 DEF RemoveEntry
  <2>2. CASE IsDir(fs, p)
    <3>1. frames' = <<Frame(p, FALSE)>> \o Taken(p) /\ call' = call /\ fs' \in {fs, [fs EXCEPT ![p] = "dir"]}
      BY <1>7, <2>2 DEF RemoveEntry
    <3>2. Waits(frames, q) => Waits(frames', q)
      BY <2>1, <3>1, DescendedWaits
    <3>3. Settled(q) => Settled(q)'
      <4>1. ASSUME fs[q] = "none" PROVE fs'[q] = "none"
        <5>1. fs[p] # "none"
          BY <1>7 DEF RemoveEntry
        <5> QED
          BY <1>1, <3>1, <4>1, <5>1
      <4>2. ~Stays(q)
        BY <2>1 DEF Stays
      <4> QED
        BY <2>1, <4>1, <4>2 DEF Settled
    <3> QED
      BY <3>1, <3>2, <3>3 DEF SeenTo
  <2>3. CASE ~IsDir(fs, p)
    <3>1. frames' = Taken(p) /\ call' = [what |-> "unlink", path |-> p] /\ fs' = fs
      BY <1>7, <2>3 DEF RemoveEntry
    <3>2. ASSUME IsPrefix(p, q) PROVE Settled(q) \/ Called(call', q)
      <4>1. CASE p = q
        BY <3>1, <4>1 DEF Called
      <4>2. CASE p # q
        BY <2>3, <3>2, <4>2, BelowNone DEF Settled
      <4> QED
        BY <4>1, <4>2
    <3> QED
      BY <2>1, <3>1, <3>2, TakenSeen
  <2> QED
    BY <2>2, <2>3
<1>8. ASSUME Unreadable PROVE FALSE
  BY <1>8, UnreadableFacts, ChangedError, ReturnedError
<1>9. ASSUME NEW w, At(w), w # "walk" PROVE ~Failed(call.path)
  <2>1. ASSUME Failed(call.path) PROVE FALSE
    <3>1. Changed(leaves, op, frames, frames', Top.errors \cup {call.path}, Top.left)
      BY <1>9, <2>1, CallFacts
    <3>2. Top.errors \cup {call.path} # {}
      OBVIOUS
    <3> QED
      BY <3>1, <3>2, ChangedError
  <2> QED
    BY <2>1
<1>10. ASSUME Unlink PROVE SeenTo(q)'
  <2>1. At("unlink") /\ UNCHANGED <<op, leaves, meddled>>
    BY <1>10 DEF Unlink
  <2>2. fs' = [fs EXCEPT ![call.path] = "none"] /\ UNCHANGED frames
    BY <1>9, <1>10, <2>1 DEF Unlink
  <2> QED
    BY <2>1, <2>2, RemovedSeen
<1>11. ASSUME RemoveDirectory PROVE SeenTo(q)'
  <2>1. At("rmdir") /\ UNCHANGED <<op, leaves, meddled>>
    BY <1>11 DEF RemoveDirectory
  <2>2. fs' = [fs EXCEPT ![call.path] = "none"] /\ UNCHANGED frames
    BY <1>9, <1>11, <2>1 DEF RemoveDirectory
  <2> QED
    BY <2>1, <2>2, RemovedSeen
<1>12. ASSUME ReadDirectory PROVE SeenTo(q)'
  <2>1. At("is_empty") /\ UNCHANGED <<op, leaves, fs, meddled>>
    BY <1>12 DEF ReadDirectory
  <2>2. /\ IsDir(fs, call.path) /\ frames' = frames
        /\ call' = IF IsEmpty(call.path) THEN [call EXCEPT !.what = "rmdir"] ELSE Walk
    BY <1>9, <1>12, <2>1 DEF ReadDirectory
  <2>3. call = [what |-> "is_empty", path |-> call.path] /\ op = "rm" /\ call.path \notin leaves
    <3>1. call = [what |-> "is_empty", path |-> call.path] /\ MadeFor(leaves, op, call)
      BY <2>1, CallIs
    <3> QED
      BY <3>1 DEF MadeFor
  <2>4. Settled(q)' <=> Settled(q)
    BY <2>1, SettledSame
  <2>5. Called(call, q) => Called(call', q) \/ Settled(q)
    <3>1. CASE IsEmpty(call.path)
      <4>1. call' = [what |-> "rmdir", path |-> call.path]
        BY <2>2, <2>3, <3>1
      <4> QED
        BY <4>1 DEF Called
    <3>2. CASE ~IsEmpty(call.path)
      BY <2>2, <2>3, <3>2 DEF Called, Settled, Stays
    <3> QED
      BY <3>1, <3>2
  <2> QED
    BY <2>2, <2>4, <2>5 DEF SeenTo
<1> QED
  BY <1>2, <1>3, <1>4, <1>5, <1>6, <1>7, <1>8, <1>10, <1>11, <1>12 DEF rm

\* A directory that has been walked is removed next, or read.
LEMMA ReturnSeen ==
  ASSUME TypeInv, Return, op \in {"rm", "fs_rm"}, NEW q \in Nodes(leaves)
  PROVE  /\ Erred(frames, reported) => Erred(frames', reported')
         /\ SeenTo(q) => SeenTo(q)'
<1>1. leaves \in Trees /\ Stack(leaves, op, frames)
  BY TypeParts
<1>2. frames # <<>> /\ call = Walk /\ Top.left = {} /\ UNCHANGED <<op, leaves, fs, meddled>>
  BY DEF Return
<1>3. frames \in Seq(FrameType) /\ frames[1] \in FrameType /\ FrameHolds(leaves, op, frames[1])
  BY <1>1, <1>2, TopHolds
<1>4. Top.errors \in SUBSET Path /\ \A p \in Top.errors : IsPrefix(frames[1].dir, p)
  BY <1>3, FrameFields DEF Top, FrameHolds
<1>5. Settled(q)' <=> Settled(q)
  BY <1>2, SettledSame
<1>6. ~Called(call, q)
  BY <1>2 DEF Called, Walk
<1>7. CASE Len(frames) = 1
  <2>1. reported' = Top.errors /\ frames' = <<>>
    BY <1>7 DEF Return
  <2>2. (\A f \in Under(frames) : f = Top) /\ Emptied(frames) = {}
    BY <1>7 DEF Under, Top, Emptied
  <2>3. ~Waits(frames, q)
    BY <1>2, <2>2 DEF Waits
  <2>4. Erred(frames, reported) => Erred(frames', reported')
    BY <1>2, <2>1, <2>2 DEF Erred, SomeError
  <2> QED
    BY <1>5, <1>6, <2>3, <2>4 DEF SeenTo
<1>8. CASE Len(frames) # 1
  <2>1. frames' = [Tail(frames) EXCEPT ![1].errors = @ \cup Top.errors]
    BY <1>8 DEF Return
  <2>2. Returned(leaves, op, frames, frames', Top.errors)
    BY <1>1, <1>2, <1>4, <1>8, <2>1, ReturnChanges
  <2>3. call'.what \in {"rmdir", "is_empty"} /\ call'.path = Top.dir
    BY <1>8 DEF Return
  <2>4. Waits(frames, q) => Waits(frames', q) \/ Called(call', q)
    <3>1. ASSUME Waits(frames, q)
          PROVE  Waits(frames', q) \/ q = frames[1].dir \/ \E c \in frames[1].left : IsPrefix(c, q)
      BY <2>2, <3>1, ReturnedWaits
    <3> QED
      BY <1>2, <2>3, <3>1 DEF Called, Top
  <2>5. Erred(frames, reported) => Erred(frames', reported')
    <3>1. frames[1].errors \subseteq Top.errors
      BY DEF Top
    <3>2. SomeError(frames) => SomeError(frames')
      BY <2>2, <3>1, ReturnedError
    <3> QED
      BY <1>2, <3>2 DEF Erred
  <2> QED
    BY <1>5, <1>6, <2>4, <2>5 DEF SeenTo
<1> QED
  BY <1>7, <1>8

LEMMA MeddleSeen ==
  ASSUME TypeInv, NEW p \in Nodes(leaves), NEW k \in Others, Meddle(p, k), NEW q \in Nodes(leaves), SeenTo(q)
  PROVE  SeenTo(q)'
<1>1. leaves \in Trees /\ fs \in [Nodes(leaves) -> Kind]
  BY DEF TypeInv
<1>2. /\ meddled' = meddled \cup {p} /\ UNCHANGED <<op, leaves, frames, call>>
      /\ fs' = [fs EXCEPT ![p] = k]
  BY DEF Meddle
<1>3. p \in Path \ {<<>>} /\ IsPrefix(p, p) /\ IsPrefix(Front(p), p)
  BY <1>1, LeavesAreNodes, PrefixItself, FrontPrefix
<1>4. CASE q = p \/ q = Front(p)
  <2>1. Touched(q, meddled')
    BY <1>2, <1>3, <1>4 DEF Touched
  <2> QED
    BY <2>1 DEF SeenTo, Settled
<1>5. CASE q # p /\ q # Front(p)
  <2>1. fs'[q] = fs[q] /\ (Stays(q) => Stays(q)')
    BY <1>1, <1>2, <1>5, StaysKept
  <2>2. Touched(q, meddled) => Touched(q, meddled')
    BY <1>2 DEF Touched
  <2> QED
    BY <1>2, <2>1, <2>2 DEF SeenTo, Settled
<1> QED
  BY <1>4, <1>5

LEMMA RemoveStep ==
  ASSUME TypeInv, RemoveInv, [Next]_vars
  PROVE  RemoveInv'
<1>1. CASE UNCHANGED vars
  <2>1. UNCHANGED <<op, leaves, fs, meddled>> /\ UNCHANGED <<frames, call, reported>>
    BY <1>1 DEF vars
  <2>2. \A q : Settled(q)' <=> Settled(q)
    BY <2>1, SettledSame
  <2>3. \A q : SeenTo(q)' <=> SeenTo(q)
    BY <2>1, <2>2 DEF SeenTo
  <2> QED
    BY <2>1, <2>3 DEF RemoveInv
<1>2. CASE Write
  BY <1>2 DEF Write, RemoveInv, Ops
<1>3. CASE Begin
  <2>1. leaves' \in Trees /\ FirstFrame(leaves') \in Under(frames')
    BY <1>3, BeginTypes DEF TypeInv
  <2>2. ASSUME NEW q \in Nodes(leaves') PROVE SeenTo(q)'
    <3>1. q \in Path /\ q # <<>>
      BY <2>1, LeavesAreNodes
    <3>2. <<>> \in Path /\ IsPrefix(<<>>, q)
      BY <3>1, PrefixItself DEF Path
    <3>3. PICK c \in Path : ChildOf(leaves', <<>>, c) /\ IsPrefix(c, q)
      BY <2>1, <3>1, <3>2, Toward
    <3>4. c \in FirstFrame(leaves').left
      BY <3>3 DEF FirstFrame, ChildOf
    <3>5. Waits(frames', q)
      BY <2>1, <3>3, <3>4 DEF Waits
    <3> QED
      BY <3>5 DEF SeenTo
  <2> QED
    BY <2>2 DEF RemoveInv
<1>4. CASE cp
  BY <1>4, CopyingIs DEF RemoveInv
<1>5. CASE rm
  <2>1. op \in {"rm", "fs_rm"} /\ UNCHANGED <<op, leaves, meddled, reported>> /\ frames # <<>>
    BY <1>5, RemovalIs
  <2>2. ASSUME ~SomeError(frames') PROVE \A q \in Nodes(leaves) : SeenTo(q)'
    <3>1. ~Erred(frames, reported)
      BY <1>5, <2>1, <2>2, ErrorKept DEF Erred
    <3>2. \A q \in Nodes(leaves) : SeenTo(q)
      BY <2>1, <3>1 DEF RemoveInv
    <3> QED
      BY <1>5, <2>2, <3>2, RemovalSeen
  <2> QED
    BY <2>1, <2>2 DEF RemoveInv, Erred
<1>6. CASE Return
  <2>1. UNCHANGED <<op, leaves>>
    BY <1>6 DEF Return
  <2>2. ASSUME op \in {"rm", "fs_rm"}, ~Erred(frames', reported'), NEW q \in Nodes(leaves)
        PROVE  SeenTo(q)'
    BY <1>6, <2>2, ReturnSeen DEF RemoveInv
  <2> QED
    BY <2>1, <2>2 DEF RemoveInv
<1>7. ASSUME NEW p \in Nodes(leaves), NEW k \in Others, Meddle(p, k) PROVE RemoveInv'
  <2>1. UNCHANGED <<op, leaves, frames, reported>>
    BY <1>7 DEF Meddle
  <2>2. \A q \in Nodes(leaves) : SeenTo(q) => SeenTo(q)'
    BY <1>7, MeddleSeen
  <2> QED
    BY <2>1, <2>2 DEF RemoveInv
<1> QED
  BY <1>1, <1>2, <1>3, <1>4, <1>5, <1>6, <1>7 DEF Next

-----------------------------------------------------------------------------
(* The theorems.                                                           *)

LEMMA Invariant == Spec => []IInv
<1>1. Init => IInv
  <2> SUFFICES ASSUME Init
               PROVE  IInv
    OBVIOUS
  <2>1. TypeInv
    BY TypeInit
  <2>2. CopyInv /\ RemoveInv
    BY DEF Init, CopyInv, RemoveInv
  <2> QED
    BY <2>1, <2>2 DEF IInv
<1>2. IInv /\ [Next]_vars => IInv'
  BY TypeStep, CopyStep, RemoveStep DEF IInv
<1> QED
  BY <1>1, <1>2, PTL DEF Spec

\* For every list of files and every directory, however the calls fail and
\* whatever other processes do: the list spans a tree, the calls that are under
\* way go down one path of it, and what is somewhere is in a directory.
THEOREM TypeCorrect == Spec => []TypeInv
<1>1. IInv => TypeInv
  BY DEF IInv
<1> QED
  BY <1>1, Invariant, PTL

\* copy_files() and cp() copy every file, or their exception is about it or a
\* directory above it.
THEOREM Copied == Spec => []CopiedOrReported
<1>1. IInv => CopiedOrReported
  <2> SUFFICES ASSUME IInv, Ended({"cp", "fs_cp"}), NEW leaf \in leaves \ meddled
               PROVE  fs[leaf] = "copy" \/ \E p \in reported : IsPrefix(p, leaf)
    BY DEF CopiedOrReported
  <2>1. Owed(leaf) /\ frames = <<>> /\ call = Walk
    BY DEF IInv, CopyInv, Ended
  <2>2. Under(frames) = {}
    BY <2>1 DEF Under
  <2> QED
    BY <2>1, <2>2 DEF Owed, SomeConcern, Walk
<1> QED
  BY <1>1, Invariant, PTL

\* rm_files_with_empty_dirs() and rm() leave nothing that they should have
\* removed, or throw.
THEOREM Removed == Spec => []RemovedOrReported
<1>1. IInv => RemovedOrReported
  <2> SUFFICES ASSUME IInv, Ended({"rm", "fs_rm"}), reported = {}, NEW p \in Nodes(leaves)
               PROVE  fs[p] = "none" \/ Stays(p) \/ Disturbed(p)
    BY DEF RemovedOrReported
  <2>1. op \in {"rm", "fs_rm"} /\ frames = <<>> /\ call = Walk
    BY DEF Ended
  <2>2. Under(frames) = {} /\ Emptied(frames) = {}
    BY <2>1 DEF Under, Emptied
  <2>3. ~Erred(frames, reported)
    BY <2>2 DEF Erred, SomeError
  <2>4. SeenTo(p)
    BY <2>1, <2>3 DEF IInv, RemoveInv
  <2> QED
    BY <2>1, <2>2, <2>4 DEF SeenTo, Settled, Waits, Called, Touched, Walk, Disturbed
<1> QED
  BY <1>1, Invariant, PTL

\* The normal form of a path in the list, whatever its length, leads where the
\* path leads from any directory that is not too deep, and is the shortest that
\* does; basename() and dirname() take the path apart, and absolute() anchors it.
\* Not said of paths that begin with three slashes, nor, of absolute(), with two.
THEOREM NormalFormIsRight == Spec => []NormalFormAgrees
<1>1. IInv => NormalFormAgrees
  BY PathsAgree DEF IInv, TypeInv
<1> QED
  BY <1>1, Invariant, PTL

\* create() makes a tree of files that are inside of the root exactly when none is
\* another one or under another one, and no other tree; of files that are not
\* inside it accepts only the ones around the root that TreeIsExact names.
THEOREM TreeIsRight == Spec => []TreeIsExact
<1>1. IInv => TreeIsExact
  BY TreeIs DEF IInv, TypeInv
<1> QED
  BY <1>1, Invariant, PTL

-----------------------------------------------------------------------------
(***************************************************************************)
(* The files of a torrent.                                                 *)
(***************************************************************************)

\* The words of a torrent that are no bytes.
Clean == Component \ DOMAIN Decoded

LEMMA CleanIs ==
  /\ Clean \in Words /\ Clean \subseteq Component
  /\ {"", ".", ".."} \subseteq Clean
  /\ NoName \in Clean
<1>1. {"", ".", ".."} \cap DOMAIN Decoded = {}
  BY TorrentAssumption, NameAssumption
<1> QED
  BY <1>1 DEF Clean, Words, Component, NoName

LEMMA PlainNames == Name \subseteq Component /\ Name \subseteq Plain(Word) /\ NoName \notin Name /\ ".." \notin Name
BY NameAssumption DEF Plain, Word, Component, NoName

\* Names lead to themselves.
LEMMA NamesLead ==
  ASSUME NEW names \in Seq(Name)
  PROVE  names \in Path /\ names \in Trail /\ Follow(<<>>, names) = names
<1>1. names \in Path
  <2>1. \A j \in 1..Len(names) : names[j] \in Component
    BY PlainNames, ElementOfSeq
  <2> QED
    BY <2>1, SeqDef, LenProperties DEF Path
<1>2. names \in Seq(Plain(Word)) /\ \A j \in 1..Len(names) : names[j] # ".."
  <2>1. \A j \in 1..Len(names) : names[j] \in Plain(Word) /\ names[j] # ".."
    BY PlainNames, ElementOfSeq
  <2> QED
    BY <2>1, SeqDef, LenProperties
<1>3. Follow(<<>>, names) = <<>> \o names
  BY <1>2, EmptyTrail, FollowDown
<1>4. <<>> \o names = names
  BY ConcatEmptySeq
<1> QED
  BY <1>1, <1>3, <1>4, WordIs

\* What is left of a path with a slash before it is where it leads: names only.
LEMMA SlashNames ==
  ASSUME NEW W \in Words, W \subseteq Component, NEW path \in Seq(W), HasSlash(path)
  PROVE  /\ Left(path) \in Seq(W) /\ Left(path) \in Seq(Name)
         /\ Left(path) = Follow(<<>>, path)
<1>1. path \in Path
  <2>1. \A j \in 1..Len(path) : path[j] \in Component
    BY ElementOfSeq
  <2> QED
    BY <2>1, SeqDef, LenProperties DEF Path
<1>2. PICK l : l = Left(path)
  OBVIOUS
<1>3. l \in Seq(Plain(W))
  <2>1. PICK s : s = Single(path)
    OBVIOUS
  <2>2. s \in Seq(W)
    BY <2>1, SingleIs
  <2> QED
    BY <1>2, <2>1, <2>2, JoinsType DEF Left
<1>4. l \in Seq(W)
  BY <1>3, PlainIs
<1>5. \A j \in 1..Len(l) : l[j] \in Name
  BY <1>1, <1>2, LeftNames
<1>6. l \in Seq(Name)
  BY <1>4, <1>5, SeqDef, LenProperties
<1>7. path \in Trail
  BY <1>1, WordIs
<1>8. Follow(<<>>, l) = Follow(<<>>, path)
  BY <1>2, <1>7, EmptyTrail, LeftLeads
<1> QED
  BY <1>2, <1>4, <1>6, <1>8, NamesLead

\* The slash that get_torrent_file_path() puts before a path.
LEMMA SlashBefore ==
  ASSUME NEW path \in Path, NEW x, x = <<NoName>> \o path
  PROVE  /\ x \in Path /\ Len(x) = Len(path) + 1 /\ Len(path) \in Nat /\ x[1] = NoName
         /\ \A i \in 1..Len(path) : x[i + 1] = path[i]
         /\ Follow(<<>>, x) = Follow(<<>>, path)
         /\ get_torrent_file_path(path) = normalize(x)
<1>1. PICK c \in Component : c = NoName
  BY ComponentIs
<1>2. PICK o : o = <<c>>
  OBVIOUS
<1>3. o \in Seq(Component) /\ Len(o) = 1 /\ o[1] = c
  BY <1>2, OneOf
<1>4. path \in Seq(Component) /\ Len(path) \in Nat
  BY LenProperties DEF Path
<1>5. x = o \o path
  BY <1>1, <1>2
<1>6. x \in Seq(Component) /\ Len(x) = Len(o) + Len(path)
  BY <1>3, <1>4, <1>5, ConcatIs
<1>7. \A i \in 1..Len(o) : x[i] = o[i]
  BY <1>3, <1>4, <1>5, ConcatIs
<1>8. \A i \in 1..Len(path) : x[Len(o) + i] = path[i]
  BY <1>3, <1>4, <1>5, ConcatIs
<1>9. Len(x) = Len(path) + 1 /\ x[1] = c /\ \A i \in 1..Len(path) : x[i + 1] = path[i]
  BY <1>3, <1>4, <1>6, <1>7, <1>8
<1>10. Follow(<<>>, x) = Follow(<<>>, path)
  <2>1. c \in Word
    BY <1>1, WordsAre
  <2>2. o \in Trail /\ \A s \in Trail : Follow(s, o) = Through(s, c)
    BY <1>2, <2>1, OneIs
  <2>3. path \in Trail
    BY WordIs
  <2>4. PICK none \in Trail : none = <<>>
    BY EmptyTrail
  <2>5. Follow(none, x) = Follow(Follow(none, o), path)
    <3>1. o \in Trail
      BY <2>2
    <3>2. Follow(none, o \o path) = Follow(Follow(none, o), path)
      BY <2>3, <3>1, FollowConcat
    <3> QED
      BY <1>5, <3>2
  <2>6. Follow(none, o) = none
    BY <1>1, <2>2, ThroughNoName
  <2> QED
    BY <2>4, <2>5, <2>6
<1>11. get_torrent_file_path(path) = normalize(x)
  BY Zenon DEF get_torrent_file_path, NoName
<1> QED
  BY <1>1, <1>4, <1>6, <1>9, <1>10, <1>11 DEF Path

\* What get_torrent_file_path() makes of a path, unless it is refused.
LEMMA FilePathIs ==
  ASSUME NEW path \in Path, ~InvalidPath(get_torrent_file_path(path))
  PROVE  LET q == get_torrent_file_path(path)
         IN  Len(q) > 1 /\ Head(q) = NoName /\ Range(Tail(q)) \subseteq Name
<1>1. PICK x : x = <<NoName>> \o path
  OBVIOUS
<1>2. /\ x \in Path /\ Len(x) = Len(path) + 1 /\ Len(path) \in Nat /\ x[1] = NoName
      /\ get_torrent_file_path(path) = normalize(x)
  BY <1>1, SlashBefore
<1>3. PICK q : q = normalize(x)
  OBVIOUS
<1>4. IsAbsolute(q) /\ q # <<NoName, NoName>>
  BY <1>2, <1>3, Zenon DEF InvalidPath, NoName
<1>5. Len(q) > 1 /\ q[1] = NoName
  BY <1>4, SlashIs
<1>6. x \in Seq(Component)
  BY <1>2 DEF Path
<1>7. ~IsSpoilt(x)
  BY <1>3, <1>4, <1>6, ComponentIs, SpoiltType
<1>8. HasSlash(x)
  <2>1. CASE path = <<>>
    <3>1. PICK o : o = <<NoName>>
      OBVIOUS
    <3>2. x = o /\ Len(o) = 1
      <4>1. o \in Seq({NoName})
        BY <3>1, OneOf
      <4>2. o \o <<>> = o
        BY <4>1, ConcatEmptySeq
      <4> QED
        BY <1>1, <2>1, <3>1, <4>2
    <3>3. normalize(o) = o
      <4>1. normalize(x) = IF x = <<"">> THEN x ELSE IF HasSlash(x) THEN Rooted(Left(x)) ELSE Spelled(Left(x))
        BY <1>6, <1>7, NormalizeIs
      <4> QED
        BY <3>1, <3>2, <4>1, Zenon DEF NoName
    <3>4. ~(Len(o) > 1)
      BY <3>2, NotOne, Zenon
    <3> QED
      BY <1>3, <1>5, <3>2, <3>3, <3>4
  <2>2. CASE path # <<>>
    <3>1. Len(path) # 0
      BY <2>2, EmptySeq DEF Path
    <3>2. Len(x) > 1
      BY <1>2, <3>1
    <3> QED
      BY <1>2, <3>2, SlashIs
  <2> QED
    BY <2>1, <2>2
<1>9. PICK l : l = Left(x)
  OBVIOUS
<1>10. l \in Seq(Name) /\ l \in Seq(Component)
  BY <1>6, <1>8, <1>9, ComponentIs, SlashNames
<1>11. q = Rooted(l)
  <2>1. x # <<"">>
    <3>1. PICK o : o = <<NoName>>
      OBVIOUS
    <3>2. Len(o) = 1
      BY <3>1
    <3>3. Len(x) > 1
      BY <1>8, SlashIs
    <3>4. x # o
      BY <3>2, <3>3, NotOne, Zenon
    <3> QED
      BY <3>1, <3>4, Zenon DEF NoName
  <2> QED
    BY <1>3, <1>6, <1>7, <1>8, <1>9, <2>1, NormalizeIs
<1>12. l # <<>>
  BY <1>4, <1>11, Zenon DEF Rooted, NoName
<1>13. q \in Seq(Component) /\ Tail(q) = l
  BY <1>10, <1>11, <1>12, ComponentIs, RootedIs
<1>14. q # <<>>
  BY <1>5
<1>15. Head(q) = q[1]
  BY <1>13, <1>14, TailOf
<1>16. Range(l) \subseteq Name
  BY <1>10 DEF Range
<1> QED
  BY <1>2, <1>3, <1>5, <1>13, <1>15, <1>16

\* A path of names with a slash before it is left alone.
LEMMA FilePathOf ==
  ASSUME NEW names \in Seq(Name)
  PROVE  get_torrent_file_path(Rooted(names)) = Rooted(names)
<1>1. names \in Path /\ names \in Trail /\ Follow(<<>>, names) = names
  BY NamesLead
<1>2. PICK r : r = Rooted(names)
  OBVIOUS
<1>3. names \in Seq(Component)
  BY <1>1 DEF Path
<1>4. /\ r \in Seq(Component) /\ HasSlash(r)
      /\ Len(r) = IF names = <<>> THEN 2 ELSE Len(names) + 1
      /\ \A i \in 1..Len(names) : r[i + 1] = names[i]
  BY <1>2, <1>3, ComponentIs, RootedIs
<1>5. Len(r) > 1 /\ r[1] = NoName /\ Len(r) \in Nat
  BY <1>4, SlashIs, LenProperties
<1>6. r \in Path
  BY <1>4 DEF Path
<1>7. PICK x : x = <<NoName>> \o r
  OBVIOUS
<1>8. /\ x \in Path /\ Len(x) = Len(r) + 1 /\ x[1] = NoName
      /\ \A i \in 1..Len(r) : x[i + 1] = r[i]
      /\ Follow(<<>>, x) = Follow(<<>>, r)
      /\ get_torrent_file_path(r) = normalize(x)
  BY <1>6, <1>7, SlashBefore
<1>9. x \in Seq(Component)
  BY <1>8 DEF Path
<1>10. HasSlash(x)
  <2>1. Len(x) > 1
    BY <1>5, <1>8
  <2> QED
    BY <1>8, <2>1, SlashIs
<1>11. ~IsSpoilt(x)
  <2>1. ASSUME Len(x) > 3 PROVE x[3] # NoName
    <3>1. names # <<>>
      <4>1. names = <<>> => Len(r) = 2
        BY <1>4
      <4>2. Len(r) # 2
        BY <1>5, <1>8, <2>1
      <4> QED
        BY <4>1, <4>2
    <3>2. Len(names) \in Nat \ {0}
      BY <3>1, EmptySeq, LenProperties
    <3>3. 1 \in 1..Len(names) /\ 2 \in 1..Len(r)
      BY <1>4, <3>1, <3>2
    <3>4. x[3] = r[2] /\ r[2] = names[1]
      BY <1>4, <1>8, <3>3
    <3>5. names[1] \in Name
      BY <3>3, ElementOfSeq
    <3> QED
      BY <3>4, <3>5, PlainNames
  <2> QED
    BY <1>9, <2>1, SpoiltIs
<1>12. Left(x) = Follow(<<>>, x)
  BY <1>9, <1>10, ComponentIs, SlashNames
<1>13. Follow(<<>>, r) = names
  <2>1. PICK none \in Trail : none = <<>>
    BY EmptyTrail
  <2>2. Follow(none, r) = Follow(none, names)
    BY <1>1, <1>2, RootedLeads
  <2> QED
    BY <1>1, <2>1, <2>2
<1>14. normalize(x) = Rooted(Left(x))
  <2>1. x # <<"">>
    <3>1. PICK o : o = <<NoName>>
      OBVIOUS
    <3>2. Len(o) = 1
      BY <3>1
    <3>3. Len(x) > 1
      BY <1>10, SlashIs
    <3>4. x # o
      BY <3>2, <3>3, NotOne, Zenon
    <3> QED
      BY <3>1, <3>4, Zenon DEF NoName
  <2> QED
    BY <1>9, <1>10, <1>11, <2>1, NormalizeIs
<1> QED
  BY <1>2, <1>8, <1>12, <1>13, <1>14

\* Spelt bytes are none, and what has none is left alone.
LEMMA SpeltIs ==
  ASSUME NEW path \in Path
  PROVE  /\ U2LT(path) \in Seq(Clean)
         /\ path \in Seq(Clean) => U2LT(path) = path
<1>1. Len(path) \in Nat /\ DOMAIN path = 1..Len(path) /\ \A j \in 1..Len(path) : path[j] \in Component
  BY DEF Path
<1>2. Broken \in Clean
  BY TorrentAssumption DEF Clean, Component
<1>3. \A j \in 1..Len(path) : validate_utf(path[j]) \in Clean
  BY <1>1, <1>2 DEF validate_utf, Clean
<1>4. U2LT(path) = [j \in 1..Len(path) |-> validate_utf(path[j])]
  BY <1>1 DEF U2LT
<1>5. U2LT(path) \in Seq(Clean)
  BY <1>1, <1>3, <1>4, SeqDef
<1>6. ASSUME path \in Seq(Clean) PROVE U2LT(path) = path
  <2>1. \A j \in 1..Len(path) : path[j] \in Clean
    BY <1>6, ElementOfSeq
  <2>2. \A j \in 1..Len(path) : validate_utf(path[j]) = path[j]
    BY <2>1 DEF validate_utf, Clean
  <2>3. PICK u : u = U2LT(path)
    OBVIOUS
  <2>4. u \in Seq(Clean) /\ Len(u) = Len(path) /\ \A j \in 1..Len(path) : u[j] = path[j]
    BY <1>1, <1>4, <1>5, <2>2, <2>3
  <2>5. u = path
    BY <1>6, <2>4, SeqEqual
  <2> QED
    BY <2>3, <2>5
<1> QED
  BY <1>5, <1>6

LEMMA ConvertedIs ==
  ASSUME NEW path \in Path
  PROVE  convert_path(path) \in Seq(Clean)
<1>1. Len(path) \in Nat /\ DOMAIN path = 1..Len(path) /\ \A j \in 1..Len(path) : path[j] \in Component
  BY DEF Path
<1>2. Broken \in Clean /\ \A r \in DOMAIN Decoded : Decoded[r] \in Clean
  BY TorrentAssumption DEF Clean, Component
<1>3. {"", ".", ".."} \subseteq Clean
  BY CleanIs
<1>4. \A j \in 1..Len(path) : convert_name(path[j]) \in Clean
  BY <1>1, <1>2, <1>3 DEF convert_name
<1>5. convert_path(path) = [j \in 1..Len(path) |-> convert_name(path[j])]
  BY <1>1 DEF convert_path
<1> QED
  BY <1>1, <1>4, <1>5, SeqDef

\* The fields of a torrent.
LEMMA TorrentFields ==
  ASSUME NEW t \in Torrents
  PROVE  t.name_utf8 \in NameEntry /\ t.name \in NameEntry /\ t.files_utf8 \in ListEntry /\ t.files \in ListEntry
BY TorrentAssumption

LEMMA NameIs ==
  ASSUME NEW t \in Torrents, torrent_name(t) # InvalidTorrent
  PROVE  torrent_name(t) \in Clean /\ torrent_name(t) # NoName
<1>1. t.name_utf8 \in NameEntry /\ t.name \in NameEntry
  BY TorrentFields
<1>2. Broken \in Name \ DOMAIN Decoded /\ \A r \in DOMAIN Decoded : Decoded[r] \in Name \ DOMAIN Decoded
  BY TorrentAssumption
<1>3. \A n \in Name \ DOMAIN Decoded : n \in Clean /\ n # NoName
  BY PlainNames DEF Clean
<1>4. {"", ".", ".."} \subseteq Clean
  BY CleanIs
<1>5. CASE t.name_utf8 \notin {None, Bad}
  <2>1. torrent_name(t) = validate_utf(t.name_utf8)
    BY <1>5 DEF torrent_name
  <2>2. t.name_utf8 \in Component /\ t.name_utf8 # NoName
    BY <1>1, <1>5 DEF NameEntry, Bad, NoName
  <2> QED
    BY <1>2, <1>3, <2>1, <2>2 DEF validate_utf, Clean
<1>6. CASE t.name_utf8 = None /\ t.name \notin {None, Bad}
  <2>1. torrent_name(t) = convert_name(t.name)
    BY <1>6 DEF torrent_name
  <2>2. t.name # NoName
    BY <1>6, Zenon DEF Bad, NoName
  <2>3. CASE t.name \in DOMAIN Decoded
    <3>1. t.name \notin {"", ".", ".."}
      BY <2>3, TorrentAssumption, NameAssumption
    <3>2. torrent_name(t) = Decoded[t.name]
      BY <2>1, <2>3, <3>1 DEF convert_name
    <3>3. Decoded[t.name] \in Name \ DOMAIN Decoded
      BY <1>2, <2>3
    <3> QED
      BY <1>3, <3>2, <3>3
  <2>4. CASE t.name \notin DOMAIN Decoded /\ t.name \in {"", ".", ".."}
    <3>1. torrent_name(t) = t.name
      BY <2>1, <2>4 DEF convert_name
    <3> QED
      BY <1>4, <2>2, <2>4, <3>1
  <2>5. CASE t.name \notin DOMAIN Decoded /\ t.name \notin {"", ".", ".."}
    <3>1. torrent_name(t) = Broken
      BY <2>1, <2>5 DEF convert_name
    <3> QED
      BY <1>2, <1>3, <3>1
  <2> QED
    BY <2>3, <2>4, <2>5
<1>7. ASSUME t.name_utf8 \in {None, Bad}, ~(t.name_utf8 = None /\ t.name \notin {None, Bad})
      PROVE  torrent_name(t) = InvalidTorrent
  BY <1>7 DEF torrent_name
<1> QED
  BY <1>5, <1>6, <1>7

\* The path of a file, in the list of it.
PathIn(f) == Preferred(f.path_utf8, f.path)

LEMMA PreferredIs ==
  ASSUME NEW f \in FileEntry, PathIn(f) # None
  PROVE  PathIn(f) \in Path
<1>1. f.path_utf8 \in PathEntry /\ f.path \in PathEntry
  BY DEF FileEntry
<1> QED
  BY <1>1 DEF PathIn, Preferred, PathEntry, Path

LEMMA FileIs ==
  ASSUME NEW f \in FileEntry \cup {NotADict}, ~InvalidFile(f)
  PROVE  f \in FileEntry /\ PathIn(f) \in Path
<1>1. f # NotADict /\ PathIn(f) # None
  BY DEF InvalidFile, PathIn
<1> QED
  BY <1>1, PreferredIs

LEMMA FilesIs ==
  ASSUME NEW t \in Torrents, Files(t) # None
  PROVE  Files(t) \in Seq(FileEntry \cup {NotADict})
<1>1. t.files_utf8 \in ListEntry /\ t.files \in ListEntry
  BY TorrentFields
<1> QED
  BY <1>1 DEF Files, Preferred, ListEntry

\* What is read of the path of a file, and the path made of it.
Read(utf, f) == IF utf THEN PathIn(f) ELSE convert_path(PathIn(f))
InTorrent(t, path) == normalize(Rooted(<<torrent_name(t)>>) \o path)
Placed(t, path) == U2LT(InTorrent(t, path))

LEMMA PlacedIs ==
  ASSUME NEW t \in Torrents, torrent_name(t) # InvalidTorrent, NEW path \in Path
  PROVE  /\ Placed(t, path) \in Path
         /\ path \in Seq(Clean) => get_torrent_file_path(Placed(t, path)) = InTorrent(t, path)
<1>1. PICK c : c = torrent_name(t)
  OBVIOUS
<1>2. c \in Clean /\ c # NoName
  BY <1>1, NameIs
<1>3. Clean \in Words /\ Clean \subseteq Component /\ NoName \in Clean
  BY CleanIs
<1>4. path \in Seq(Component)
  BY DEF Path
<1>5. PICK x : x = Rooted(<<c>>) \o path
  OBVIOUS
<1>6. InTorrent(t, path) = normalize(x)
  BY <1>1, <1>5 DEF InTorrent
<1>7. ASSUME NEW W \in Words, W \subseteq Component, NoName \in W, c \in W, path \in Seq(W)
      PROVE  /\ Left(x) \in Seq(W) /\ Left(x) \in Seq(Name)
             /\ normalize(x) = Rooted(Left(x)) /\ Rooted(Left(x)) \in Seq(W)
  <2>1. PICK o : o = <<c>>
    OBVIOUS
  <2>2. o \in Seq(W) /\ Len(o) = 1 /\ o[1] = c /\ o # <<>>
    BY <1>7, <2>1, OneOf
  <2>3. PICK r : r = Rooted(o)
    OBVIOUS
  <2>4. r \in Seq(W) /\ HasSlash(r) /\ Len(r) = 2 /\ r[2] = c
    <3>1. /\ r \in Seq(W) /\ HasSlash(r) /\ Len(r) = IF o = <<>> THEN 2 ELSE Len(o) + 1
          /\ \A i \in 1..Len(o) : r[i + 1] = o[i]
      BY <1>7, <2>2, <2>3, RootedIs
    <3> QED
      BY <2>2, <3>1
  <2>5. r[1] = NoName
    BY <2>4, SlashIs
  <2>6. x = r \o path
    BY <1>5, <2>1, <2>3
  <2>7. x \in Seq(W) /\ Len(x) = Len(r) + Len(path)
    BY <1>7, <2>4, <2>6, ConcatIs
  <2>8. \A i \in 1..Len(r) : x[i] = r[i]
    BY <1>7, <2>4, <2>6, ConcatIs
  <2>9. x[1] = NoName /\ x[2] # NoName
    BY <1>2, <2>4, <2>5, <2>8
  <2>10. Len(x) > 1
    <3>1. Len(path) \in Nat
      BY <1>7, LenProperties
    <3> QED
      BY <2>4, <2>7, <3>1
  <2>11. HasSlash(x)
    BY <2>9, <2>10, SlashIs
  <2>12. ~IsSpoilt(x)
    BY <2>7, <2>9, SpoiltIs
  <2>13. Left(x) \in Seq(W) /\ Left(x) \in Seq(Name)
    BY <1>7, <2>7, <2>11, SlashNames
  <2>14. normalize(x) = Rooted(Left(x))
    <3>1. x # <<"">>
      <4>1. PICK e : e = <<NoName>>
        OBVIOUS
      <4>2. Len(e) = 1
        BY <4>1
      <4>3. x # e
        BY <2>10, <4>2, NotOne, Zenon
      <4> QED
        BY <4>1, <4>3, Zenon DEF NoName
    <3> QED
      BY <2>7, <2>11, <2>12, <3>1, NormalizeIs
  <2>15. Rooted(Left(x)) \in Seq(W)
    BY <1>7, <2>13, RootedIs
  <2> QED
    BY <2>13, <2>14, <2>15
<1>8. /\ Left(x) \in Seq(Name)
      /\ normalize(x) = Rooted(Left(x)) /\ Rooted(Left(x)) \in Seq(Component)
  <2>1. c \in Component
    BY <1>2, <1>3
  <2> QED
    BY <1>4, <1>7, <2>1, ComponentIs
<1>9. Rooted(Left(x)) \in Path
  BY <1>8 DEF Path
<1>10. Placed(t, path) = U2LT(Rooted(Left(x)))
  BY <1>6, <1>8 DEF Placed
<1>11. Placed(t, path) \in Path
  <2>1. U2LT(Rooted(Left(x))) \in Seq(Clean)
    BY <1>9, SpeltIs
  <2>2. PICK u : u = U2LT(Rooted(Left(x)))
    OBVIOUS
  <2>3. \A j \in 1..Len(u) : u[j] \in Component
    BY <1>3, <2>1, <2>2, ElementOfSeq
  <2>4. u \in Seq(Component)
    BY <2>1, <2>2, <2>3, SeqDef, LenProperties
  <2> QED
    BY <1>10, <2>2, <2>4 DEF Path
<1>12. ASSUME path \in Seq(Clean)
       PROVE  get_torrent_file_path(Placed(t, path)) = InTorrent(t, path)
  <2>1. Rooted(Left(x)) \in Seq(Clean)
    BY <1>2, <1>3, <1>7, <1>12
  <2>2. Placed(t, path) = Rooted(Left(x))
    BY <1>9, <1>10, <2>1, SpeltIs
  <2>3. get_torrent_file_path(Rooted(Left(x))) = Rooted(Left(x))
    BY <1>8, FilePathOf
  <2> QED
    BY <1>6, <1>8, <2>2, <2>3
<1> QED
  BY <1>11, <1>12

LEMMA NewPathIs ==
  ASSUME NEW t \in Torrents, torrent_name(t) # InvalidTorrent, NEW utf, NEW f, PathIn(f) \in Path
  PROVE  /\ NewPath(t, utf, f) \in Path
         /\ Read(utf, f) \in Seq(Clean) =>
              get_torrent_file_path(NewPath(t, utf, f)) = InTorrent(t, Read(utf, f))
<1>1. NewPath(t, utf, f) = Placed(t, Read(utf, f))
  BY DEF NewPath, Read, PathIn, Placed, InTorrent
<1>2. convert_path(PathIn(f)) \in Path
  <2>1. convert_path(PathIn(f)) \in Seq(Clean) /\ Clean \subseteq Component
    BY ConvertedIs, CleanIs
  <2> QED
    BY <2>1 DEF Path
<1>3. Read(utf, f) \in Path
  BY <1>2 DEF Read
<1> QED
  BY <1>1, <1>3, PlacedIs

\* libtorrent makes paths of a torrent that it takes.
LEMMA LibraryIs ==
  ASSUME NEW t \in Torrents, ~LibraryRefuses(t)
  PROVE  LibraryStorage(t) \in Seq(Path)
<1> DEFINE n == Preferred(t.name_utf8, t.name)
<1>1. n \in Component
  <2>1. t.name_utf8 \in NameEntry /\ t.name \in NameEntry
    BY TorrentFields
  <2>2. n # None
    BY DEF LibraryRefuses
  <2> QED
    BY <2>1, <2>2 DEF Preferred, NameEntry
<1>2. <<n>> \in Path
  BY <1>1 DEF Path
<1>3. \A p \in Path : U2LT(p) \in Path
  <2>1. Clean \subseteq Component
    BY CleanIs
  <2> QED
    BY <2>1, SpeltIs DEF Path
<1> HIDE DEF n
<1>4. CASE t.files = None
  <2>1. LibraryStorage(t) = <<U2LT(<<n>>)>>
    BY <1>4 DEF LibraryStorage, n
  <2>2. PICK p : p = U2LT(<<n>>)
    OBVIOUS
  <2>3. p \in Path
    BY <1>2, <1>3, <2>2
  <2>4. <<p>> \in Seq(Path)
    BY <2>3
  <2> QED
    BY <2>1, <2>2, <2>4
<1>5. CASE t.files # None
  <2>1. t.files \in Seq(FileEntry \cup {NotADict})
    BY <1>5, TorrentFields DEF ListEntry
  <2>2. Len(t.files) \in Nat /\ DOMAIN t.files = 1..Len(t.files)
        /\ \A i \in 1..Len(t.files) : t.files[i] \in FileEntry \cup {NotADict}
    BY <2>1, LenProperties, ElementOfSeq
  <2>3. LibraryStorage(t) = [i \in 1..Len(t.files) |-> LibraryFile(t, t.files[i])]
    BY <1>5, <2>2 DEF LibraryStorage
  <2>4. ASSUME NEW i \in 1..Len(t.files)
        PROVE  LibraryFile(t, t.files[i]) \in Path
    <3>1. PICK f : f = t.files[i]
      OBVIOUS
    <3>2. f # NotADict /\ PathIn(f) # None
      BY <1>5, <2>2, <3>1 DEF LibraryRefuses, PathIn
    <3>3. f \in FileEntry
      BY <2>2, <3>1, <3>2
    <3>4. PathIn(f) \in Path
      BY <3>2, <3>3, PreferredIs
    <3>5. <<n>> \o PathIn(f) \in Path
      BY <1>2, <3>4, ConcatProperties DEF Path
    <3>6. LibraryFile(t, f) = U2LT(<<n>> \o PathIn(f))
      BY <3>2 DEF LibraryFile, PathIn, n
    <3> QED
      BY <1>3, <3>1, <3>5, <3>6
  <2> QED
    BY <2>2, <2>3, <2>4, SeqDef
<1> QED
  BY <1>4, <1>5

\* A path is put in its place, unless the first file has it.
LEMMA RenameIs ==
  ASSUME NEW storage \in Seq(Path), NEW id \in 1..Len(storage), NEW path \in Path
  PROVE  /\ rename_file(storage, id, path) \in Seq(Path)
         /\ Len(rename_file(storage, id, path)) = Len(storage)
         /\ \A i \in 1..Len(storage) : i # id => rename_file(storage, id, path)[i] = storage[i]
         /\ rename_file(storage, id, path)[id] = path \/ storage[1] = path
         /\ id = 1 => rename_file(storage, id, path)[1] = path
<1>1. Len(storage) \in Nat /\ DOMAIN storage = 1..Len(storage) /\ 1 \in 1..Len(storage)
      /\ \A i \in 1..Len(storage) : storage[i] \in Path
  BY LenProperties, ElementOfSeq
<1>2. CASE storage[1] = path
  BY <1>2 DEF rename_file
<1>3. CASE storage[1] # path
  <2>1. rename_file(storage, id, path) = [i \in 1..Len(storage) |-> IF i = id THEN path ELSE storage[i]]
    BY <1>1, <1>3 DEF rename_file
  <2>2. \A i \in 1..Len(storage) : (IF i = id THEN path ELSE storage[i]) \in Path
    BY <1>1
  <2>3. [i \in 1..Len(storage) |-> IF i = id THEN path ELSE storage[i]] \in Seq(Path)
    BY <1>1, <2>2, SeqDef
  <2> QED
    BY <1>1, <2>1, <2>3
<1> QED
  BY <1>2, <1>3

\* The loop over a list, as a sequence of what it has done.
Turned == [utf : BOOLEAN, storage : Seq(Path)]
Turn(t, done, f, id) ==
  LET utf == utf_now(done.utf, f)
  IN  [utf |-> utf, storage |-> rename_file(done.storage, id, NewPath(t, utf, f))]
Unturned(t) == [utf |-> t.files_utf8 # None, storage |-> LibraryStorage(t)]

\* A torrent whose list is gone through.
Listed == {t \in Torrents : ~LibraryRefuses(t) /\ ~Refused(t) /\ Files(t) # None}

LEMMA ListedIs ==
  ASSUME NEW t \in Listed
  PROVE  /\ t \in Torrents /\ torrent_name(t) # InvalidTorrent
         /\ LibraryStorage(t) \in Seq(Path) /\ Len(LibraryStorage(t)) = Len(Files(t))
         /\ Len(Files(t)) \in Nat /\ DOMAIN Files(t) = 1..Len(Files(t))
         /\ \A i \in 1..Len(Files(t)) : Files(t)[i] \in FileEntry /\ PathIn(Files(t)[i]) \in Path
<1>1. t \in Torrents /\ ~LibraryRefuses(t) /\ ~Refused(t) /\ Files(t) # None
  BY DEF Listed
<1>2. PICK l : l = Files(t)
  OBVIOUS
<1>3. l \in Seq(FileEntry \cup {NotADict})
  BY <1>1, <1>2, FilesIs
<1>4. Len(l) \in Nat /\ DOMAIN l = 1..Len(l) /\ \A i \in 1..Len(l) : l[i] \in FileEntry \cup {NotADict}
  BY <1>3, LenProperties, ElementOfSeq
<1>5. \A i \in 1..Len(l) : ~InvalidFile(l[i])
  BY <1>1, <1>2, <1>4 DEF Refused
<1>6. \A i \in 1..Len(l) : l[i] \in FileEntry /\ PathIn(l[i]) \in Path
  BY <1>4, <1>5, FileIs
<1>7. torrent_name(t) # InvalidTorrent /\ Len(LibraryStorage(t)) = Len(l)
  BY <1>1, <1>2 DEF Refused
<1> QED
  BY <1>1, <1>2, <1>4, <1>6, <1>7, LibraryIs

\* What is done of a list keeps its length.
Sized(N) == {d \in Turned : Len(d.storage) = N}

LEMMA TurnType ==
  ASSUME NEW t \in Listed, NEW d \in Sized(Len(Files(t))), NEW n \in 1..Len(Files(t))
  PROVE  Turn(t, d, Files(t)[n], n) \in Sized(Len(Files(t)))
<1>1. PICK f : f = Files(t)[n]
  OBVIOUS
<1>2. t \in Torrents /\ torrent_name(t) # InvalidTorrent /\ f \in FileEntry /\ PathIn(f) \in Path
  BY <1>1, ListedIs
<1>3. d.utf \in BOOLEAN /\ d.storage \in Seq(Path) /\ Len(d.storage) = Len(Files(t))
  BY DEF Sized, Turned
<1>4. PICK utf : utf = utf_now(d.utf, f)
  OBVIOUS
<1>5. utf \in BOOLEAN
  BY <1>3, <1>4 DEF utf_now
<1>6. PICK p : p = NewPath(t, utf, f)
  OBVIOUS
<1>7. p \in Path
  BY <1>2, <1>6, NewPathIs
<1>8. PICK s : s = rename_file(d.storage, n, p)
  OBVIOUS
<1>9. s \in Seq(Path) /\ Len(s) = Len(Files(t))
  BY <1>3, <1>7, <1>8, RenameIs
<1>10. Turn(t, d, f, n) = [utf |-> utf, storage |-> s]
  BY <1>4, <1>6, <1>8 DEF Turn
<1>11. [utf |-> utf, storage |-> s] \in Sized(Len(Files(t)))
  BY <1>5, <1>9 DEF Sized, Turned
<1> QED
  BY <1>1, <1>10, <1>11

LEMMA LoopIs ==
  ASSUME NEW t \in Listed
  PROVE  \E g : /\ g \in [0..Len(Files(t)) -> Sized(Len(Files(t)))] /\ g[0] = Unturned(t)
                /\ \A n \in 1..Len(Files(t)) : g[n] = Turn(t, g[n - 1], Files(t)[n], n)
                /\ RenameFiles(t) = g[Len(Files(t))].storage
<1> DEFINE N == Len(Files(t))
           X == Sized(N)
           turn == [n \in 1..N |-> [d \in X |-> Turn(t, d, Files(t)[n], n)]]
           done[n \in 0..N] == IF n = 0 THEN Unturned(t) ELSE Turn(t, done[n - 1], Files(t)[n], n)
<1>1. RenameFiles(t) = done[N].storage
  BY DEF RenameFiles, Unturned, Turn
<1>2. N \in Nat
  BY ListedIs
<1>3. Unturned(t) \in X
  <2>1. LibraryStorage(t) \in Seq(Path) /\ Len(LibraryStorage(t)) = N
    BY ListedIs
  <2> QED
    BY <2>1 DEF Unturned, Sized, Turned
<1>4. \A d \in X, n \in 1..N : Turn(t, d, Files(t)[n], n) \in X
  BY TurnType
<1> HIDE DEF N, X
<1>5. \A d \in X, n \in 1..N : turn[n][d] = Turn(t, d, Files(t)[n], n)
  OBVIOUS
<1>6. turn \in Steps(N, X)
  BY <1>4 DEF Steps
<1> HIDE DEF turn
<1>7. PICK g \in [0..N -> X] : g[0] = Unturned(t) /\ \A n \in 1..N : g[n] = turn[n][g[n - 1]]
  <2>1. Runs(N, X, Unturned(t), turn) # {}
    BY <1>2, <1>3, <1>6, Recursion
  <2> QED
    BY <2>1 DEF Runs
<1>8. ASSUME NEW n \in 1..N PROVE n - 1 \in 0..N /\ g[n - 1] \in X /\ g[n] = Turn(t, g[n - 1], Files(t)[n], n)
  <2>1. n - 1 \in 0..N
    BY <1>2
  <2> QED
    BY <1>5, <1>7, <2>1
<1>9. g = [n \in 0..N |-> IF n = 0 THEN Unturned(t) ELSE Turn(t, g[n - 1], Files(t)[n], n)]
  <2>1. ASSUME NEW n \in 0..N PROVE g[n] = IF n = 0 THEN Unturned(t) ELSE Turn(t, g[n - 1], Files(t)[n], n)
    <3>1. n = 0 \/ n \in 1..N
      BY <1>2
    <3> QED
      BY <1>7, <1>8, <3>1
  <2> QED
    BY <1>7, <2>1
<1>10. done = [n \in 0..N |-> IF n = 0 THEN Unturned(t) ELSE Turn(t, done[n - 1], Files(t)[n], n)]
  BY <1>9
<1> HIDE DEF done
<1>11. Alike(N, done, g)
  <2>1. done[0] = g[0]
    BY <1>2, <1>7, <1>10
  <2>2. ASSUME NEW n \in 1..N, done[n - 1] = g[n - 1]
        PROVE  done[n] = g[n]
    <3>1. done[n] = Turn(t, done[n - 1], Files(t)[n], n)
      BY <1>2, <1>10, <2>2
    <3> QED
      BY <1>8, <2>2, <3>1
  <2> QED
    BY <2>1, <2>2 DEF Alike
<1>12. done[N] = g[N]
  BY <1>2, <1>11, SameValue
<1> QED
  BY <1>1, <1>7, <1>8, <1>12 DEF N, X

\* Whether the torrent has said, by this file of its list, that it is in UTF-8,
\* and the path of the file as it is read then.
UtfBy(t, i) == t.files_utf8 # None \/ \E j \in 1..i : Files(t)[j].path_utf8 # None
NewOf(t, i) == NewPath(t, UtfBy(t, i), Files(t)[i])

\* Every file of a list has its path, or the first one has it.
LEMMA RenamedIs ==
  ASSUME NEW t \in Listed
  PROVE  /\ RenameFiles(t) \in Seq(Path) /\ Len(RenameFiles(t)) = Len(Files(t))
         /\ \A i \in 1..Len(Files(t)) :
              RenameFiles(t)[i] = NewOf(t, i) \/ RenameFiles(t)[1] = NewOf(t, i)
<1>1. PICK N : N = Len(Files(t))
  OBVIOUS
<1>2. N \in Nat /\ \A n \in 1..N : Files(t)[n] \in FileEntry /\ PathIn(Files(t)[n]) \in Path
  BY <1>1, ListedIs
<1>3. t \in Torrents /\ torrent_name(t) # InvalidTorrent
  BY ListedIs
<1>4. PICK g : /\ g \in [0..N -> Sized(N)] /\ g[0] = Unturned(t)
               /\ \A n \in 1..N : g[n] = Turn(t, g[n - 1], Files(t)[n], n)
               /\ RenameFiles(t) = g[N].storage
  BY <1>1, LoopIs
<1>5. \A n \in 0..N : /\ g[n].utf \in BOOLEAN /\ g[n].storage \in Seq(Path) /\ Len(g[n].storage) = N
  BY <1>4 DEF Sized, Turned
<1> DEFINE Has(s, i) == s[i] = NewOf(t, i) \/ s[1] = NewOf(t, i)
           S == {n \in 0..N : (g[n].utf <=> UtfBy(t, n)) /\ \A i \in 1..n : Has(g[n].storage, i)}
<1>6. 0 \in S
  <2>1. g[0].utf <=> UtfBy(t, 0)
    <3>1. g[0].utf <=> t.files_utf8 # None
      <4>1. PICK utf, s : utf = (t.files_utf8 # None) /\ s = LibraryStorage(t)
        OBVIOUS
      <4>2. g[0] = [utf |-> utf, storage |-> s]
        BY <1>4, <4>1, Zenon DEF Unturned
      <4>3. g[0].utf = utf
        BY <4>2
      <4> QED
        BY <4>1, <4>3
    <3>2. \A j \in 1..0 : FALSE
      OBVIOUS
    <3> QED
      BY <3>1, <3>2 DEF UtfBy
  <2> QED
    BY <1>2, <2>1
<1>7. ASSUME NEW n \in 1..N, n - 1 \in S PROVE n \in S
  <2>1. n - 1 \in 0..N /\ n \in 0..N /\ n \in Nat
    BY <1>2
  <2>2. PICK f : f = Files(t)[n]
    OBVIOUS
  <2>3. PICK s, z : s = g[n - 1].storage /\ z = g[n].storage
    OBVIOUS
  <2>4. g[n] = Turn(t, g[n - 1], f, n)
    BY <1>4, <2>2
  <2>5. g[n].utf = utf_now(g[n - 1].utf, f) /\ z = rename_file(s, n, NewPath(t, g[n].utf, f))
    BY <2>3, <2>4 DEF Turn
  <2>6. g[n].utf <=> UtfBy(t, n)
    <3>1. g[n - 1].utf <=> UtfBy(t, n - 1)
      BY <1>7
    <3>2. UtfBy(t, n) <=> UtfBy(t, n - 1) \/ f.path_utf8 # None
      <4>1. \A j \in 1..n : j \in 1..(n - 1) \/ j = n
        BY <2>1
      <4>2. 1..(n - 1) \subseteq 1..n /\ n \in 1..n
        BY <2>1
      <4> QED
        BY <2>2, <4>1, <4>2 DEF UtfBy
    <3> QED
      BY <2>5, <3>1, <3>2 DEF utf_now
  <2>7. z = rename_file(s, n, NewOf(t, n))
    <3>1. g[n].utf = UtfBy(t, n)
      <4>1. g[n].utf \in BOOLEAN /\ UtfBy(t, n) \in BOOLEAN
        BY <1>5, <2>1 DEF UtfBy
      <4> QED
        BY <2>6, <4>1
    <3> QED
      BY <2>2, <2>5, <3>1 DEF NewOf
  <2>8. s \in Seq(Path) /\ Len(s) = N
    BY <1>5, <2>1, <2>3
  <2>9. NewOf(t, n) \in Path
    BY <1>2, <1>3, NewPathIs DEF NewOf
  <2> HIDE DEF S
  <2>10. /\ \A i \in 1..N : i # n => z[i] = s[i]
         /\ z[n] = NewOf(t, n) \/ s[1] = NewOf(t, n)
         /\ n = 1 => z[1] = NewOf(t, n)
    BY <2>7, <2>8, <2>9, RenameIs
  <2>11. \A i \in 1..(n - 1) : s[i] = NewOf(t, i) \/ s[1] = NewOf(t, i)
    BY <1>7, <2>3 DEF S
  <2>12. ASSUME NEW i \in 1..n PROVE z[i] = NewOf(t, i) \/ z[1] = NewOf(t, i)
    <3>1. n # 1 => z[1] = s[1]
      <4>1. 1 \in 1..N
        BY <1>2
      <4> QED
        BY <2>10, <4>1
    <3>2. CASE i = n
      BY <2>10, <3>1, <3>2
    <3>3. CASE i # n
      <4>1. i \in 1..(n - 1) /\ i \in 1..N /\ n # 1
        BY <1>2, <2>1, <3>3
      <4> QED
        BY <2>10, <2>11, <3>1, <3>3, <4>1
    <3> QED
      BY <3>2, <3>3
  <2> QED
    BY <2>1, <2>3, <2>6, <2>12 DEF S
<1>8. N \in S
  <2> HIDE DEF S
  <2>1. 0..N \subseteq S
    BY <1>2, <1>6, <1>7, UpTo
  <2> QED
    BY <1>2, <2>1
<1>9. N \in 0..N
  BY <1>2
<1>10. \A i \in 1..N : Has(g[N].storage, i)
  BY <1>8
<1> QED
  BY <1>1, <1>4, <1>5, <1>9, <1>10

\* The only file of a torrent without a list has its path.
LEMMA RenamedOnlyIs ==
  ASSUME NEW t \in Torrents, ~LibraryRefuses(t), ~Refused(t), Files(t) = None
  PROVE  /\ RenameOnly(t) \in Seq(Path) /\ Len(RenameOnly(t)) = 1
         /\ get_torrent_file_path(RenameOnly(t)[1]) = InTorrent(t, <<>>)
<1>1. torrent_name(t) # InvalidTorrent /\ Len(LibraryStorage(t)) = 1
  BY DEF Refused
<1>2. LibraryStorage(t) \in Seq(Path)
  BY LibraryIs
<1>3. PICK e : e = <<>>
  OBVIOUS
<1>4. e \in Path /\ e \in Seq(Clean)
  BY <1>3 DEF Path
<1>5. Placed(t, e) \in Path /\ get_torrent_file_path(Placed(t, e)) = InTorrent(t, e)
  BY <1>1, <1>4, PlacedIs
<1>6. RenameOnly(t) = rename_file(LibraryStorage(t), 1, Placed(t, e))
  <2>1. PICK c \in Component : c = torrent_name(t)
    BY <1>1, NameIs, CleanIs
  <2>2. PICK n : n = <<torrent_name(t)>>
    OBVIOUS
  <2>3. n \in Seq(Component)
    BY <2>1, <2>2, OneOf
  <2>4. NoName \in Component
    BY ComponentIs
  <2>5. Rooted(n) \in Seq(Component)
    BY <2>3, <2>4, RootedIs
  <2>6. Rooted(n) \o e = Rooted(n)
    BY <1>3, <2>5, ConcatEmptySeq
  <2> QED
    BY <2>2, <2>6 DEF RenameOnly, Placed, InTorrent
<1>7. 1 \in 1..Len(LibraryStorage(t))
  BY <1>1
<1>8. PICK s, p : s = LibraryStorage(t) /\ p = Placed(t, e)
  OBVIOUS
<1>9. rename_file(s, 1, p) \in Seq(Path) /\ Len(rename_file(s, 1, p)) = Len(s) /\ rename_file(s, 1, p)[1] = p
  BY <1>2, <1>5, <1>7, <1>8, RenameIs
<1> QED
  BY <1>1, <1>3, <1>5, <1>6, <1>8, <1>9

\* The files that a torrent has when it was read.
LEMMA StorageIs ==
  ASSUME NEW t \in Torrents, NEW enc \in {"UTF-8", "other"},
         get_torrent_metadata(t, enc) # InvalidTorrent
  PROVE  /\ get_torrent_metadata(t, enc).storage \in Seq(Path)
         /\ enc = "other" => ~LibraryRefuses(t) /\ ~Refused(t) /\ get_torrent_metadata(t, enc).storage = Renamed(t)
<1>1. ~LibraryRefuses(t) /\ (enc # "UTF-8" => ~Refused(t))
  BY DEF get_torrent_metadata
<1>2. PICK s : s = LibraryStorage(t)
  OBVIOUS
<1>3. s \in Seq(Path)
  BY <1>1, <1>2, LibraryIs
<1>4. get_torrent_metadata(t, enc).storage =
        IF enc = "UTF-8" THEN [i \in DOMAIN s |-> U2LT(s[i])] ELSE Renamed(t)
  BY <1>1, <1>2 DEF get_torrent_metadata
<1>5. CASE enc = "UTF-8"
  <2>1. DOMAIN s = 1..Len(s) /\ Len(s) \in Nat /\ \A i \in 1..Len(s) : s[i] \in Path
    BY <1>3, LenProperties, ElementOfSeq
  <2>2. \A p \in Path : U2LT(p) \in Path
    <3>1. Clean \subseteq Component
      BY CleanIs
    <3> QED
      BY <3>1, SpeltIs DEF Path
  <2>3. [i \in 1..Len(s) |-> U2LT(s[i])] \in Seq(Path)
    BY <2>1, <2>2, SeqDef
  <2> QED
    BY <1>4, <1>5, <2>1, <2>3
<1>6. CASE enc = "other"
  <2>1. ~Refused(t)
    BY <1>1, <1>6
  <2>2. CASE Files(t) = None
    BY <1>1, <1>4, <1>6, <2>1, <2>2, RenamedOnlyIs DEF Renamed
  <2>3. CASE Files(t) # None
    <3>1. t \in Listed
      BY <1>1, <2>1, <2>3 DEF Listed
    <3> QED
      BY <1>1, <1>4, <1>6, <2>1, <2>3, <3>1, RenamedIs DEF Renamed
  <2> QED
    BY <2>2, <2>3
<1> QED
  BY <1>5, <1>6

\* What libtorrent and the torrent give is read as its author wrote it, where the
\* torrent says what it is written in.
LEMMA ReadIs ==
  ASSUME NEW utf, NEW f, PathIn(f) \in Path,
         IF utf THEN ~InCharset(PathIn(f)) ELSE ~InUtf8(PathIn(f))
  PROVE  /\ Read(utf, f) \in Seq(Clean)
         /\ Read(utf, f) = IF InCharset(PathIn(f)) THEN convert_path(PathIn(f)) ELSE PathIn(f)
<1>1. PICK p : p = PathIn(f)
  OBVIOUS
<1>2. p \in Seq(Component) /\ DOMAIN p = 1..Len(p) /\ Len(p) \in Nat
      /\ \A j \in 1..Len(p) : p[j] \in Component
  BY <1>1, LenProperties, ElementOfSeq DEF Path
<1>3. Range(p) = {p[j] : j \in 1..Len(p)}
  BY <1>2 DEF Range
<1>4. ~InCharset(p) => p \in Seq(Clean)
  <2>1. SUFFICES ASSUME ~InCharset(p) PROVE p \in Seq(Clean)
    OBVIOUS
  <2>2. \A j \in 1..Len(p) : p[j] \in Clean
    BY <1>2, <1>3, <2>1 DEF InCharset, Clean
  <2> QED
    BY <1>2, <2>2, SeqDef
<1>5. CASE utf
  BY <1>1, <1>4, <1>5 DEF Read
<1>6. CASE ~utf
  <2>1. convert_path(p) \in Seq(Clean)
    BY <1>1, ConvertedIs
  <2>2. ASSUME ~InCharset(p) PROVE convert_path(p) = p
    <3>1. \A j \in 1..Len(p) : p[j] \in {"", ".", ".."} /\ p[j] \notin DOMAIN Decoded
      BY <1>1, <1>3, <1>6, <2>2 DEF InCharset, InUtf8
    <3>2. \A j \in 1..Len(p) : convert_name(p[j]) = p[j]
      BY <3>1 DEF convert_name
    <3>3. PICK c : c = convert_path(p)
      OBVIOUS
    <3>4. c = [j \in 1..Len(p) |-> convert_name(p[j])]
      BY <1>2, <3>3 DEF convert_path
    <3>5. c \in Seq(Clean) /\ Len(c) = Len(p) /\ \A j \in 1..Len(p) : c[j] = p[j]
      BY <1>2, <2>1, <3>2, <3>3, <3>4
    <3>6. p \in Seq(Clean)
      BY <1>4, <2>2
    <3>7. c = p
      BY <3>5, <3>6, SeqEqual
    <3> QED
      BY <3>3, <3>7
  <2> QED
    BY <1>1, <1>6, <2>1, <2>2 DEF Read
<1> QED
  BY <1>5, <1>6

\* What was read is what the torrent says, and the paths are what is made of it.
TorrentInv ==
  /\ torrent \in Torrents /\ encoding \in {"UTF-8", "other"}
  /\ metadata = Nothing \/ metadata = get_torrent_metadata(torrent, encoding)
  /\ paths = <<>> \/ (/\ metadata = get_torrent_metadata(torrent, encoding) /\ metadata # InvalidTorrent
                      /\ paths = get_torrent_files(metadata.storage))

LEMMA PathsIs ==
  ASSUME TorrentInv, paths # InvalidTorrent, paths # <<>>
  PROVE  /\ torrent \in Torrents /\ encoding \in {"UTF-8", "other"}
         /\ metadata = get_torrent_metadata(torrent, encoding) /\ metadata # InvalidTorrent
         /\ metadata.storage \in Seq(Path)
         /\ DOMAIN paths = 1..Len(metadata.storage)
         /\ \A i \in 1..Len(metadata.storage) :
              /\ paths[i] = get_torrent_file_path(metadata.storage[i])
              /\ Len(paths[i]) > 1 /\ Head(paths[i]) = NoName /\ Range(Tail(paths[i])) \subseteq Name
<1>1. /\ torrent \in Torrents /\ encoding \in {"UTF-8", "other"}
      /\ metadata = get_torrent_metadata(torrent, encoding) /\ metadata # InvalidTorrent
      /\ paths = get_torrent_files(metadata.storage)
  BY DEF TorrentInv
<1>2. PICK s : s = metadata.storage
  OBVIOUS
<1>3. s \in Seq(Path)
  BY <1>1, <1>2, StorageIs
<1>4. DOMAIN s = 1..Len(s) /\ \A i \in 1..Len(s) : s[i] \in Path
  BY <1>3, LenProperties, ElementOfSeq
<1>5. ~ \E i \in 1..Len(s) : InvalidPath(get_torrent_file_path(s[i]))
  BY <1>1, <1>2, <1>4 DEF get_torrent_files
<1>6. paths = [i \in 1..Len(s) |-> get_torrent_file_path(s[i])]
  BY <1>1, <1>2, <1>4, <1>5 DEF get_torrent_files
<1>7. DOMAIN paths = 1..Len(s) /\ \A i \in 1..Len(s) : paths[i] = get_torrent_file_path(s[i])
  BY <1>6
<1>8. ASSUME NEW i \in 1..Len(s)
      PROVE  Len(paths[i]) > 1 /\ Head(paths[i]) = NoName /\ Range(Tail(paths[i])) \subseteq Name
  <2>1. PICK p \in Path : p = s[i]
    BY <1>4
  <2>2. ~InvalidPath(get_torrent_file_path(p)) /\ paths[i] = get_torrent_file_path(p)
    BY <1>5, <1>7, <2>1
  <2> QED
    BY <2>2, FilePathIs
<1> QED
  BY <1>1, <1>2, <1>3, <1>7, <1>8

LEMMA TorrentGives ==
  ASSUME TorrentInv
  PROVE  PathsAreRight
<1>1. SUFFICES ASSUME paths # InvalidTorrent, NEW i \in DOMAIN paths
               PROVE  /\ Len(paths[i]) > 1 /\ Head(paths[i]) = "" /\ Range(Tail(paths[i])) \subseteq Name
                      /\ encoding = "other" /\ Uniform(i) /\ (i = 1 \/ Meant(i) # paths[1]) => paths[i] = Meant(i)
  BY DEF PathsAreRight
<1>2. paths # <<>>
  <2>1. DOMAIN paths # {}
    BY <1>1
  <2> QED
    BY <2>1
<1>3. /\ torrent \in Torrents /\ encoding \in {"UTF-8", "other"}
      /\ metadata = get_torrent_metadata(torrent, encoding) /\ metadata # InvalidTorrent
      /\ metadata.storage \in Seq(Path)
      /\ DOMAIN paths = 1..Len(metadata.storage)
      /\ \A k \in 1..Len(metadata.storage) :
           /\ paths[k] = get_torrent_file_path(metadata.storage[k])
           /\ Len(paths[k]) > 1 /\ Head(paths[k]) = NoName /\ Range(Tail(paths[k])) \subseteq Name
  BY <1>1, <1>2, PathsIs
<1>4. PICK s : s = metadata.storage
  OBVIOUS
<1>5. ASSUME encoding = "other", Uniform(i), i = 1 \/ Meant(i) # paths[1]
      PROVE  paths[i] = Meant(i)
  <2>1. ~LibraryRefuses(torrent) /\ ~Refused(torrent) /\ s = Renamed(torrent)
    BY <1>3, <1>4, <1>5, StorageIs
  <2>2. i \in 1..Len(s) /\ paths[i] = get_torrent_file_path(s[i])
    BY <1>1, <1>3, <1>4
  <2>3. CASE Files(torrent) = None
    <3>1. s = RenameOnly(torrent)
      BY <2>1, <2>3 DEF Renamed
    <3>2. Len(s) = 1 /\ get_torrent_file_path(s[1]) = InTorrent(torrent, <<>>)
      BY <1>3, <2>1, <2>3, <3>1, RenamedOnlyIs
    <3>3. i = 1
      BY <2>2, <3>2
    <3>4. Meant(i) = InTorrent(torrent, <<>>)
      BY <2>3 DEF Meant, InTorrent
    <3> QED
      BY <2>2, <3>2, <3>3, <3>4
  <2>4. CASE Files(torrent) # None
    <3>1. torrent \in Listed
      BY <1>3, <2>1, <2>4 DEF Listed
    <3>2. s = RenameFiles(torrent)
      BY <2>1, <2>4 DEF Renamed
    <3>3. Len(s) = Len(Files(torrent)) /\ (s[i] = NewOf(torrent, i) \/ s[1] = NewOf(torrent, i))
      BY <2>2, <3>1, <3>2, RenamedIs
    <3>4. PICK f : f = Files(torrent)[i]
      OBVIOUS
    <3>5. f \in FileEntry /\ PathIn(f) \in Path /\ torrent_name(torrent) # InvalidTorrent
      BY <2>2, <3>1, <3>3, <3>4, ListedIs
    <3>6. PathOf(i) = PathIn(f)
      BY <3>4 DEF PathOf, PathIn
    <3>7. IF UtfBy(torrent, i) THEN ~InCharset(PathIn(f)) ELSE ~InUtf8(PathIn(f))
      BY <1>5, <2>4, <3>6 DEF Uniform, UtfBy
    <3>8. PICK r : r = Read(UtfBy(torrent, i), f)
      OBVIOUS
    <3>9. r \in Seq(Clean) /\ r = IF InCharset(PathIn(f)) THEN convert_path(PathIn(f)) ELSE PathIn(f)
      BY <3>5, <3>7, <3>8, ReadIs
    <3>10. Meant(i) = InTorrent(torrent, r)
      BY <2>4, <3>6, <3>9 DEF Meant, InTorrent
    <3>11. NewOf(torrent, i) = NewPath(torrent, UtfBy(torrent, i), f)
      BY <3>4 DEF NewOf
    <3>12. get_torrent_file_path(NewOf(torrent, i)) = Meant(i)
      <4>1. PICK t, utf : t = torrent /\ utf = UtfBy(torrent, i)
        OBVIOUS
      <4>2. t \in Torrents /\ torrent_name(t) # InvalidTorrent /\ Read(utf, f) \in Seq(Clean)
        BY <1>3, <3>5, <3>8, <3>9, <4>1
      <4>3. get_torrent_file_path(NewPath(t, utf, f)) = InTorrent(t, Read(utf, f))
        BY <3>5, <4>2, NewPathIs
      <4> QED
        BY <3>8, <3>10, <3>11, <4>1, <4>3
    <3>13. CASE s[i] = NewOf(torrent, i)
      BY <2>2, <3>12, <3>13
    <3>14. CASE s[1] = NewOf(torrent, i)
      <4>1. 1 \in 1..Len(s)
        <5>1. Len(s) \in Nat
          BY <1>3, <1>4, LenProperties
        <5> QED
          BY <2>2, <5>1
      <4>2. paths[1] = Meant(i)
        BY <1>3, <1>4, <3>12, <3>14, <4>1
      <4>3. i = 1
        BY <1>5, <4>2
      <4> QED
        BY <4>2, <4>3
    <3> QED
      BY <3>3, <3>13, <3>14
  <2> QED
    BY <2>3, <2>4
<1>6. Len(paths[i]) > 1 /\ Head(paths[i]) = NoName /\ Range(Tail(paths[i])) \subseteq Name
  BY <1>1, <1>3
<1> QED
  BY <1>5, <1>6 DEF NoName

\* Torrent: for every torrent and every charset, the files have the paths that
\* the author wrote, and no path leads out of the root.
THEOREM PathsOfTorrents == TorrentSpec => []PathsAreRight
<1>1. TorrentInit => TorrentInv
  BY DEF TorrentInit, TorrentInv
<1>2. TorrentInv /\ [TorrentNext]_torrentVars => TorrentInv'
  <2>1. SUFFICES ASSUME TorrentInv, [TorrentNext]_torrentVars
                 PROVE  TorrentInv'
    OBVIOUS
  <2>2. CASE ReadMetadata
    <3>1. metadata = Nothing /\ metadata' = get_torrent_metadata(torrent, encoding)
          /\ torrent' = torrent /\ encoding' = encoding /\ paths' = paths
      BY <2>2 DEF ReadMetadata
    <3>2. paths = <<>> \/ metadata' = metadata
      BY <2>1, <3>1 DEF TorrentInv
    <3>3. get_torrent_metadata(torrent, encoding)' = get_torrent_metadata(torrent, encoding)
      BY <3>1
    <3> QED
      BY <2>1, <3>1, <3>2, <3>3 DEF TorrentInv
  <2>3. CASE ReadFiles
    <3>1. metadata \notin {Nothing, InvalidTorrent} /\ paths' = get_torrent_files(metadata.storage)
          /\ torrent' = torrent /\ encoding' = encoding /\ metadata' = metadata
      BY <2>3 DEF ReadFiles
    <3>2. get_torrent_metadata(torrent, encoding)' = get_torrent_metadata(torrent, encoding)
          /\ get_torrent_files(metadata.storage)' = get_torrent_files(metadata.storage)
      BY <3>1
    <3> QED
      BY <2>1, <3>1, <3>2 DEF TorrentInv
  <2>4. CASE UNCHANGED torrentVars
    <3>1. torrent' = torrent /\ encoding' = encoding /\ metadata' = metadata /\ paths' = paths
      BY <2>4 DEF torrentVars
    <3>2. get_torrent_metadata(torrent, encoding)' = get_torrent_metadata(torrent, encoding)
          /\ get_torrent_files(metadata.storage)' = get_torrent_files(metadata.storage)
      BY <3>1
    <3> QED
      BY <2>1, <3>1, <3>2 DEF TorrentInv
  <2> QED
    BY <2>1, <2>2, <2>3, <2>4 DEF TorrentNext
<1>3. TorrentInv => PathsAreRight
  BY TorrentGives
<1> QED
  BY <1>1, <1>2, <1>3, PTL DEF TorrentSpec
=============================================================================
