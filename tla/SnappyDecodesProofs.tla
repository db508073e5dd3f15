------------------------ MODULE SnappyDecodesProofs ------------------------
(***************************************************************************)
(* What is decompressed is what the stream stands for.  DecodesInv ties    *)
(* the decompressor to a reader of module SnappyContents: what is buffered *)
(* are the next bytes of the stream, and what the writer holds is what the *)
(* reader has put out.  The cells of the buffers come first, then what     *)
(* each append and copy writes to them, then one lemma per action.         *)
(***************************************************************************)
EXTENDS SnappyDecompressProofs

----------------------------------------------------------------------------
(* What stores leave in the cells *)

\* The cells up to the end of a part that was replaced.
LEMMA SplicedCells ==
  ASSUME NEW C, NEW q \in Seq(C), NEW s \in Seq(C), NEW at \in Nat,
         at + Len(s) <= Len(q)
  PROVE  /\ \A k \in 1 .. at : Splice(q, at, s)[k] = q[k]
         /\ \A i \in 1 .. Len(s) : Splice(q, at, s)[at + i] = s[i]
<1>1. PICK n \in Nat : n = Len(s)
  OBVIOUS
<1>2. PICK head : head = SubSeq(q, 1, at)
  OBVIOUS
<1>3. PICK tail : tail = SubSeq(q, at + n + 1, Len(q))
  OBVIOUS
<1>4. head \in Seq(C) /\ Len(head) = at /\ \A k \in 1 .. at : head[k] = q[k]
  <2>1. 0 \in Nat /\ 0 <= at /\ at <= Len(q) /\ head = SubSeq(q, 0 + 1, at) /\ at - 0 = at
    BY <1>2
  <2>2. head \in Seq(C) /\ Len(head) = at - 0 /\ \A i \in 1 .. at - 0 : head[i] = q[0 + i]
    BY <2>1, PartIs
  <2> QED BY <2>1, <2>2
<1>5. tail \in Seq(C)
  <2>1. PICK a \in Nat, z \in Nat : a = at + n /\ z = Len(q) /\ a <= z
    BY <1>1
  <2> QED BY <1>3, <2>1, PartIs
<1>6. PICK front : front = head \o s
  OBVIOUS
<1>7. /\ front \in Seq(C) /\ Len(front) = at + n
      /\ \A k \in 1 .. at : front[k] = q[k]
      /\ \A i \in 1 .. n : front[at + i] = s[i]
  <2>1. /\ head \o s \in Seq(C) /\ Len(head \o s) = Len(head) + Len(s)
        /\ \A k \in 1 .. Len(head) : (head \o s)[k] = head[k]
        /\ \A i \in 1 .. Len(s) : (head \o s)[Len(head) + i] = s[i]
    <3>1. head \in Seq(C) /\ s \in Seq(C)
      BY <1>4
    <3> QED BY <3>1, JoinIs
  <2> QED BY <1>1, <1>4, <1>6, <2>1
<1>8. Splice(q, at, s) = front \o tail
  BY <1>1, <1>2, <1>3, <1>6 DEF Splice
<1>9. \A k \in 1 .. Len(front) : (front \o tail)[k] = front[k]
  BY <1>5, <1>7, JoinIs, Zenon
<1>10. ASSUME NEW k \in 1 .. at PROVE (front \o tail)[k] = q[k]
  <2>1. k \in 1 .. Len(front)
    BY <1>1, <1>7
  <2> QED BY <1>7, <1>9, <2>1
<1>11. ASSUME NEW i \in 1 .. n PROVE (front \o tail)[at + i] = s[i]
  <2>1. at + i \in 1 .. Len(front)
    BY <1>1, <1>7
  <2> QED BY <1>7, <1>9, <2>1
<1> QED BY <1>1, <1>8, <1>10, <1>11

\* What u has in buffer b: up to at what v has, and then s; in the others, what v has.
Stored(u, v, b, at, s) ==
  /\ \A c \in 1 .. Len(v.lens) : c # b => u.bufs[c] = v.bufs[c]
  /\ \A k \in 1 .. at : u.bufs[b][k] = v.bufs[b][k]
  /\ \A i \in 1 .. Len(s) : u.bufs[b][at + i] = s[i]

\* A store.
LEMMA StoreCells ==
  ASSUME NEW v \in Writer, BuffersOK(v), NEW b \in 1 .. Len(v.lens), NEW at \in Nat,
         NEW s \in Seq(Cells), at + Len(s) <= v.lens[b]
  PROVE  Store(v, b, at, s) \in Alike(v) /\ Stored(Store(v, b, at, s), v, b, at, s)
<1>1. PICK q : q = v.bufs[b]
  OBVIOUS
<1>2. PICK r : r = Splice(q, at, s)
  OBVIOUS
<1>3. q \in Seq(Cells) /\ at + Len(s) <= Len(q)
  <2>1. v.lens[b] \in Nat /\ q \in Seq(Cells) /\ Len(q) = v.lens[b] + Slack
    BY <1>1, BufferCells
  <2>2. PICK n \in Nat, l \in Nat : n = Len(s) /\ l = v.lens[b]
    BY <2>1
  <2>3. at + n <= l
    BY <2>2
  <2> QED BY <2>1, <2>2, <2>3 DEF Slack
<1>4. PICK u : u = Store(v, b, at, s)
  OBVIOUS
<1>5. u = [v EXCEPT !.bufs = [v.bufs EXCEPT ![b] = r]]
  BY <1>1, <1>2, <1>4 DEF Store, Writer, Splice
<1>6. /\ \A k \in 1 .. at : r[k] = q[k]
      /\ \A i \in 1 .. Len(s) : r[at + i] = s[i]
  <2>1. /\ \A k \in 1 .. at : Splice(q, at, s)[k] = q[k]
        /\ \A i \in 1 .. Len(s) : Splice(q, at, s)[at + i] = s[i]
    BY <1>3, SplicedCells
  <2> QED BY <1>2, <2>1
<1>7. u.bufs[b] = r /\ \A c \in 1 .. Len(v.lens) : c # b => u.bufs[c] = v.bufs[c]
  <2>1. v.bufs \in Seq(Seq(Cells)) /\ DOMAIN v.bufs = 1 .. Len(v.lens)
    BY DEF Writer, BuffersOK
  <2>2. u.bufs = [v.bufs EXCEPT ![b] = r]
    BY <1>5 DEF Writer
  <2> QED BY <2>1, <2>2
<1>8. Stored(u, v, b, at, s)
  BY <1>1, <1>6, <1>7 DEF Stored
<1>9. u \in Alike(v)
  BY <1>4, StoreKeeps
<1> QED BY <1>4, <1>8, <1>9

\* A load and a store of the same bytes.
LEMMA MoveCells ==
  ASSUME NEW v \in Writer, BuffersOK(v), NEW b \in 1 .. Len(v.lens),
         NEW from \in Nat, NEW to \in Nat, NEW n \in Nat,
         from + n <= v.lens[b], to + n <= v.lens[b]
  PROVE  \E s \in Seq(Cells) :
           /\ Len(s) = n /\ \A i \in 1 .. n : s[i] = v.bufs[b][from + i]
           /\ Move(v, b, from, to, n) \in Alike(v)
           /\ Stored(Move(v, b, from, to, n), v, b, to, s)
<1>1. PICK q : q = v.bufs[b]
  OBVIOUS
<1>2. PICK s : s = SubSeq(q, from + 1, from + n)
  OBVIOUS
<1>3. q \in Seq(Cells) /\ Len(q) = v.lens[b] + Slack /\ v.lens[b] \in Nat
  BY <1>1, BufferCells
<1>4. s \in Seq(Cells) /\ Len(s) = n /\ \A i \in 1 .. n : s[i] = q[from + i]
  <2>1. PICK z \in Nat : z = from + n
    OBVIOUS
  <2>2. from <= z /\ z <= Len(q) /\ s = SubSeq(q, from + 1, z) /\ z - from = n
    BY <1>2, <1>3, <2>1 DEF Slack
  <2>3. s \in Seq(Cells) /\ Len(s) = z - from /\ \A i \in 1 .. z - from : s[i] = q[from + i]
    BY <1>3, <2>2, PartIs
  <2> QED BY <2>2, <2>3
<1>5. Move(v, b, from, to, n) = Store(v, b, to, s)
  BY <1>1, <1>2, <1>4, Zenon DEF Move, Store
<1>6. to + Len(s) <= v.lens[b]
  BY <1>4
<1>7. Store(v, b, to, s) \in Alike(v) /\ Stored(Store(v, b, to, s), v, b, to, s)
  BY <1>4, <1>6, StoreCells
<1> QED BY <1>1, <1>4, <1>5, <1>7

----------------------------------------------------------------------------
(* What copies leave in the cells *)

\* u is v but for buffer b, which has the first m cells of pattern p.
Shows(u, v, b, p, m) ==
  /\ u \in Alike(v)
  /\ \A c \in 1 .. Len(v.lens) : c # b => u.bufs[c] = v.bufs[c]
  /\ \A k \in 1 .. m : u.bufs[b][k] = p[k]

\* What it says of the buffers.
LEMMA ShowsParts ==
  ASSUME NEW v, NEW u, NEW b, NEW p, NEW m, Shows(u, v, b, p, m)
  PROVE  u \in Writer /\ BuffersOK(u) /\ u.lens = v.lens
  BY DEF Shows, Alike

\* A move behind the cells shown.
LEMMA MoveBehind ==
  ASSUME NEW v \in Writer, BuffersOK(v), NEW b \in 1 .. Len(v.lens), NEW u, NEW p, NEW m \in Nat,
         Shows(u, v, b, p, m), NEW from \in Nat, NEW to \in Nat, NEW n \in Nat,
         from + n <= v.lens[b], to + n <= v.lens[b], m <= to
  PROVE  Shows(Move(u, b, from, to, n), v, b, p, m)
<1>1. u \in Writer /\ BuffersOK(u) /\ u.lens = v.lens
  BY ShowsParts
<1>2. PICK s \in Seq(Cells) :
        /\ Len(s) = n /\ \A i \in 1 .. n : s[i] = u.bufs[b][from + i]
        /\ Move(u, b, from, to, n) \in Alike(u)
        /\ Stored(Move(u, b, from, to, n), u, b, to, s)
  BY <1>1, MoveCells
<1>3. PICK x : x = Move(u, b, from, to, n)
  OBVIOUS
<1>4. x \in Alike(v)
  BY <1>2, <1>3, AlikeAgain DEF Shows
<1>5. \A c \in 1 .. Len(v.lens) : c # b => x.bufs[c] = v.bufs[c]
  BY <1>1, <1>2, <1>3 DEF Shows, Stored
<1>6. ASSUME NEW k \in 1 .. m PROVE x.bufs[b][k] = p[k]
  <2>1. k \in 1 .. to
    OBVIOUS
  <2>2. x.bufs[b][k] = u.bufs[b][k]
    BY <1>2, <1>3, <2>1 DEF Stored
  <2> QED BY <2>2 DEF Shows
<1>7. Shows(x, v, b, p, m)
  BY <1>4, <1>5, <1>6 DEF Shows
<1> QED BY <1>3, <1>7

\* A move of cells shown to where the pattern has the same: more are shown.
LEMMA MoveShows ==
  ASSUME NEW v \in Writer, BuffersOK(v), NEW b \in 1 .. Len(v.lens), NEW u, NEW p, NEW m \in Nat,
         Shows(u, v, b, p, m), NEW from \in Nat, NEW to \in Nat, NEW n \in Nat,
         from + n <= v.lens[b], to + n <= v.lens[b],
         to <= m, NEW e \in 0 .. n, from + e <= m,
         \A i \in 1 .. e : p[to + i] = p[from + i]
  PROVE  Shows(Move(u, b, from, to, n), v, b, p, to + e)
<1>1. u \in Writer /\ BuffersOK(u) /\ u.lens = v.lens
  BY ShowsParts
<1>2. PICK s \in Seq(Cells) :
        /\ Len(s) = n /\ \A i \in 1 .. n : s[i] = u.bufs[b][from + i]
        /\ Move(u, b, from, to, n) \in Alike(u)
        /\ Stored(Move(u, b, from, to, n), u, b, to, s)
  BY <1>1, MoveCells
<1>3. PICK x : x = Move(u, b, from, to, n)
  OBVIOUS
<1>4. x \in Alike(v)
  BY <1>2, <1>3, AlikeAgain DEF Shows
<1>5. \A c \in 1 .. Len(v.lens) : c # b => x.bufs[c] = v.bufs[c]
  BY <1>1, <1>2, <1>3 DEF Shows, Stored
<1>6. ASSUME NEW k \in 1 .. to + e PROVE x.bufs[b][k] = p[k]
  <2>1. CASE k <= to
    <3>1. k \in 1 .. to /\ k \in 1 .. m
      BY <2>1
    <3>2. x.bufs[b][k] = u.bufs[b][k]
      BY <1>2, <1>3, <3>1 DEF Stored
    <3> QED BY <3>1, <3>2 DEF Shows
  <2>2. CASE k > to
    <3>1. PICK i \in 1 .. e : k = to + i
      <4>1. k - to \in 1 .. e /\ k = to + (k - to)
        BY <2>2
      <4> QED BY <4>1, Zenon
    <3>2. i \in 1 .. n /\ from + i \in 1 .. m
      BY <3>1
    <3>3. x.bufs[b][to + i] = s[i]
      BY <1>2, <1>3, <3>2 DEF Stored
    <3>4. s[i] = u.bufs[b][from + i]
      BY <1>2, <3>2
    <3>5. u.bufs[b][from + i] = p[from + i]
      BY <3>2 DEF Shows
    <3>6. p[to + i] = p[from + i]
      BY <3>1
    <3> QED BY <3>1, <3>3, <3>4, <3>5, <3>6
  <2> QED BY <2>1, <2>2
<1>7. Shows(x, v, b, p, to + e)
  BY <1>4, <1>5, <1>6 DEF Shows
<1> QED BY <1>3, <1>7

\* UnalignedCopy64, of which the first e bytes count.
LEMMA Copy64Shows ==
  ASSUME NEW v \in Writer, BuffersOK(v), NEW b \in 1 .. Len(v.lens), NEW u, NEW p, NEW m \in Nat,
         Shows(u, v, b, p, m), NEW from \in Nat, NEW to \in Nat, NEW wide,
         from + 8 <= v.lens[b], to + 8 <= v.lens[b],
         to <= m, NEW e \in 0 .. 8, from + e <= to,
         \A i \in 1 .. e : p[to + i] = p[from + i]
  PROVE  Shows(Copy64(u, b, from, to, wide), v, b, p, to + e)
<1>1. v.lens[b] \in Nat
  BY BufferCells
<1>2. PICK z \in Nat : z = v.lens[b] /\ from + 8 <= z /\ to + 8 <= z
  BY <1>1
<1>3. CASE wide
  <2>1. from + e <= m
    OBVIOUS
  <2>2. Shows(Move(u, b, from, to, 8), v, b, p, to + e)
    BY <2>1, MoveShows
  <2> QED BY <1>3, <2>2 DEF Copy64
<1>4. CASE ~wide
  <2>1. PICK x : x = Move(u, b, from, to, 4)
    OBVIOUS
  <2>2. PICK f \in Nat, t \in Nat : f = from + 4 /\ t = to + 4
    OBVIOUS
  <2>3. from + 4 <= z /\ to + 4 <= z /\ f + 4 <= z /\ t + 4 <= z
    BY <1>2, <2>2
  <2>4. from + 4 <= v.lens[b] /\ to + 4 <= v.lens[b] /\ f + 4 <= v.lens[b] /\ t + 4 <= v.lens[b]
    BY <1>2, <2>3
  <2>5. Copy64(u, b, from, to, wide) = Move(x, b, f, t, 4)
    BY <1>4, <2>1, <2>2 DEF Copy64
  <2>6. CASE e <= 4
    <3>1. e \in 0 .. 4 /\ from + e <= m
      BY <2>6
    <3>2. Shows(x, v, b, p, to + e)
      BY <2>1, <2>4, <3>1, MoveShows
    <3>3. to + e \in Nat /\ to + e <= t
      BY <2>2, <2>6
    <3>4. Shows(Move(x, b, f, t, 4), v, b, p, to + e)
      BY <2>4, <3>2, <3>3, MoveBehind
    <3> QED BY <2>5, <3>4
  <2>7. CASE e > 4
    <3>1. PICK g \in 0 .. 4 : e = 4 + g
      BY <2>7
    <3>2. from + 4 <= m /\ f + g <= t /\ t + g = to + e
      BY <2>2, <3>1
    <3>3. \A i \in 1 .. 4 : p[to + i] = p[from + i]
      BY <3>1
    <3>4. Shows(x, v, b, p, t)
      <4>1. 4 \in 0 .. 4 /\ 4 \in Nat
        OBVIOUS
      <4>2. Shows(Move(u, b, from, to, 4), v, b, p, to + 4)
        BY <2>4, <3>2, <3>3, <4>1, MoveShows
      <4> QED BY <2>1, <2>2, <4>2
    <3>5. ASSUME NEW i \in 1 .. g PROVE p[t + i] = p[f + i]
      <4>1. PICK j \in 1 .. e : j = 4 + i
        BY <3>1
      <4>2. t + i = to + j /\ f + i = from + j
        BY <2>2, <4>1
      <4> QED BY <4>1, <4>2
    <3>6. t <= t
      OBVIOUS
    <3>7. Shows(Move(x, b, f, t, 4), v, b, p, t + g)
      BY <2>4, <3>2, <3>4, <3>5, <3>6, MoveShows
    <3> QED BY <2>5, <3>2, <3>7
  <2> QED BY <2>6, <2>7
<1> QED BY <1>3, <1>4

\* Byte by byte, of a pattern that repeats itself from from to to.
LEMMA IncrementalCopyShows ==
  ASSUME NEW v \in Writer, BuffersOK(v), NEW b \in 1 .. Len(v.lens), NEW p,
         NEW from \in Nat, NEW to \in Nat, NEW len \in Nat, from < to,
         from + len <= v.lens[b], to + len <= v.lens[b],
         Shows(v, v, b, p, to), \A i \in 1 .. len : p[to + i] = p[from + i]
  PROVE  Shows(IncrementalCopy(v, b, from, to, len), v, b, p, to + len)
<1>1. PICK c : ByByte(c, v, b, from, to, len) /\ IncrementalCopy(v, b, from, to, len) = c[len]
  BY IncrementalCopySteps
<1> PICK z \in Nat : z = v.lens[b] /\ to + len <= z
  BY BufferCells
<1> DEFINE S == {n \in 0 .. len : Shows(c[n], v, b, p, to + n)}
<1>2. 0 \in S
  <2>1. c[0] = v /\ to + 0 = to
    BY <1>1 DEF ByByte
  <2> QED BY <2>1
<1>3. ASSUME NEW n \in 1 .. len, n - 1 \in S PROVE n \in S
  <2>1. PICK u : u = c[n - 1] /\ Shows(u, v, b, p, to + (n - 1))
    BY <1>3
  <2>2. PICK f \in Nat, t \in Nat : f = from + n - 1 /\ t = to + n - 1
    OBVIOUS
  <2>3. t = to + (n - 1) /\ f + 1 <= t /\ f + 1 <= z /\ t + 1 <= z /\ t + 1 = to + n
    BY <2>2
  <2>4. \A i \in 1 .. 1 : p[t + i] = p[f + i]
    <3>1. f + 1 = from + n
      BY <2>2
    <3> HIDE DEF S
    <3> QED BY <2>3, <3>1, SMTT(30)
  <2>5. 1 \in 0 .. 1 /\ 1 \in Nat /\ t <= t /\ Shows(u, v, b, p, t)
    BY <2>1, <2>3
  <2>6. f + 1 <= v.lens[b] /\ t + 1 <= v.lens[b]
    BY <2>3
  <2>7. Shows(Move(u, b, f, t, 1), v, b, p, t + 1)
    BY <2>3, <2>4, <2>5, <2>6, MoveShows
  <2>8. c[n] = Move(u, b, f, t, 1)
    BY <1>1, <2>1, <2>2, Zenon DEF ByByte
  <2> QED BY <2>3, <2>7, <2>8
<1>4. \A n \in 0 .. len : n \in S
  <2> HIDE DEF S
  <2> QED BY <1>2, <1>3, UpTo
<1>5. Shows(c[len], v, b, p, to + len)
  BY <1>4
<1> QED BY <1>1, <1>5

\* Eight bytes at a time, of a pattern that repeats itself after eight or more.
LEMMA EightByEightShows ==
  ASSUME NEW v \in Writer, BuffersOK(v), NEW b \in 1 .. Len(v.lens), NEW p, NEW u,
         NEW from \in Nat, NEW to \in Nat, NEW len \in Int, NEW wide,
         NEW N \in Nat, N = Rounds(len), from + 8 <= to,
         from + 8 * N <= v.lens[b], to + 8 * N <= v.lens[b],
         Shows(u, v, b, p, to), \A i \in 1 .. 8 * N : p[to + i] = p[from + i]
  PROVE  Shows(EightByEight(u, b, from, to, len, wide), v, b, p, to + 8 * N)
<1>1. u \in Writer /\ BuffersOK(u) /\ u.lens = v.lens
  BY ShowsParts
<1>2. PICK c : ByRounds(c, u, b, from, to, len, N, wide)
  BY <1>1, EightByEightSteps
<1>3. PICK z \in Nat : z = v.lens[b] /\ from + 8 * N <= z /\ to + 8 * N <= z
  BY BufferCells
<1> DEFINE S == {n \in 0 .. N : Shows(c[n], v, b, p, to + 8 * n)}
<1>4. 0 \in S
  <2>1. c[0] = u /\ to + 8 * 0 = to
    BY <1>2 DEF ByRound, ByRounds
  <2> QED BY <2>1
<1>5. ASSUME NEW n \in 1 .. N, n - 1 \in S PROVE n \in S
  <2>1. PICK x : x = c[n - 1] /\ Shows(x, v, b, p, to + 8 * (n - 1))
    BY <1>5
  <2>2. PICK f \in Nat, t \in Nat, k \in Nat :
          f = from + 8 * (n - 1) /\ t = to + 8 * (n - 1) /\ k = n - 1
    OBVIOUS
  <2>3. f = from + 8 * k /\ t = to + 8 * k /\ k + 1 <= N /\ n = k + 1
    BY <2>2
  <2>4. f + 8 <= t /\ f + 8 <= z /\ t + 8 <= z /\ t + 8 = to + 8 * n
    <3>1. f + 8 <= t /\ t + 8 = to + 8 * n
      BY <2>3
    <3>2. 8 * k + 8 <= 8 * N /\ 8 * N \in Nat
      BY <2>3
    <3>3. f + 8 <= from + 8 * N /\ t + 8 <= to + 8 * N
      BY <2>3, <3>2, SMTT(30)
    <3>4. f + 8 <= z /\ t + 8 <= z
      <4>1. PICK m \in Nat : m = 8 * N
        BY <3>2, Zenon
      <4>2. f + 8 <= from + m /\ t + 8 <= to + m /\ from + m <= z /\ to + m <= z
        BY <1>3, <3>3, <4>1, Zenon
      <4> HIDE DEF S
      <4> QED BY <4>2
    <3> QED BY <3>1, <3>4
  <2>5. ASSUME NEW i \in 1 .. 8 PROVE p[t + i] = p[f + i]
    <3>1. PICK j \in 1 .. 8 * N : j = 8 * k + i
      BY <2>3
    <3>2. t + i = to + j /\ f + i = from + j
      BY <2>3, <3>1
    <3> QED BY <3>1, <3>2
  <2>6. 8 \in 0 .. 8 /\ t <= t /\ Shows(x, v, b, p, t)
    BY <2>1, <2>2
  <2>7. f + 8 <= v.lens[b] /\ t + 8 <= v.lens[b]
    BY <1>3, <2>4
  <2>8. Shows(Copy64(x, b, f, t, wide), v, b, p, t + 8)
    BY <2>4, <2>5, <2>6, <2>7, Copy64Shows
  <2>9. c[n] = Copy64(x, b, f, t, wide)
    BY <1>2, <2>1, <2>2, Zenon DEF ByRound, ByRounds
  <2>10. Shows(c[n], v, b, p, to + 8 * n)
    BY <2>4, <2>8, <2>9
  <2>11. n \in 0 .. N
    OBVIOUS
  <2> QED BY <2>10, <2>11, Zenon
<1>6. \A n \in 0 .. N : n \in S
  <2> HIDE DEF S
  <2> QED BY <1>4, <1>5, UpTo
<1>7. Shows(c[N], v, b, p, to + 8 * N)
  BY <1>6
<1> QED BY <1>2, <1>7 DEF ByRounds

\* The pattern gets twice as long until it has eight bytes.
LEMMA DoubledGrows ==
  ASSUME NEW gap \in Nat \ {0}, NEW N \in Nat, N = Doublings(gap)
  PROVE  /\ Doubled(gap, 0) = gap
         /\ \A n \in 0 .. N : Doubled(gap, n) \in Nat
         /\ \A n \in 1 .. N : Doubled(gap, n) = 2 * Doubled(gap, n - 1) /\ Doubled(gap, n - 1) \in 1 .. 7
         /\ Doubled(gap, N) >= 8
<1>1. /\ Doubled(gap, 0) = gap /\ Doubled(gap, 1) = 2 * gap
      /\ Doubled(gap, 2) = 4 * gap /\ Doubled(gap, 3) = 8 * gap
  BY DEF Doubled
<1>2. CASE gap >= 8
  <2>1. N = 0
    BY <1>2 DEF Doublings
  <2> QED BY <1>1, <1>2, <2>1
<1>3. CASE gap < 8 /\ gap >= 4
  <2>1. N = 1
    BY <1>3 DEF Doublings
  <2> QED BY <1>1, <1>3, <2>1
<1>4. CASE gap < 4 /\ gap >= 2
  <2>1. N = 2
    BY <1>4 DEF Doublings
  <2> QED BY <1>1, <1>4, <2>1
<1>5. CASE gap < 2
  <2>1. N = 3 /\ gap = 1
    BY <1>5 DEF Doublings
  <2> QED BY <1>1, <2>1
<1> QED BY <1>2, <1>3, <1>4, <1>5

\* From place from on, p repeats itself after d elements.
Period(p, from, d) == \A i \in 1 .. Len(p) - (from + d) : p[from + d + i] = p[from + i]

\* Then it does after twice as many.
LEMMA PeriodDoubled ==
  ASSUME NEW C, NEW p \in Seq(C), NEW from \in Nat, NEW d \in Nat, Period(p, from, d),
         NEW e \in Nat, e = 2 * d
  PROVE  Period(p, from, e)
<1>1. ASSUME NEW i \in 1 .. Len(p) - (from + e) PROVE p[from + e + i] = p[from + i]
  <2>1. PICK j \in 1 .. Len(p) - (from + d) : j = d + i
    OBVIOUS
  <2>2. i \in 1 .. Len(p) - (from + d) /\ from + e + i = from + d + j /\ from + j = from + d + i
    BY <2>1
  <2>3. p[from + d + j] = p[from + j] /\ p[from + d + i] = p[from + i]
    BY <2>1, <2>2, Zenon DEF Period
  <2> QED BY <2>2, <2>3
<1> QED BY <1>1 DEF Period

\* Fewer cells are shown, too.
LEMMA ShowsLess ==
  ASSUME NEW v, NEW u, NEW b, NEW p, NEW m \in Nat, Shows(u, v, b, p, m), NEW k \in Nat, k <= m
  PROVE  Shows(u, v, b, p, k)
<1>1. \A i \in 1 .. k : i \in 1 .. m
  OBVIOUS
<1> QED BY <1>1, Zenon DEF Shows

\* A number counted from t on.
LEMMA InRange ==
  ASSUME NEW l \in Nat, NEW t \in Nat, NEW d \in Int, t + d <= l, NEW i \in 1 .. d
  PROVE  i \in 1 .. l - t
  OBVIOUS

\* The first loop of IncrementalCopyFastPath stays inside the buffer and the pattern.
LEMMA DoublingFits ==
  ASSUME NEW from \in Nat, NEW gap \in Nat \ {0}, NEW z \in Nat, NEW l \in Nat,
         from + gap + 11 <= z, from + gap + 11 <= l, NEW d \in 1 .. 7, d + 8 <= gap + 11
  PROVE  from + 8 <= z /\ from + d + 8 <= z /\ from + d + d <= l
  OBVIOUS

\* What it leaves.
LEMMA DoublingShows ==
  ASSUME NEW v \in Writer, BuffersOK(v), NEW b \in 1 .. Len(v.lens), NEW p \in Seq(Cells),
         NEW from \in Nat, NEW gap \in Nat \ {0}, NEW z \in Nat, z = v.lens[b],
         NEW l \in Nat, l = Len(p), from + gap + 11 <= z, from + gap + 11 <= l,
         NEW N \in Nat, N = Doublings(gap), NEW wide, NEW c, ByDoubling(c, v, b, from, gap, N, wide),
         Shows(v, v, b, p, from + gap), Period(p, from, gap),
         NEW n \in 0 .. N
  PROVE  Period(p, from, Doubled(gap, n)) /\ Shows(c[n], v, b, p, from + Doubled(gap, n))
<1> DEFINE S == {k \in 0 .. N : /\ Period(p, from, Doubled(gap, k))
                                /\ Shows(c[k], v, b, p, from + Doubled(gap, k))}
<1>1. /\ Doubled(gap, 0) = gap
      /\ \A k \in 1 .. N : Doubled(gap, k) = 2 * Doubled(gap, k - 1) /\ Doubled(gap, k - 1) \in 1 .. 7
  BY DoubledGrows
<1>2. 0 \in S
  <2>1. c[0] = v
    BY DEF ByDoubling
  <2> QED BY <1>1, <2>1
<1>3. ASSUME NEW k \in 1 .. N, k - 1 \in S PROVE k \in S
  <2>1. PICK x : x = c[k - 1]
    OBVIOUS
  <2>2. PICK d \in 1 .. 7 : d = Doubled(gap, k - 1)
    BY <1>1
  <2>3. d + 8 <= gap + 11
    BY <2>2, DoubledIs
  <2>4. PICK e \in Nat : e = 2 * d /\ Doubled(gap, k) = e
    BY <1>1, <2>2, SMTT(30)
  <2>5. Period(p, from, d) /\ Shows(x, v, b, p, from + d)
    BY <1>3, <2>1, <2>2
  <2>6. PICK t \in Nat : t = from + d
    OBVIOUS
  <2>7. from + 8 <= z /\ t + 8 <= z /\ t + d = from + e /\ t + d <= l
    <3>1. from + 8 <= z /\ from + d + 8 <= z /\ from + d + d <= l
      BY <2>2, <2>3, DoublingFits
    <3>2. from + e = from + d + d
      BY <2>2, <2>4
    <3> QED BY <2>6, <3>1, <3>2
  <2>8. ASSUME NEW i \in 1 .. d PROVE p[t + i] = p[from + i]
    <3>1. i \in 1 .. Len(p) - (from + d)
      <4>1. d \in Int
        BY <2>2
      <4>2. t \in Nat /\ t + d <= l
        BY <2>6, <2>7, Zenon
      <4>3. i \in 1 .. l - t
        BY <4>1, <4>2, InRange, Zenon
      <4> QED BY <2>6, <4>3, Zenon
    <3> QED BY <2>5, <2>6, <3>1, Zenon DEF Period
  <2>9. Period(p, from, e)
    BY <2>2, <2>4, <2>5, PeriodDoubled
  <2>10. Shows(Copy64(x, b, from, t, wide), v, b, p, t + d)
    <3>1. d \in 0 .. 8 /\ from + d <= t /\ t <= t /\ Shows(x, v, b, p, t)
      BY <2>5, <2>6
    <3>2. from + 8 <= v.lens[b] /\ t + 8 <= v.lens[b]
      BY <2>7
    <3> QED BY <2>8, <3>1, <3>2, Copy64Shows
  <2>11. c[k] = Copy64(x, b, from, t, wide)
    BY <2>1, <2>2, <2>6, Zenon DEF ByDoubling
  <2>12. Shows(c[k], v, b, p, from + e)
    BY <2>7, <2>10, <2>11
  <2>13. k \in 0 .. N
    OBVIOUS
  <2> QED BY <2>4, <2>9, <2>12, <2>13, Zenon
<1>4. \A k \in 0 .. N : k \in S
  <2> HIDE DEF S
  <2> QED BY <1>2, <1>3, UpTo
<1> QED BY <1>4

\* The second loop goes far enough, and not eight bytes further.
LEMMA RoundsReach ==
  ASSUME NEW to \in Nat, NEW len \in Nat \ {0}, NEW done \in 0 .. 9
  PROVE  /\ Rounds(len - done) \in Nat /\ to + len <= to + done + 8 * Rounds(len - done)
         /\ Rounds(len - done) # 0 => to + done + 8 * Rounds(len - done) <= to + len + 7
<1>1. PICK left \in Int : left = len - done
  OBVIOUS
<1>2. PICK n \in Nat : n = Rounds(left) /\ (8 * n <= left + 7 \/ n = 0) /\ left <= 8 * n
  BY SMT DEF Rounds
<1>3. to + len <= to + done + 8 * n /\ (n # 0 => to + done + 8 * n <= to + len + 7)
  BY <1>1, <1>2
<1> QED BY <1>1, <1>2, <1>3

\* Both loops: the pattern is repeated, and what is written behind it does not count.
LEMMA FastPathShows ==
  ASSUME NEW v \in Writer, BuffersOK(v), NEW b \in 1 .. Len(v.lens), NEW p \in Seq(Cells),
         NEW from \in Nat, NEW to \in Nat, NEW len \in Nat \ {0}, NEW wide,
         from < to, to + len + kMaxIncrementCopyOverflow <= v.lens[b],
         Shows(v, v, b, p, to), Period(p, from, to - from), to + len + 10 <= Len(p)
  PROVE  Shows(IncrementalCopyFastPath(v, b, from, to, len, wide), v, b, p, to + len)
<1>1. PICK gap \in Nat \ {0} : gap = to - from
  OBVIOUS
<1>2. PICK N \in Nat, done \in 0 .. 9 : N = Doublings(gap) /\ done = Doubled(gap, N) - gap
  <2>1. Doublings(gap) \in 0 .. 3
    BY <1>1, DoubledIs, Zenon
  <2>2. Doubled(gap, Doublings(gap)) - gap \in 0 .. 9
    BY <1>1, DoubledIs, Zenon
  <2>3. Doublings(gap) \in Nat
    BY <2>1
  <2> QED BY <2>2, <2>3, Zenon
<1>17. done \in Nat
  BY <1>2, SMTT(30)
<1>3. PICK c : ByFastPath(c, v, b, from, to, len, gap, N, done, wide)
  BY <1>1, <1>2, <1>17, FastPathSteps
<1>4. PICK z \in Nat : z = v.lens[b] /\ to + len + 10 <= z
  BY BufferCells DEF kMaxIncrementCopyOverflow
<1>5. from + gap = to
  BY <1>1
<1>6. PICK D \in Nat : D = Doubled(gap, N) /\ D >= 8
  BY <1>2, DoubledGrows
<1>7. PICK t \in Nat : t = to + done
  BY <1>2, SMTT(30)
<1>15. PICK u : u = c[N]
  OBVIOUS
<1>8. from + D = t
  <2>1. PICK g \in Nat \ {0} : g = gap
    OBVIOUS
  <2>2. from + g = to /\ done = D - g
    BY <1>2, <1>5, <1>6, <2>1
  <2> QED BY <1>7, <2>1, <2>2
<1>9. Period(p, from, D) /\ Shows(u, v, b, p, t)
  <2>1. PICK l \in Nat : l = Len(p) /\ to + len + 10 <= l
    OBVIOUS
  <2>2. from + gap + 11 <= z /\ from + gap + 11 <= l
    <3>1. to + 11 <= z /\ to + 11 <= l
      BY <1>4, <2>1
    <3> QED BY <1>5, <3>1
  <2>3. Shows(v, v, b, p, from + gap) /\ Period(p, from, gap)
    BY <1>1, <1>5
  <2>4. ByDoubling(c, v, b, from, gap, N, wide) /\ N \in 0 .. N
    BY <1>2, <1>3 DEF ByFastPath
  <2>5. Period(p, from, Doubled(gap, N)) /\ Shows(c[N], v, b, p, from + Doubled(gap, N))
    BY <1>2, <1>4, <2>1, <2>2, <2>3, <2>4, DoublingShows
  <2> QED BY <1>6, <1>7, <1>8, <1>15, <2>5
<1>10. PICK left \in Int, M \in Nat :
         /\ left = len - done /\ M = Rounds(left)
         /\ to + len <= to + done + 8 * M /\ (M # 0 => to + done + 8 * M <= to + len + 7)
  <2>1. PICK left \in Int : left = len - done
    BY <1>2
  <2>2. PICK M \in Nat : M = Rounds(left)
    BY <1>2, <2>1, RoundsReach
  <2>3. to + len <= to + done + 8 * M /\ (M # 0 => to + done + 8 * M <= to + len + 7)
    BY <1>2, <2>1, <2>2, RoundsReach
  <2> QED BY <2>1, <2>2, <2>3
<1>11. from + 8 * M <= v.lens[b] /\ t + 8 * M <= v.lens[b] /\ from + 8 <= t
  <2>1. from + 8 <= t
    BY <1>6, <1>8
  <2> QED BY <1>3, <1>7, <1>10, <2>1 DEF ByFastPath
<1>12. ASSUME NEW i \in 1 .. 8 * M PROVE p[t + i] = p[from + i]
  <2>1. t + 8 * M <= Len(p)
    <3>1. PICK l \in Nat : l = Len(p) /\ to + len + 10 <= l
      OBVIOUS
    <3>2. M # 0
      BY <1>12
    <3>3. t + 8 * M <= l
      <4>1. t + 8 * M <= to + len + 7
        BY <1>7, <1>10, <3>2
      <4> QED BY <1>7, <1>10, <3>1, <4>1
    <3> QED BY <3>1, <3>3
  <2>2. i \in 1 .. Len(p) - (from + D)
    BY <1>8, <2>1
  <2> QED BY <1>8, <1>9, <2>2, Zenon DEF Period
<1>13. Shows(EightByEight(u, b, from, t, left, wide), v, b, p, t + 8 * M)
  BY <1>9, <1>10, <1>11, <1>12, EightByEightShows
<1>14. IncrementalCopyFastPath(v, b, from, to, len, wide) = EightByEight(u, b, from, t, left, wide)
  BY <1>3, <1>7, <1>10, <1>15, Zenon DEF ByFastPath
<1>16. t + 8 * M \in Nat /\ to + len <= t + 8 * M /\ to + len \in Nat
  <2>1. t + 8 * M = to + done + 8 * M /\ t + 8 * M \in Nat
    <3>1. M \in Nat
      BY <1>10, Zenon
    <3> QED BY <1>7, <1>17, <3>1
  <2>2. to + len <= to + done + 8 * M
    BY <1>10
  <2>3. to + len \in Nat
    OBVIOUS
  <2> QED BY <2>1, <2>2, <2>3, Zenon
<1> QED BY <1>13, <1>14, <1>16, ShowsLess

----------------------------------------------------------------------------
(* What has been written to the buffers *)

\* Two parts of a row that have a place in common overlap.
LEMMA Disjoint ==
  ASSUME NEW x \in Nat, NEW l \in Nat, NEW y \in Nat, NEW m \in Nat, NEW a \in Nat,
         x <= a, a < x + l, y <= a, a < y + m
  PROVE  ~(y + m <= x) /\ ~(x + l <= y)
  OBVIOUS

\* The place of a cell, counted from zero.
LEMMA CellInside ==
  ASSUME NEW x \in Nat, NEW l \in Nat, NEW k \in Nat \ {0}, NEW a \in Nat, k <= l, a + 1 = x + k
  PROVE  x <= a /\ a < x + l
  OBVIOUS

\* Where a buffer starts, and its length.
LEMMA StartOf ==
  ASSUME NEW lens \in Seq(Nat), NEW b \in 1 .. Len(lens)
  PROVE  Starts(lens)[b] \in Nat /\ lens[b] \in Nat
<1>1. Starts(lens) \in [1 .. Len(lens) -> Nat]
  BY StartsIs
<1> QED BY <1>1

\* Cell k of buffer b is the i-th of the row of buffers.
IsCell(lens, b, k, i) ==
  b \in 1 .. Len(lens) /\ k \in Nat \ {0} /\ k <= lens[b] /\ Starts(lens)[b] + k = i

\* It is the cell of no other buffer.
LEMMA OneCell ==
  ASSUME NEW lens \in Seq(Nat), NEW b, NEW k, NEW c, NEW j, NEW i,
         IsCell(lens, b, k, i), IsCell(lens, c, j, i)
  PROVE  b = c /\ k = j
<1>1. /\ b \in 1 .. Len(lens) /\ k \in Nat \ {0} /\ k <= lens[b] /\ Starts(lens)[b] + k = i
      /\ c \in 1 .. Len(lens) /\ j \in Nat \ {0} /\ j <= lens[c] /\ Starts(lens)[c] + j = i
  BY DEF IsCell
<1>2. /\ Starts(lens)[b] \in Nat /\ lens[b] \in Nat /\ Starts(lens)[c] \in Nat /\ lens[c] \in Nat
  BY <1>1, StartOf
<1>3. PICK a \in Nat : a + 1 = i
  <2>1. PICK a \in Nat : a + 1 = Starts(lens)[b] + k
    <3>1. Starts(lens)[b] + k - 1 \in Nat /\ Starts(lens)[b] + k - 1 + 1 = Starts(lens)[b] + k
      BY <1>1, <1>2, SMTT(30)
    <3> QED BY <3>1, Zenon
  <2> QED BY <1>1, <2>1
<1>4. a + 1 = Starts(lens)[b] + k /\ a + 1 = Starts(lens)[c] + j
  BY <1>1, <1>3, Zenon
<1>5. /\ Starts(lens)[b] <= a /\ a < Starts(lens)[b] + lens[b]
      /\ Starts(lens)[c] <= a /\ a < Starts(lens)[c] + lens[c]
  BY <1>1, <1>2, <1>4, CellInside, Zenon
<1>6. ~(Starts(lens)[b] + lens[b] <= Starts(lens)[c]) /\ ~(Starts(lens)[c] + lens[c] <= Starts(lens)[b])
  BY <1>2, <1>5, Disjoint, Zenon
<1>7. ~(b < c) /\ ~(c < b)
  BY <1>1, <1>6, StartsGrow, Zenon
<1>8. b = c
  BY <1>1, <1>7
<1>9. k = j
  BY <1>1, <1>2, <1>4, <1>8
<1> QED BY <1>8, <1>9

\* The buffer that has the cell is the one BufferAt finds.
LEMMA PlaceIs ==
  ASSUME NEW v, v.lens \in Seq(Nat), NEW b, NEW k, NEW a \in Nat, IsCell(v.lens, b, k, a + 1)
  PROVE  BufferAt(v, a) = b
<1> DEFINE P(c) == Starts(v.lens)[c] <= a /\ a < Starts(v.lens)[c] + v.lens[c]
<1>1. /\ b \in 1 .. Len(v.lens) /\ k \in Nat \ {0} /\ k <= v.lens[b]
      /\ Starts(v.lens)[b] + k = a + 1
  BY DEF IsCell
<1>2. Starts(v.lens)[b] \in Nat /\ v.lens[b] \in Nat
  BY <1>1, StartOf, Zenon
<1>3. P(b)
  BY <1>1, <1>2, CellInside
<1>4. ASSUME NEW c \in 1 .. Len(v.lens), P(c) PROVE c = b
  <2>1. Starts(v.lens)[c] \in Nat /\ v.lens[c] \in Nat
    BY StartOf, Zenon
  <2>2. PICK j \in Nat \ {0} : j = a + 1 - Starts(v.lens)[c]
    BY <1>4, <2>1
  <2>3. j <= v.lens[c] /\ Starts(v.lens)[c] + j = a + 1
    BY <1>4, <2>1, <2>2
  <2>4. IsCell(v.lens, c, j, a + 1)
    BY <2>3 DEF IsCell
  <2> QED BY <2>4, OneCell, Zenon
<1>5. BufferAt(v, a) = CHOOSE c \in 1 .. Len(v.lens) : P(c)
  BY DEF BufferAt
<1> HIDE DEF P
<1> QED BY <1>1, <1>3, <1>4, <1>5

\* Where the writer is in the row of its buffers.
LEMMA PlaceTotal ==
  ASSUME NEW v, Fits(v), v.kind # "validator"
  PROVE  /\ v.lens \in Seq(Nat) /\ v.cur \in 1 .. Len(v.lens)
         /\ v.at \in Nat /\ v.total \in Nat /\ v.limit \in Nat /\ v.lens[v.cur] \in Nat
         /\ Starts(v.lens)[v.cur] \in Nat /\ Starts(v.lens)[v.cur] + v.at = v.total
         /\ v.at <= v.lens[v.cur] /\ v.total <= v.limit
<1>1. /\ v \in Writer /\ PlaceOK(v) /\ v.lens \in Seq(Nat)
      /\ v.kind \in {"array", "iovec"}
  BY DEF Fits, Writer
<1>2. /\ v.cur \in 1 .. Len(v.lens) /\ v.at \in Nat /\ v.total \in Nat /\ v.limit \in Nat
      /\ v.lens[v.cur] \in Nat /\ v.total <= v.limit
      /\ v.kind = "array" => v.cur = 1 /\ v.at = v.total /\ v.limit <= v.lens[1]
      /\ v.kind = "iovec" => v.at <= v.lens[v.cur]
  BY CurrentBuffer
<1>3. Starts(v.lens)[v.cur] \in Nat /\ Starts(v.lens)[1] = 0
  BY <1>1, <1>2, StartsIs
<1>4. CASE v.kind = "array"
  <2>1. Starts(v.lens)[v.cur] = 0 /\ v.at <= v.lens[v.cur]
    BY <1>2, <1>3, <1>4
  <2> QED BY <1>1, <1>2, <1>3, <1>4, <2>1
<1>5. CASE v.kind = "iovec"
  <2>1. Starts(v.lens)[v.cur] + v.at = v.total
    BY <1>1, <1>5 DEF PlaceOK, Address
  <2> QED BY <1>1, <1>2, <1>3, <1>5, <2>1
<1> QED BY <1>1, <1>4, <1>5

\* Everything written is in the buffers.
LEMMA WrittenFits ==
  ASSUME NEW v, Fits(v), v.kind # "validator"
  PROVE  /\ Len(v.lens) \in Nat \ {0} /\ Starts(v.lens)[Len(v.lens)] \in Nat /\ v.lens[Len(v.lens)] \in Nat
         /\ v.total <= Starts(v.lens)[Len(v.lens)] + v.lens[Len(v.lens)]
<1>1. /\ v.lens \in Seq(Nat) /\ v.cur \in 1 .. Len(v.lens)
      /\ v.at \in Nat /\ v.total \in Nat /\ v.lens[v.cur] \in Nat
      /\ Starts(v.lens)[v.cur] \in Nat /\ Starts(v.lens)[v.cur] + v.at = v.total
      /\ v.at <= v.lens[v.cur]
  BY PlaceTotal
<1>2. PICK last \in Nat \ {0} : last = Len(v.lens)
  BY <1>1
<1>3. last \in 1 .. Len(v.lens) /\ Starts(v.lens)[last] \in Nat /\ v.lens[last] \in Nat
  <2>1. last \in 1 .. Len(v.lens)
    BY <1>2
  <2> QED BY <1>1, <2>1, StartOf, Zenon
<1>4. PICK sc \in Nat, lc \in Nat, sl \in Nat, ll \in Nat, p \in Nat, t \in Nat :
        /\ sc = Starts(v.lens)[v.cur] /\ lc = v.lens[v.cur]
        /\ sl = Starts(v.lens)[last] /\ ll = v.lens[last] /\ p = v.at /\ t = v.total
  BY <1>1, <1>3
<1>5. sc + p = t /\ p <= lc
  BY <1>1, <1>4
<1>6. sc + lc <= sl + ll
  <2>1. CASE v.cur = last
    <3>1. sc = sl /\ lc = ll
      BY <1>4, <2>1
    <3> QED BY <1>4, <3>1
  <2>2. CASE v.cur # last
    <3>1. v.cur < last
      BY <1>1, <1>2, <2>2
    <3>2. Starts(v.lens)[v.cur] + v.lens[v.cur] <= Starts(v.lens)[last]
      BY <1>1, <1>3, <3>1, StartsGrow
    <3>3. sc + lc <= sl
      BY <1>4, <3>2
    <3> QED BY <1>4, <3>3
  <2> QED BY <2>1, <2>2
<1>7. t <= sl + ll
  BY <1>4, <1>5, <1>6
<1> QED BY <1>1, <1>2, <1>3, <1>4, <1>7

\* What has been written is a sequence of cells.
LEMMA HeldIs ==
  ASSUME NEW v, Fits(v), v.kind # "validator", NEW t \in Nat, t = v.total
  PROVE  /\ Held(v) \in Seq(Cells) /\ Len(Held(v)) = t
         /\ \A i \in 1 .. t : \E b, k : IsCell(v.lens, b, k, i)
         /\ \A i \in 1 .. t : \A b, k : IsCell(v.lens, b, k, i) => Held(v)[i] = v.bufs[b][k]
<1>1. v.lens \in Seq(Nat) /\ v \in Writer /\ BuffersOK(v)
  BY PlaceTotal DEF Fits
<1>2. PICK last \in Nat \ {0} : last = Len(v.lens)
  BY <1>1, WrittenFits
<1>3. PICK e \in Nat : e = Starts(v.lens)[last] + v.lens[last] /\ t <= e
  BY <1>2, WrittenFits
<1>4. ASSUME NEW i \in 1 .. t PROVE \E b, k : IsCell(v.lens, b, k, i)
  <2>1. PICK a \in Nat : a = i - 1 /\ a < e
    BY <1>3
  <2>2. PICK b : b = BufferAt(v, a)
    OBVIOUS
  <2>3. b \in 1 .. last /\ Starts(v.lens)[b] <= a /\ a < Starts(v.lens)[b] + v.lens[b]
    BY <1>1, <1>2, <1>3, <2>1, <2>2, BufferIs
  <2>4. Starts(v.lens)[b] \in Nat /\ v.lens[b] \in Nat
    BY <1>1, <1>2, <2>3, StartOf, Zenon
  <2>5. PICK x \in Nat, l \in Nat : x = Starts(v.lens)[b] /\ l = v.lens[b]
    BY <2>4
  <2>6. x <= a /\ a < x + l
    BY <2>3, <2>5
  <2>7. PICK k \in Nat \ {0} : k = i - x
    BY <2>1, <2>5, <2>6
  <2>8. k <= l /\ x + k = i
    BY <2>1, <2>5, <2>6, <2>7
  <2>9. IsCell(v.lens, b, k, i)
    <3>1. b \in 1 .. Len(v.lens) /\ k \in Nat \ {0}
      BY <1>2, <2>3, <2>7
    <3>2. k <= v.lens[b] /\ Starts(v.lens)[b] + k = i
      BY <2>5, <2>8
    <3> QED BY <3>1, <3>2 DEF IsCell
  <2> QED BY <2>9
<1>5. Held(v) = [i \in 1 .. t |-> v.bufs[BufferAt(v, i - 1)][i - Starts(v.lens)[BufferAt(v, i - 1)]]]
  BY DEF Held
<1>6. ASSUME NEW i \in 1 .. t, NEW b, NEW k, IsCell(v.lens, b, k, i)
      PROVE  Held(v)[i] = v.bufs[b][k] /\ v.bufs[b][k] \in Cells
  <2>1. PICK a \in Nat : a = i - 1 /\ a + 1 = i
    OBVIOUS
  <2>2. BufferAt(v, a) = b
    <3>1. IsCell(v.lens, b, k, a + 1)
      BY <1>6, <2>1
    <3> QED BY <1>1, <2>1, <3>1, PlaceIs, Zenon
  <2>3. Held(v)[i] = v.bufs[b][i - Starts(v.lens)[b]]
    BY <1>5, <2>1, <2>2
  <2>4. b \in 1 .. Len(v.lens) /\ k \in Nat \ {0} /\ k <= v.lens[b] /\ Starts(v.lens)[b] + k = i
    BY <1>6 DEF IsCell
  <2>5. Starts(v.lens)[b] \in Nat /\ v.lens[b] \in Nat
    BY <1>1, <2>4, StartOf, Zenon
  <2>6. i - Starts(v.lens)[b] = k
    BY <2>4, <2>5
  <2>7. v.bufs[b] \in Seq(Cells) /\ Len(v.bufs[b]) = v.lens[b] + Slack
    BY <1>1, <2>4, BufferCells
  <2>8. k \in 1 .. Len(v.bufs[b])
    BY <2>4, <2>5, <2>7 DEF Slack
  <2> QED BY <2>3, <2>6, <2>7, <2>8
<1>7. \A i \in 1 .. t : Held(v)[i] \in Cells
  BY <1>4, <1>6
<1>8. Held(v) \in Seq(Cells) /\ Len(Held(v)) = t
  <2> PICK h : h = Held(v)
    OBVIOUS
  <2>1. h = [i \in 1 .. t |-> h[i]] /\ \A i \in 1 .. t : h[i] \in Cells
    BY <1>5, <1>7
  <2>2. h \in [1 .. t -> Cells]
    BY <2>1
  <2> QED BY <2>2
<1> QED BY <1>4, <1>6, <1>8

\* Two sequences that have the same.
LEMMA SameSequence ==
  ASSUME NEW C, NEW s \in Seq(C), NEW t \in Seq(C), Len(s) = Len(t),
         \A i \in 1 .. Len(s) : s[i] = t[i]
  PROVE  s = t
  OBVIOUS

\* A sequence after another is any that has the cells of both.
LEMMA JoinedIs ==
  ASSUME NEW C, NEW h \in Seq(C), NEW s \in Seq(C), NEW t \in Seq(C),
         NEW m \in Nat, m = Len(h), NEW n \in Nat, n = Len(s), Len(t) = m + n,
         \A i \in 1 .. m : t[i] = h[i], \A i \in 1 .. n : t[m + i] = s[i]
  PROVE  t = h \o s
<1>1. PICK j : j = h \o s
  OBVIOUS
<1>2. /\ j \in Seq(C) /\ Len(j) = m + n /\ \A i \in 1 .. m : j[i] = h[i]
      /\ \A i \in 1 .. n : j[m + i] = s[i]
  BY <1>1, JoinIs
<1>3. ASSUME NEW k \in 1 .. m + n PROVE t[k] = j[k]
  <2>1. CASE k <= m
    <3>1. k \in 1 .. m
      BY <2>1
    <3> QED BY <1>2, <3>1
  <2>2. CASE k > m
    <3>1. PICK i \in 1 .. n : k = m + i
      <4>1. k - m \in 1 .. n /\ k = m + (k - m)
        BY <2>2
      <4> QED BY <4>1, Zenon
    <3> QED BY <1>2, <3>1
  <2> QED BY <2>1, <2>2
<1>4. t = j
  BY <1>2, <1>3, SameSequence
<1> QED BY <1>1, <1>4

\* A writer whose buffers have what another's have, and s behind it.
LEMMA HeldGrows ==
  ASSUME NEW v, Fits(v), v.kind # "validator", NEW u, Fits(u), u.kind # "validator",
         u.lens = v.lens, NEW s \in Seq(Cells), u.total = v.total + Len(s),
         \A i \in 1 .. v.total : \A b, k : IsCell(v.lens, b, k, i) => u.bufs[b][k] = v.bufs[b][k],
         \A i \in 1 .. Len(s) : \A b, k : IsCell(v.lens, b, k, v.total + i) => u.bufs[b][k] = s[i]
  PROVE  Held(u) = Held(v) \o s
<1>1. PICK m \in Nat : m = v.total
  BY PlaceTotal
<1>2. PICK n \in Nat : n = Len(s)
  OBVIOUS
<1>3. PICK z \in Nat : z = u.total /\ z = m + n
  BY <1>1, <1>2
<1>4. /\ Held(v) \in Seq(Cells) /\ Len(Held(v)) = m
      /\ \A i \in 1 .. m : \E b, k : IsCell(v.lens, b, k, i)
      /\ \A i \in 1 .. m : \A b, k : IsCell(v.lens, b, k, i) => Held(v)[i] = v.bufs[b][k]
  BY <1>1, HeldIs
<1>5. /\ Held(u) \in Seq(Cells) /\ Len(Held(u)) = z
      /\ \A i \in 1 .. z : \E b, k : IsCell(v.lens, b, k, i)
      /\ \A i \in 1 .. z : \A b, k : IsCell(v.lens, b, k, i) => Held(u)[i] = u.bufs[b][k]
  BY <1>3, HeldIs
<1>6. ASSUME NEW i \in 1 .. m PROVE Held(u)[i] = Held(v)[i]
  <2>1. i \in 1 .. z /\ i \in 1 .. v.total
    BY <1>1, <1>3
  <2>2. PICK b, k : IsCell(v.lens, b, k, i)
    BY <1>4
  <2>3. Held(v)[i] = v.bufs[b][k]
    BY <1>4, <2>2
  <2>4. Held(u)[i] = u.bufs[b][k]
    BY <1>5, <2>1, <2>2
  <2>5. u.bufs[b][k] = v.bufs[b][k]
    BY <2>1, <2>2
  <2> QED BY <2>3, <2>4, <2>5
<1>7. ASSUME NEW i \in 1 .. n PROVE Held(u)[m + i] = s[i]
  <2>1. m + i \in 1 .. z /\ i \in 1 .. Len(s)
    BY <1>2, <1>3
  <2>2. PICK b, k : IsCell(v.lens, b, k, m + i)
    BY <1>5, <2>1
  <2>3. Held(u)[m + i] = u.bufs[b][k]
    BY <1>5, <2>1, <2>2
  <2>4. u.bufs[b][k] = s[i]
    BY <1>1, <2>1, <2>2
  <2> QED BY <2>3, <2>4
<1>8. Len(Held(u)) = m + n
  BY <1>3, <1>5
<1>9. PICK h \in Seq(Cells) : h = Held(v)
  BY <1>4
<1>10. PICK g \in Seq(Cells) : g = Held(u)
  BY <1>5
<1>11. /\ m = Len(h) /\ n = Len(s) /\ Len(g) = m + n
       /\ (\A i \in 1 .. m : g[i] = h[i]) /\ \A i \in 1 .. n : g[m + i] = s[i]
  BY <1>2, <1>4, <1>6, <1>7, <1>8, <1>9, <1>10
<1>12. g = h \o s
  BY <1>1, <1>2, <1>9, <1>10, <1>11, JoinedIs
<1> QED BY <1>9, <1>10, <1>12

\* The writer moves on over bytes of its buffer: they are added to what is held.
LEMMA HeldAdvanced ==
  ASSUME NEW v, Fits(v), v.kind # "validator", NEW u \in Alike(v), NEW s \in Seq(Cells),
         NEW n \in Nat, n = Len(s), v.total + n <= v.limit, v.at + n <= v.lens[v.cur],
         Stored(u, v, v.cur, v.at, s)
  PROVE  Fits(Advance(u, n)) /\ SameTask(Advance(u, n), v) /\ Held(Advance(u, n)) = Held(v) \o s
<1>1. PICK x : x = Advance(u, n)
  OBVIOUS
<1>2. /\ Fits(x) /\ SameTask(x, v) /\ x.total = v.total + n /\ x.cur = v.cur
  BY <1>1, AdvanceFits
<1>3. x.bufs = u.bufs
  BY <1>1 DEF Advance, Alike, Writer
<1>4. /\ v.lens \in Seq(Nat) /\ v.cur \in 1 .. Len(v.lens)
      /\ v.at \in Nat /\ v.total \in Nat /\ v.lens[v.cur] \in Nat
      /\ Starts(v.lens)[v.cur] \in Nat /\ Starts(v.lens)[v.cur] + v.at = v.total
  BY PlaceTotal
<1>5. ASSUME NEW i \in 1 .. v.total, NEW b, NEW k, IsCell(v.lens, b, k, i)
      PROVE  x.bufs[b][k] = v.bufs[b][k]
  <2>1. b \in 1 .. Len(v.lens) /\ k \in Nat \ {0} /\ Starts(v.lens)[b] + k = i
    BY <1>5 DEF IsCell
  <2>2. CASE b = v.cur
    <3>1. Starts(v.lens)[v.cur] + k = i
      BY <2>1, <2>2
    <3>2. k \in 1 .. v.at
      BY <1>4, <2>1, <3>1, SMTT(30)
    <3> QED BY <1>3, <2>2, <3>2 DEF Stored
  <2>3. CASE b # v.cur
    BY <1>3, <2>1, <2>3 DEF Stored
  <2> QED BY <2>2, <2>3
<1>6. ASSUME NEW i \in 1 .. Len(s), NEW b, NEW k, IsCell(v.lens, b, k, v.total + i)
      PROVE  x.bufs[b][k] = s[i]
  <2>0. i \in 1 .. n
    OBVIOUS
  <2>1. PICK j, z : j = v.at + i /\ z = v.total + i
    OBVIOUS
  <2>2. j \in Nat \ {0} /\ z \in Nat /\ j <= v.lens[v.cur]
    <3>1. PICK a \in Nat, l \in Nat, m \in Nat : a = v.at /\ l = v.lens[v.cur] /\ m = v.total
      BY <1>4, Zenon
    <3>2. a + n <= l /\ j = a + i /\ z = m + i
      BY <2>1, <3>1, Zenon
    <3>3. j \in Nat \ {0} /\ z \in Nat /\ j <= l
      BY <2>0, <3>2
    <3> QED BY <3>1, <3>3, Zenon
  <2>3. Starts(v.lens)[v.cur] + j = z
    BY <1>4, <2>1, SMTT(30)
  <2>4. IsCell(v.lens, v.cur, j, z)
    BY <1>4, <2>2, <2>3 DEF IsCell
  <2>5. IsCell(v.lens, b, k, z)
    BY <1>6, <2>1
  <2>6. b = v.cur /\ k = j
    BY <1>4, <2>4, <2>5, OneCell, Zenon
  <2>7. k = v.at + i
    BY <2>1, <2>6
  <2> QED BY <1>3, <2>6, <2>7 DEF Stored
<1>7. v.kind # "validator" /\ x.kind # "validator" /\ x.lens = v.lens
  BY <1>2 DEF SameTask
<1>8. Held(x) = Held(v) \o s
  BY <1>2, <1>5, <1>6, <1>7, HeldGrows
<1> QED BY <1>1, <1>2, <1>8

----------------------------------------------------------------------------
(* What appends add *)

\* A part of what was stored.
LEMMA StoredLess ==
  ASSUME NEW u, NEW v, NEW b, NEW at, NEW s \in Seq(Cells), Stored(u, v, b, at, s),
         NEW n \in Nat, n <= Len(s), NEW t, t = SubSeq(s, 1, n)
  PROVE  t \in Seq(Cells) /\ Len(t) = n /\ Stored(u, v, b, at, t)
<1>1. t \in Seq(Cells) /\ Len(t) = n /\ \A i \in 1 .. n : t[i] = s[i]
  <2>1. 0 \in Nat /\ 0 <= n /\ t = SubSeq(s, 0 + 1, n) /\ n - 0 = n
    OBVIOUS
  <2>2. t \in Seq(Cells) /\ Len(t) = n - 0 /\ \A i \in 1 .. n - 0 : t[i] = s[0 + i]
    BY <2>1, PartIs
  <2> QED BY <2>1, <2>2
<1>2. ASSUME NEW i \in 1 .. Len(t) PROVE u.bufs[b][at + i] = t[i]
  <2>1. i \in 1 .. Len(s) /\ i \in 1 .. n
    BY <1>1
  <2> QED BY <1>1, <2>1 DEF Stored
<1> QED BY <1>1, <1>2 DEF Stored

\* Sums and differences.
LEMMA Regroup ==
  ASSUME NEW x \in Int, NEW y \in Int, NEW z \in Int
  PROVE  x + (y - z) = (x + y) - z
  OBVIOUS

\* Room where the writer is.
LEMMA RoomHere ==
  ASSUME NEW p \in Nat, NEW l \in Nat, NEW n \in Nat, NEW m \in Nat, m <= n, p + n <= l
  PROVE  p + m <= l
  OBVIOUS

\* TryFastAppend appends the literal.
LEMMA FastAppendHeld ==
  ASSUME NEW v, Fits(v), NEW available \in Int, NEW len \in Nat,
         FastAccepts(v, available, len), NEW s \in Seq(Cells), Len(s) = 16
  PROVE  /\ Held(FastAppend(v, s, len)) = Held(v) \o SubSeq(s, 1, len)
         /\ FastAppend(v, s, len).total = v.total + len
<1>1. /\ v.kind # "validator" /\ len <= 16 /\ v.limit - v.total >= 16
      /\ v.kind = "iovec" => v.lens[v.cur] - v.at >= 16
  BY DEF FastAccepts, SpaceLeft
<1>2. v \in Writer /\ BuffersOK(v) /\ v.kind \in {"array", "iovec", "validator"}
  BY DEF Fits, Writer
<1>3. /\ v.at \in Nat /\ v.total \in Nat /\ v.limit \in Nat /\ v.cur \in 1 .. Len(v.lens)
      /\ v.lens[v.cur] \in Nat
      /\ v.kind = "array" => v.cur = 1 /\ v.at = v.total /\ v.limit <= v.lens[1]
  BY <1>1, CurrentBuffer
<1>4. v.total + 16 <= v.limit
  BY <1>1, <1>3
<1>5. v.at + 16 <= v.lens[v.cur]
  <2>1. CASE v.kind = "array"
    <3>1. v.at = v.total /\ v.limit <= v.lens[v.cur]
      BY <1>3, <2>1
    <3> QED BY <1>3, <1>4, <3>1
  <2>2. CASE v.kind = "iovec"
    <3>1. v.lens[v.cur] - v.at >= 16
      BY <1>1, <2>2
    <3> QED BY <1>3, <3>1
  <2> QED BY <1>1, <1>2, <2>1, <2>2
<1>6. PICK u : u = Store(v, v.cur, v.at, s)
  OBVIOUS
<1>7. u \in Alike(v) /\ Stored(u, v, v.cur, v.at, s)
  BY <1>2, <1>3, <1>5, <1>6, StoreCells
<1>8. PICK t : t = SubSeq(s, 1, len)
  OBVIOUS
<1>9. t \in Seq(Cells) /\ Len(t) = len /\ Stored(u, v, v.cur, v.at, t)
  <2>1. len <= Len(s)
    BY <1>1
  <2>2. Stored(u, v, v.cur, v.at, s)
    BY <1>7
  <2>3. \A x : x = SubSeq(s, 1, len) =>
          x \in Seq(Cells) /\ Len(x) = len /\ Stored(u, v, v.cur, v.at, x)
    BY <2>1, <2>2, StoredLess
  <2> QED BY <1>8, <2>3
<1>10. v.total + len <= v.limit /\ v.at + len <= v.lens[v.cur]
  BY <1>1, <1>3, <1>4, <1>5, RoomHere, Zenon
<1>11. Held(Advance(u, len)) = Held(v) \o t
  <2>1. len = Len(t) /\ t \in Seq(Cells) /\ Stored(u, v, v.cur, v.at, t)
    BY <1>9
  <2> QED BY <1>1, <1>7, <1>10, <2>1, HeldAdvanced
<1>12. Advance(u, len).total = v.total + len
  BY <1>1, <1>7, <1>10, AdvanceFits
<1> QED BY <1>6, <1>8, <1>11, <1>12 DEF FastAppend

\* Fill, where the buffers have room for all.
LEMMA FillHeld ==
  ASSUME NEW v, Fits(v), v.kind = "iovec", NEW s \in Seq(Cells),
         v.total + Len(s) <= v.limit, Room(v) >= v.limit
  PROVE  /\ Fill(v, s).ok /\ Fill(v, s).w.total = v.total + Len(s)
         /\ Held(Fill(v, s).w) = Held(v) \o s
<1>1. PICK x : x = Fill(v, s).w
  OBVIOUS
<1>2. Fits(x) /\ SameTask(x, v)
  BY <1>1, FillFits
<1>3. PICK n \in Nat : n = Len(s)
  OBVIOUS
<1>4. /\ v.lens \in Seq(Nat) /\ v.total \in Nat /\ v.limit \in Nat
      /\ Address(v) = v.total
  BY PlaceTotal DEF Fits, PlaceOK
<1>5. PICK e \in Nat : e = Starts(v.lens)[Len(v.lens)] + v.lens[Len(v.lens)]
  BY WrittenFits
<1>6. e >= v.limit
  BY <1>5 DEF Room
<1>7. SmallerOf(Len(s), Starts(v.lens)[Len(v.lens)] + v.lens[Len(v.lens)] - Address(v)) = n
  <2>1. v.total + n <= e
    BY <1>3, <1>4, <1>6
  <2>2. PICK g \in Nat : g = e - v.total /\ n <= g
    BY <1>4, <2>1
  <2>3. SmallerOf(n, g) = n
    BY <2>2 DEF SmallerOf
  <2>4. Starts(v.lens)[Len(v.lens)] + v.lens[Len(v.lens)] - Address(v) = g
    <3>1. v.total \in Int /\ Starts(v.lens)[Len(v.lens)] \in Int /\ v.lens[Len(v.lens)] \in Int
      BY <1>4, WrittenFits
    <3>2. Starts(v.lens)[Len(v.lens)] + (v.lens[Len(v.lens)] - v.total)
            = (Starts(v.lens)[Len(v.lens)] + v.lens[Len(v.lens)]) - v.total
      BY <3>1, Regroup, Zenon
    <3> QED BY <1>4, <1>5, <2>2, <3>2, Zenon
  <2> QED BY <1>3, <2>3, <2>4, Zenon
<1>8. Fill(v, s).ok
  BY <1>3, <1>7 DEF Fill
<1>9. x.total = v.total + n
  BY <1>1, <1>7 DEF Fill, Fits, Writer
<1>10. x.bufs = [b \in DOMAIN v.bufs |-> [k \in DOMAIN v.bufs[b] |->
                   IF k <= v.lens[b] /\ Starts(v.lens)[b] + k - v.total \in 1 .. n
                     THEN s[Starts(v.lens)[b] + k - v.total] ELSE v.bufs[b][k]]]
  BY <1>1, <1>4, <1>7 DEF Fill, Fits, Writer
<1>11. ASSUME NEW b, NEW k, NEW i \in Nat, IsCell(v.lens, b, k, i)
       PROVE  x.bufs[b][k] = IF i - v.total \in 1 .. n THEN s[i - v.total] ELSE v.bufs[b][k]
  <2>1. b \in 1 .. Len(v.lens) /\ k \in Nat \ {0} /\ k <= v.lens[b] /\ Starts(v.lens)[b] + k = i
    BY <1>11 DEF IsCell
  <2>2. b \in DOMAIN v.bufs /\ k \in DOMAIN v.bufs[b]
    <3>1. v \in Writer /\ BuffersOK(v)
      BY DEF Fits
    <3>2. v.lens[b] \in Nat /\ v.bufs[b] \in Seq(Cells) /\ Len(v.bufs[b]) = v.lens[b] + Slack
      BY <2>1, <3>1, BufferCells
    <3>3. k \in 1 .. Len(v.bufs[b])
      BY <2>1, <3>2 DEF Slack
    <3>4. DOMAIN v.bufs = 1 .. Len(v.lens)
      BY <3>1 DEF Writer, BuffersOK
    <3> QED BY <2>1, <3>2, <3>3, <3>4
  <2>3. x.bufs[b][k] = IF k <= v.lens[b] /\ Starts(v.lens)[b] + k - v.total \in 1 .. n
                         THEN s[Starts(v.lens)[b] + k - v.total] ELSE v.bufs[b][k]
    BY <1>10, <2>2
  <2>4. Starts(v.lens)[b] + k - v.total = i - v.total
    <3>1. v.lens \in Seq(Nat) /\ v.total \in Int /\ k \in Int
      BY <1>4, <2>1
    <3>2. Starts(v.lens)[b] \in Nat
      BY <2>1, <3>1, StartOf, Zenon
    <3>3. Starts(v.lens)[b] \in Int
      BY <3>2
    <3>4. Starts(v.lens)[b] + (k - v.total) = (Starts(v.lens)[b] + k) - v.total
      BY <3>1, <3>3, Regroup, Zenon
    <3> QED BY <2>1, <3>4, Zenon
  <2> QED BY <2>1, <2>3, <2>4, Zenon
<1>12. ASSUME NEW i \in 1 .. v.total, NEW b, NEW k, IsCell(v.lens, b, k, i)
       PROVE  x.bufs[b][k] = v.bufs[b][k]
  <2>1. i \in Nat /\ ~(i - v.total \in 1 .. n)
    BY <1>4
  <2> QED BY <1>11, <1>12, <2>1
<1>13. ASSUME NEW i \in 1 .. Len(s), NEW b, NEW k, IsCell(v.lens, b, k, v.total + i)
       PROVE  x.bufs[b][k] = s[i]
  <2>1. PICK j \in Nat : j = v.total + i
    BY <1>4
  <2>2. j - v.total \in 1 .. n /\ j - v.total = i
    BY <1>3, <1>4, <2>1
  <2>3. IsCell(v.lens, b, k, j)
    BY <1>13, <2>1
  <2>4. x.bufs[b][k] = s[j - v.total]
    BY <1>11, <2>1, <2>2, <2>3
  <2> QED BY <2>2, <2>4
<1>14. v.kind # "validator" /\ x.kind # "validator" /\ x.lens = v.lens
  BY <1>2 DEF SameTask
<1>15. x.total = v.total + Len(s)
  BY <1>3, <1>9
<1>16. Held(x) = Held(v) \o s
  BY <1>2, <1>12, <1>13, <1>14, <1>15, HeldGrows
<1> QED BY <1>1, <1>8, <1>15, <1>16

\* A call of Append succeeds if it stays below the length announced.
LEMMA AppendWrites ==
  ASSUME NEW v, Fits(v), Enough(v), NEW s \in Seq(Cells), NEW C, NEW t \in Seq(C), Wrote(v, t),
         C \subseteq Cells
  PROVE  /\ AppendBytes(v, s).ok <=> v.total + Len(s) <= v.limit
         /\ AppendBytes(v, s).ok => Wrote(AppendBytes(v, s).w, t \o s)
<1>1. PICK n \in Nat : n = Len(s)
  OBVIOUS
<1>2. PICK x : x = AppendBytes(v, s)
  OBVIOUS
<1>3. /\ v \in Writer /\ BuffersOK(v) /\ v.kind \in {"array", "iovec", "validator"}
      /\ v.total \in Nat /\ v.limit \in Nat
  BY DEF Fits, Writer
<1>4. Len(t \o s) = v.total + n
  <2>1. t \in Seq(Cells)
    OBVIOUS
  <2>2. Len(t \o s) = Len(t) + Len(s)
    BY <2>1, JoinIs
  <2> QED BY <1>1, <2>2 DEF Wrote
<1>5. v.kind # "validator" => Held(v) = t
  BY DEF Wrote
<1>6. CASE v.kind = "validator"
  <2>1. x = Count(v, n)
    BY <1>1, <1>2, <1>6 DEF AppendBytes
  <2>2. x.ok <=> v.total + n <= v.limit
    BY <2>1 DEF Count
  <2>3. x.w.kind = "validator" /\ x.w.total = v.total + n
    BY <1>3, <1>6, <2>1 DEF Count, Writer
  <2>4. Wrote(x.w, t \o s)
    BY <1>4, <2>3 DEF Wrote
  <2> QED BY <1>1, <1>2, <2>2, <2>4
<1>7. CASE v.kind = "array"
  <2>1. /\ v.cur = 1 /\ 1 \in 1 .. Len(v.lens) /\ v.at \in Nat
        /\ v.at = v.total /\ v.limit <= v.lens[1] /\ v.lens[1] \in Nat
    BY <1>7, CurrentBuffer
  <2>2. SpaceLeft(v) < n <=> ~(v.total + n <= v.limit)
    BY <1>3 DEF SpaceLeft
  <2>3. CASE SpaceLeft(v) < n
    <3>1. x = Failed(v)
      BY <1>1, <1>2, <1>7, <2>3 DEF AppendBytes
    <3> QED BY <1>1, <1>2, <2>2, <2>3, <3>1 DEF Failed
  <2>4. CASE ~(SpaceLeft(v) < n)
    <3>1. PICK u : u = Store(v, 1, v.at, s)
      OBVIOUS
    <3>2. v.total + n <= v.limit
      BY <2>2, <2>4
    <3>3. v.at + n <= v.lens[1]
      BY <1>3, <2>1, <3>2
    <3>4. u \in Alike(v) /\ Stored(u, v, 1, v.at, s)
      BY <1>1, <1>3, <2>1, <3>1, <3>3, StoreCells
    <3>5. x = Done(Advance(u, n))
      BY <1>1, <1>2, <1>7, <2>4, <3>1 DEF AppendBytes
    <3>6. /\ Fits(Advance(u, n)) /\ SameTask(Advance(u, n), v) /\ Held(Advance(u, n)) = Held(v) \o s
      <4>1. v.kind # "validator" /\ v.at + n <= v.lens[v.cur] /\ Stored(u, v, v.cur, v.at, s)
        BY <1>7, <2>1, <3>3, <3>4
      <4> QED BY <1>1, <3>2, <3>4, <4>1, HeldAdvanced
    <3>7. Advance(u, n).total = v.total + n
      BY <1>7, <3>2, <3>4, AdvanceFits
    <3>8. Wrote(Advance(u, n), t \o s)
      BY <1>4, <1>5, <1>7, <3>6, <3>7 DEF Wrote
    <3> QED BY <1>1, <1>2, <3>2, <3>5, <3>8 DEF Done
  <2> QED BY <2>3, <2>4
<1>8. CASE v.kind = "iovec"
  <2>1. CASE v.total + n > v.limit
    <3>1. x = Failed(v)
      BY <1>1, <1>2, <1>8, <2>1 DEF AppendBytes
    <3>2. ~(v.total + n <= v.limit)
      BY <1>3, <2>1
    <3> QED BY <1>1, <1>2, <3>1, <3>2 DEF Failed
  <2>2. CASE ~(v.total + n > v.limit)
    <3>1. x = Fill(v, s)
      BY <1>1, <1>2, <1>8, <2>2 DEF AppendBytes
    <3>2. v.total + Len(s) <= v.limit
      BY <1>1, <1>3, <2>2
    <3>3. x.ok /\ x.w.total = v.total + Len(s) /\ Held(x.w) = Held(v) \o s
      BY <1>8, <3>1, <3>2, FillHeld DEF Enough
    <3>4. Wrote(x.w, t \o s)
      BY <1>1, <1>4, <1>5, <1>8, <3>3 DEF Wrote
    <3> QED BY <1>2, <3>2, <3>3, <3>4
  <2> QED BY <2>1, <2>2
<1> QED BY <1>3, <1>6, <1>7, <1>8

----------------------------------------------------------------------------
(* What copies add *)

\* The cells of the current buffer are the last ones that are held.
LEMMA CurrentCells ==
  ASSUME NEW v, Fits(v), v.kind # "validator", NEW j \in 1 .. v.at
  PROVE  Held(v)[v.total - v.at + j] = v.bufs[v.cur][j]
<1>1. /\ v.lens \in Seq(Nat) /\ v.cur \in 1 .. Len(v.lens)
      /\ v.at \in Nat /\ v.total \in Nat /\ v.lens[v.cur] \in Nat
      /\ Starts(v.lens)[v.cur] \in Nat /\ Starts(v.lens)[v.cur] + v.at = v.total
      /\ v.at <= v.lens[v.cur]
  BY PlaceTotal
<1>2. PICK t \in Nat : t = v.total
  BY <1>1
<1>3. PICK i \in Nat : i = v.total - v.at + j
  BY <1>1
<1>4. Starts(v.lens)[v.cur] + j = i /\ i \in 1 .. v.total
  BY <1>1, <1>3
<1>5. i \in 1 .. t
  BY <1>2, <1>4
<1>6. IsCell(v.lens, v.cur, j, i)
  <2>1. j \in Nat \ {0} /\ j <= v.lens[v.cur]
    BY <1>1
  <2> QED BY <1>1, <1>4, <2>1 DEF IsCell
<1>7. \A k \in 1 .. t : \A c, d : IsCell(v.lens, c, d, k) => Held(v)[k] = v.bufs[c][d]
  BY <1>2, HeldIs
<1>8. Held(v)[i] = v.bufs[v.cur][j]
  BY <1>5, <1>6, <1>7
<1> QED BY <1>3, <1>8

\* A sequence and the bytes after it, where they are those off bytes back.
LEMMA JoinGrown ==
  ASSUME NEW C, NEW h \in Seq(C), NEW s \in Seq(C), NEW m \in Nat, m = Len(h),
         NEW n \in Nat, n = Len(s), NEW off \in 1 .. m,
         \A i \in 1 .. n : s[i] = IF i <= off THEN h[(m - off) + i] ELSE s[i - off]
  PROVE  h \o s \in Seq(C) /\ Grown(h \o s, h, off, n)
<1>1. PICK j : j = h \o s
  OBVIOUS
<1>2. /\ j \in Seq(C) /\ Len(j) = m + n /\ \A i \in 1 .. m : j[i] = h[i]
      /\ \A i \in 1 .. n : j[m + i] = s[i]
  BY <1>1, JoinIs
<1>3. ASSUME NEW k \in m + 1 .. m + n PROVE j[k] = j[k - off]
  <2>1. PICK i \in 1 .. n : k = m + i
    <3>1. k - m \in 1 .. n /\ k = m + (k - m)
      OBVIOUS
    <3> QED BY <3>1, Zenon
  <2>2. j[k] = s[i]
    BY <1>2, <2>1
  <2>3. CASE i <= off
    <3>1. k - off = (m - off) + i /\ k - off \in 1 .. m
      BY <2>1, <2>3
    <3>2. s[i] = h[(m - off) + i]
      BY <2>3
    <3>3. j[k - off] = h[k - off]
      BY <1>2, <3>1
    <3> QED BY <2>2, <3>1, <3>2, <3>3
  <2>4. CASE i > off
    <3>1. k - off = m + (i - off) /\ i - off \in 1 .. n /\ ~(i <= off)
      BY <2>1, <2>4
    <3>2. s[i] = s[i - off]
      BY <3>1
    <3>3. j[m + (i - off)] = s[i - off]
      BY <1>2, <3>1
    <3> QED BY <2>2, <3>1, <3>2, <3>3
  <2> QED BY <2>3, <2>4
<1>4. Grown(j, h, off, n)
  BY <1>2, <1>3 DEF Grown
<1> QED BY <1>1, <1>2, <1>4

\* Pattern p has the cells of the current buffer that were written, and repeats itself.
Pattern(p, v, off, n) ==
  /\ p \in Seq(Cells) /\ Len(p) = v.at + n
  /\ \A k \in 1 .. v.at : p[k] = v.bufs[v.cur][k]
  /\ \A i \in 1 .. n : p[v.at + i] = p[(v.at - off) + i]

\* There is one.
LEMMA PatternExists ==
  ASSUME NEW v, Fits(v), v.kind # "validator", NEW off \in 1 .. v.at, NEW n \in Nat
  PROVE  \E p : Pattern(p, v, off, n) /\ Shows(v, v, v.cur, p, v.at)
<1>1. /\ v.lens \in Seq(Nat) /\ v.cur \in 1 .. Len(v.lens)
      /\ v.at \in Nat /\ v.lens[v.cur] \in Nat /\ v.at <= v.lens[v.cur]
  BY PlaceTotal
<1>2. v \in Writer /\ BuffersOK(v)
  BY DEF Fits
<1>3. PICK q : q = v.bufs[v.cur]
  OBVIOUS
<1>4. q \in Seq(Cells) /\ Len(q) = v.lens[v.cur] + Slack
  BY <1>1, <1>2, <1>3, BufferCells
<1>5. PICK a \in Nat : a = v.at
  BY <1>1
<1>6. a <= Len(q) /\ off \in 1 .. a
  <2>1. v.at <= Len(q)
    BY <1>1, <1>4 DEF Slack
  <2> QED BY <1>5, <2>1
<1>7. PICK out : out = SubSeq(q, 1, a)
  OBVIOUS
<1>8. out \in Seq(Cells) /\ Len(out) = a /\ \A k \in 1 .. a : out[k] = q[k]
  <2>1. 0 \in Nat /\ 0 <= a /\ out = SubSeq(q, 0 + 1, a) /\ a - 0 = a
    BY <1>7
  <2>2. out \in Seq(Cells) /\ Len(out) = a - 0 /\ \A i \in 1 .. a - 0 : out[i] = q[0 + i]
    BY <1>4, <1>6, <2>1, PartIs
  <2> QED BY <2>1, <2>2
<1>9. PICK p \in Seq(Cells) : Grown(p, out, off, n)
  <2>1. off \in 1 .. Len(out)
    BY <1>6, <1>8
  <2> QED BY <1>8, <2>1, GrownExists
<1>10. /\ Len(p) = a + n /\ \A k \in 1 .. a : p[k] = out[k]
       /\ \A i \in a + 1 .. a + n : p[i] = p[i - off]
  BY <1>8, <1>9 DEF Grown
<1>11. ASSUME NEW i \in 1 .. n PROVE p[a + i] = p[(a - off) + i]
  <2>1. a + i \in a + 1 .. a + n /\ (a + i) - off = (a - off) + i
    BY <1>6
  <2> QED BY <1>10, <2>1
<1>12. \A k \in 1 .. a : p[k] = v.bufs[v.cur][k]
  BY <1>3, <1>8, <1>10
<1>13. Pattern(p, v, off, n)
  BY <1>5, <1>9, <1>10, <1>11, <1>12 DEF Pattern
<1>14. Shows(v, v, v.cur, p, v.at)
  BY <1>2, <1>5, <1>12 DEF Shows, Alike
<1> QED BY <1>13, <1>14

\* A copy inside the current buffer.
LEMMA HeldCopied ==
  ASSUME NEW v, Fits(v), v.kind # "validator", NEW off \in 1 .. v.at, NEW n \in Nat, NEW k \in Nat,
         NEW p, Pattern(p, v, off, k), n <= k, v.total + n <= v.limit, v.at + n <= v.lens[v.cur],
         NEW u, Shows(u, v, v.cur, p, v.at + n)
  PROVE  /\ Fits(Advance(u, n)) /\ SameTask(Advance(u, n), v)
         /\ Advance(u, n).total = v.total + n
         /\ Held(Advance(u, n)) \in Seq(Cells) /\ off \in 1 .. Len(Held(v))
         /\ Grown(Held(Advance(u, n)), Held(v), off, n)
<1>1. /\ v.at \in Nat /\ v.total \in Nat /\ v.limit \in Nat /\ v.cur \in 1 .. Len(v.lens)
      /\ v.at <= v.total
  <2>1. Starts(v.lens)[v.cur] \in Nat /\ Starts(v.lens)[v.cur] + v.at = v.total
        /\ v.at \in Nat /\ v.total \in Nat
    BY PlaceTotal
  <2> QED BY <2>1, PlaceTotal
<1>2. PICK a \in Nat : a = v.at
  BY <1>1
<1>3. PICK m \in Nat : m = v.total
  BY <1>1
<1>4. a <= m /\ off \in 1 .. a
  BY <1>1, <1>2, <1>3
<1>5. /\ p \in Seq(Cells) /\ Len(p) = a + k
      /\ \A i \in 1 .. a : p[i] = v.bufs[v.cur][i]
      /\ \A i \in 1 .. k : p[a + i] = p[(a - off) + i]
  BY <1>2 DEF Pattern
<1>6. u \in Alike(v) /\ \A c \in 1 .. Len(v.lens) : c # v.cur => u.bufs[c] = v.bufs[c]
  BY DEF Shows
<1>7. \A i \in 1 .. a + n : u.bufs[v.cur][i] = p[i]
  BY <1>2 DEF Shows
<1>8. PICK s : s = SubSeq(p, a + 1, a + n)
  OBVIOUS
<1>9. s \in Seq(Cells) /\ Len(s) = n /\ \A i \in 1 .. n : s[i] = p[a + i]
  <2>1. PICK z \in Nat : z = a + n
    OBVIOUS
  <2>2. a <= z /\ z <= Len(p) /\ z - a = n /\ s = SubSeq(p, a + 1, z)
    BY <1>5, <1>8, <2>1
  <2>3. s \in Seq(Cells) /\ Len(s) = z - a /\ \A i \in 1 .. z - a : s[i] = p[a + i]
    BY <1>5, <2>2, PartIs
  <2> QED BY <2>2, <2>3
<1>10. Stored(u, v, v.cur, v.at, s)
  <2>1. ASSUME NEW i \in 1 .. a PROVE u.bufs[v.cur][i] = v.bufs[v.cur][i]
    <3>1. i \in 1 .. a + n
      OBVIOUS
    <3> QED BY <1>5, <1>7, <3>1
  <2>2. ASSUME NEW i \in 1 .. n PROVE u.bufs[v.cur][a + i] = s[i]
    <3>1. a + i \in 1 .. a + n
      OBVIOUS
    <3> QED BY <1>7, <1>9, <3>1
  <2> QED BY <1>2, <1>6, <1>9, <2>1, <2>2 DEF Stored
<1>11. PICK x : x = Advance(u, n)
  OBVIOUS
<1>12. Fits(x) /\ SameTask(x, v) /\ Held(x) = Held(v) \o s
  <2>1. n = Len(s)
    BY <1>9
  <2> QED BY <1>6, <1>9, <1>10, <1>11, <2>1, HeldAdvanced
<1>13. x.total = v.total + n
  BY <1>6, <1>11, AdvanceFits
<1>14. PICK h : h = Held(v)
  OBVIOUS
<1>15. h \in Seq(Cells) /\ Len(h) = m
  BY <1>3, <1>14, HeldIs
<1>16. ASSUME NEW i \in 1 .. a PROVE h[(m - a) + i] = p[i]
  <2>1. i \in 1 .. v.at
    BY <1>2
  <2>2. h[v.total - v.at + i] = v.bufs[v.cur][i]
    BY <1>14, <2>1, CurrentCells
  <2> QED BY <1>2, <1>3, <1>5, <2>2
<1>17. ASSUME NEW i \in 1 .. n
       PROVE  s[i] = IF i <= off THEN h[(m - off) + i] ELSE s[i - off]
  <2>1. i \in 1 .. k /\ s[i] = p[a + i]
    BY <1>9
  <2>2. s[i] = p[(a - off) + i]
    BY <1>5, <2>1
  <2>3. CASE i <= off
    <3>1. PICK j \in 1 .. a : j = (a - off) + i
      BY <1>4, <2>3
    <3>2. (m - a) + j = (m - off) + i
      BY <3>1
    <3> QED BY <1>16, <2>2, <2>3, <3>1, <3>2
  <2>4. CASE ~(i <= off)
    <3>1. i - off \in 1 .. n /\ a + (i - off) = (a - off) + i
      BY <1>4, <2>4
    <3> QED BY <1>9, <2>2, <2>4, <3>1
  <2> QED BY <2>3, <2>4
<1>18. off \in 1 .. m
  BY <1>4
<1>19. h \o s \in Seq(Cells) /\ Grown(h \o s, h, off, n)
  <2>1. m = Len(h) /\ n = Len(s)
    BY <1>9, <1>15
  <2> QED BY <1>3, <1>9, <1>15, <1>17, <1>18, <2>1, JoinGrown
<1> QED BY <1>11, <1>12, <1>13, <1>14, <1>15, <1>18, <1>19

\* Writer u has made a copy of len bytes for v.
CopiedBy(u, v, offset, len) ==
  /\ v.total + len <= v.limit /\ v.at + len <= v.lens[v.cur]
  /\ \E p, k : k \in Nat /\ len <= k /\ Pattern(p, v, offset, k) /\ Shows(u, v, v.cur, p, v.at + len)

\* It holds the copy once it has moved on.
LEMMA CopiedHeld ==
  ASSUME NEW v, Fits(v), v.kind # "validator", NEW offset \in 1 .. v.at, NEW len \in Nat,
         NEW u, CopiedBy(u, v, offset, len), NEW C, C \subseteq Cells, NEW t \in Seq(C), Wrote(v, t)
  PROVE  /\ Fits(Advance(u, len)) /\ SameTask(Advance(u, len), v)
         /\ offset \in 1 .. Len(t) /\ Wrote(Advance(u, len), CopyFromSelf(t, offset, len))
<1>1. PICK p, k : k \in Nat /\ len <= k /\ Pattern(p, v, offset, k) /\ Shows(u, v, v.cur, p, v.at + len)
  BY DEF CopiedBy
<1>2. v.total + len <= v.limit /\ v.at + len <= v.lens[v.cur]
  BY DEF CopiedBy
<1>3. PICK x : x = Advance(u, len)
  OBVIOUS
<1>4. /\ Fits(x) /\ SameTask(x, v) /\ x.total = v.total + len
      /\ Held(x) \in Seq(Cells) /\ offset \in 1 .. Len(Held(v))
      /\ Grown(Held(x), Held(v), offset, len)
  BY <1>1, <1>2, <1>3, HeldCopied
<1>5. Held(v) = t /\ v.total = Len(t) /\ t \in Seq(Cells)
  BY DEF Wrote
<1>6. CopyFromSelf(t, offset, len) = Held(x)
  BY <1>4, <1>5, CopyUnique
<1>7. Len(Held(x)) = Len(t) + len
  BY <1>4, <1>5 DEF Grown
<1>8. Wrote(x, CopyFromSelf(t, offset, len))
  BY <1>4, <1>5, <1>6, <1>7 DEF Wrote
<1> QED BY <1>3, <1>4, <1>5, <1>8

\* The three ways of the array writer to copy do the same.
LEMMA ArrayCopies ==
  ASSUME NEW v, Fits(v), v.kind = "array", NEW offset \in Nat, NEW len \in Nat \ {0},
         NEW wide, CanReach(v, offset)
  PROVE  \/ v.total + len > v.limit /\ ArrayCopy(v, offset, len, wide) = Failed(v)
         \/ \E u : CopiedBy(u, v, offset, len) /\ ArrayCopy(v, offset, len, wide) = Done(Advance(u, len))
<1>1. /\ v.cur = 1 /\ 1 \in 1 .. Len(v.lens) /\ v.at \in Nat /\ v.total \in Nat
      /\ v.limit \in Nat /\ v.at = v.total /\ v.limit <= v.lens[1] /\ v.lens[1] \in Nat
  BY CurrentBuffer
<1>2. v \in Writer /\ BuffersOK(v)
  BY DEF Fits
<1>3. PICK at \in Nat, top \in Nat, room \in Nat, from \in Nat :
        /\ at = v.at /\ top = v.limit /\ room = v.lens[1] /\ from = v.at - offset
  BY <1>1 DEF CanReach
<1>4. top <= room /\ from + offset = at /\ from < at /\ SpaceLeft(v) = top - at /\ offset \in 1 .. at
  BY <1>1, <1>3 DEF CanReach, SpaceLeft
<1>5. ASSUME NEW u, NEW p, NEW k \in Nat, len <= k, at + len <= top, Pattern(p, v, offset, k),
             Shows(u, v, 1, p, at + len)
      PROVE  CopiedBy(u, v, offset, len)
  <2>1. v.total + len <= v.limit
    BY <1>1, <1>3, <1>5
  <2>2. at + len <= room
    BY <1>4, <1>5
  <2>3. v.at + len <= v.lens[v.cur]
    BY <1>1, <1>3, <2>2
  <2>4. Shows(u, v, v.cur, p, v.at + len)
    BY <1>1, <1>3, <1>5
  <2> QED BY <1>5, <2>1, <2>3, <2>4 DEF CopiedBy
<1>6. ASSUME NEW k \in Nat
      PROVE  \E p : /\ Pattern(p, v, offset, k) /\ Shows(v, v, 1, p, at) /\ p \in Seq(Cells)
                    /\ Len(p) = at + k /\ \A i \in 1 .. k : p[at + i] = p[from + i]
  <2>1. offset \in 1 .. v.at /\ v.kind # "validator"
    BY <1>3, <1>4
  <2>2. PICK p : Pattern(p, v, offset, k) /\ Shows(v, v, v.cur, p, v.at)
    BY <2>1, PatternExists
  <2>3. Shows(v, v, 1, p, at)
    BY <1>1, <1>3, <2>2
  <2>4. p \in Seq(Cells) /\ Len(p) = at + k /\ \A i \in 1 .. k : p[at + i] = p[from + i]
    BY <1>3, <2>2 DEF Pattern
  <2> QED BY <2>2, <2>3, <2>4
<1>7. CASE len <= 16 /\ offset >= 8 /\ SpaceLeft(v) >= 16
  <2>1. at + 16 <= room /\ from + 16 <= room /\ at + len <= top /\ from + 8 <= at
    BY <1>4, <1>7
  <2>2. PICK p : /\ Pattern(p, v, offset, 16) /\ Shows(v, v, 1, p, at) /\ p \in Seq(Cells)
                 /\ Len(p) = at + 16 /\ \A i \in 1 .. 16 : p[at + i] = p[from + i]
    BY <1>6
  <2>3. PICK u : u = Copy64(v, 1, from, at, wide)
    OBVIOUS
  <2>4. PICK f \in Nat, t \in Nat : f = from + 8 /\ t = at + 8
    OBVIOUS
  <2>5. f + 8 <= room /\ t + 8 <= room /\ f + 8 <= t
    BY <2>1, <2>4
  <2>6. Shows(u, v, 1, p, t)
    <3>1. from + 8 <= v.lens[1] /\ at + 8 <= v.lens[1] /\ at <= at /\ 8 \in 0 .. 8
      BY <1>3, <2>1
    <3>2. ASSUME NEW i \in 1 .. 8 PROVE p[at + i] = p[from + i]
      <4>1. i \in 1 .. 16
        OBVIOUS
      <4> QED BY <2>2, <4>1
    <3>3. Shows(Copy64(v, 1, from, at, wide), v, 1, p, at + 8)
      BY <1>1, <1>2, <2>1, <2>2, <3>1, <3>2, Copy64Shows
    <3> QED BY <2>3, <2>4, <3>3
  <2>7. PICK x : x = Copy64(u, 1, f, t, wide)
    OBVIOUS
  <2>8. Shows(x, v, 1, p, t + 8)
    <3>1. f + 8 <= v.lens[1] /\ t + 8 <= v.lens[1] /\ t <= t /\ 8 \in 0 .. 8
      BY <1>3, <2>5
    <3>2. ASSUME NEW i \in 1 .. 8 PROVE p[t + i] = p[f + i]
      <4>1. PICK j \in 1 .. 16 : j = 8 + i
        OBVIOUS
      <4>2. t + i = at + j /\ f + i = from + j
        BY <2>4, <4>1
      <4> QED BY <2>2, <4>2
    <3> QED BY <1>1, <1>2, <2>5, <2>6, <2>7, <3>1, <3>2, Copy64Shows
  <2>9. Shows(x, v, 1, p, at + len)
    <3>1. at + len \in Nat /\ t + 8 \in Nat /\ at + len <= t + 8
      BY <1>7, <2>4
    <3> QED BY <2>8, <3>1, ShowsLess, Zenon
  <2>10. ArrayCopy(v, offset, len, wide) = Done(Advance(x, len))
    BY <1>3, <1>7, <2>3, <2>4, <2>7 DEF ArrayCopy
  <2>11. CopiedBy(x, v, offset, len)
    BY <1>5, <1>7, <2>1, <2>2, <2>9
  <2> QED BY <2>10, <2>11
<1>8. CASE /\ ~(len <= 16 /\ offset >= 8 /\ SpaceLeft(v) >= 16)
           /\ SpaceLeft(v) >= len + kMaxIncrementCopyOverflow
  <2>1. PICK u : u = IncrementalCopyFastPath(v, 1, from, at, len, wide)
    OBVIOUS
  <2>2. at + len + 10 <= top /\ at + len + 10 <= room /\ at + len <= top
    BY <1>4, <1>8 DEF kMaxIncrementCopyOverflow
  <2>3. at + len + kMaxIncrementCopyOverflow <= v.lens[1]
    BY <1>3, <2>2 DEF kMaxIncrementCopyOverflow
  <2>4. PICK k \in Nat : k = len + 10
    OBVIOUS
  <2>5. PICK p : /\ Pattern(p, v, offset, k) /\ Shows(v, v, 1, p, at) /\ p \in Seq(Cells)
                 /\ Len(p) = at + k /\ \A i \in 1 .. k : p[at + i] = p[from + i]
    BY <1>6
  <2>6. Period(p, from, at - from)
    <3>1. PICK g \in Nat : g = at - from /\ from + g = at
      BY <1>4
    <3>2. ASSUME NEW i \in 1 .. Len(p) - (from + g) PROVE p[from + g + i] = p[from + i]
      <4>1. i \in 1 .. k /\ from + g + i = at + i
        BY <2>5, <3>1
      <4> QED BY <2>5, <4>1
    <3>3. Period(p, from, g)
      BY <3>2 DEF Period
    <3> QED BY <3>1, <3>3
  <2>7. at + len + 10 <= Len(p)
    BY <2>4, <2>5
  <2>8. Shows(u, v, 1, p, at + len)
    BY <1>1, <1>2, <1>4, <2>1, <2>3, <2>5, <2>6, <2>7, FastPathShows
  <2>9. ArrayCopy(v, offset, len, wide) = Done(Advance(u, len))
    BY <1>3, <1>8, <2>1 DEF ArrayCopy
  <2>10. CopiedBy(u, v, offset, len)
    <3>1. len <= k
      BY <2>4
    <3> QED BY <1>5, <2>2, <2>5, <2>8, <3>1
  <2> QED BY <2>9, <2>10
<1>9. CASE /\ ~(len <= 16 /\ offset >= 8 /\ SpaceLeft(v) >= 16)
           /\ ~(SpaceLeft(v) >= len + kMaxIncrementCopyOverflow)
           /\ ~(SpaceLeft(v) < len)
  <2>1. PICK u : u = IncrementalCopy(v, 1, from, at, len)
    OBVIOUS
  <2>2. at + len <= room /\ from + len <= room /\ at + len <= top
    BY <1>4, <1>9
  <2>3. from + len <= v.lens[1] /\ at + len <= v.lens[1]
    BY <1>3, <2>2
  <2>4. PICK p : /\ Pattern(p, v, offset, len) /\ Shows(v, v, 1, p, at) /\ p \in Seq(Cells)
                 /\ Len(p) = at + len /\ \A i \in 1 .. len : p[at + i] = p[from + i]
    BY <1>6
  <2>5. Shows(u, v, 1, p, at + len)
    BY <1>1, <1>2, <1>4, <2>1, <2>3, <2>4, IncrementalCopyShows
  <2>6. ArrayCopy(v, offset, len, wide) = Done(Advance(u, len))
    BY <1>3, <1>9, <2>1 DEF ArrayCopy
  <2>7. CopiedBy(u, v, offset, len)
    <3>1. len <= len /\ len \in Nat
      OBVIOUS
    <3> QED BY <1>5, <2>2, <2>4, <2>5, <3>1
  <2> QED BY <2>6, <2>7
<1>10. CASE /\ ~(len <= 16 /\ offset >= 8 /\ SpaceLeft(v) >= 16)
            /\ ~(SpaceLeft(v) >= len + kMaxIncrementCopyOverflow)
            /\ SpaceLeft(v) < len
  <2>1. ArrayCopy(v, offset, len, wide) = Failed(v)
    BY <1>10 DEF ArrayCopy
  <2>2. v.total + len > v.limit
    BY <1>1, <1>10 DEF SpaceLeft
  <2> QED BY <2>1, <2>2
<1> QED BY <1>7, <1>8, <1>9, <1>10

\* AppendFromSelf of the array writer and of the validator.
LEMMA FromSelfWrites ==
  ASSUME NEW v, Fits(v), v.kind # "iovec", NEW offset \in Nat, NEW len \in Nat \ {0}, NEW wide,
         NEW C, C \subseteq Cells, NEW t \in Seq(C), Wrote(v, t)
  PROVE  /\ AppendFromSelf(v, offset, len, wide).ok
              <=> Reaches(t, offset) /\ v.total + len <= v.limit
         /\ AppendFromSelf(v, offset, len, wide).ok
              => Wrote(AppendFromSelf(v, offset, len, wide).w, CopyFromSelf(t, offset, len))
<1>1. /\ v \in Writer /\ v.kind \in {"array", "validator"} /\ v.total \in Nat /\ v.limit \in Nat
  BY DEF Fits, Writer
<1>2. CanReach(v, offset) <=> Reaches(t, offset)
  BY DEF CanReach, Reaches, Wrote
<1>3. PICK x : x = AppendFromSelf(v, offset, len, wide)
  OBVIOUS
<1>4. CASE ~CanReach(v, offset)
  <2>1. x = Failed(v)
    BY <1>3, <1>4 DEF AppendFromSelf
  <2> QED BY <1>2, <1>3, <1>4, <2>1 DEF Failed
<1>5. CASE CanReach(v, offset) /\ v.kind = "validator"
  <2>1. x = Count(v, len)
    BY <1>3, <1>5 DEF AppendFromSelf
  <2>2. x.ok <=> v.total + len <= v.limit
    BY <2>1 DEF Count
  <2>3. x.w.kind = "validator" /\ x.w.total = v.total + len
    BY <1>1, <1>5, <2>1 DEF Count, Writer
  <2>4. Len(CopyFromSelf(t, offset, len)) = v.total + len
    <3>1. offset \in 1 .. Len(t)
      BY <1>2, <1>5 DEF Reaches
    <3>2. Grown(CopyFromSelf(t, offset, len), t, offset, len)
      BY <3>1, CopyTyped
    <3> QED BY <3>2 DEF Grown, Wrote
  <2>5. Wrote(x.w, CopyFromSelf(t, offset, len))
    BY <2>3, <2>4 DEF Wrote
  <2> QED BY <1>2, <1>3, <1>5, <2>2, <2>5
<1>6. CASE CanReach(v, offset) /\ v.kind = "array"
  <2>1. x = ArrayCopy(v, offset, len, wide)
    BY <1>3, <1>6 DEF AppendFromSelf
  <2>2. offset \in 1 .. v.at /\ v.kind # "validator"
    BY <1>6, CurrentBuffer DEF CanReach
  <2>3. CASE v.total + len > v.limit /\ x = Failed(v)
    <3>1. ~(v.total + len <= v.limit)
      BY <1>1, <2>3
    <3> QED BY <1>3, <2>3, <3>1 DEF Failed
  <2>4. CASE \E u : CopiedBy(u, v, offset, len) /\ x = Done(Advance(u, len))
    <3>1. PICK u : CopiedBy(u, v, offset, len) /\ x = Done(Advance(u, len))
      BY <2>4
    <3>2. Wrote(Advance(u, len), CopyFromSelf(t, offset, len))
      BY <2>2, <3>1, CopiedHeld
    <3>3. v.total + len <= v.limit
      BY <3>1 DEF CopiedBy
    <3> QED BY <1>2, <1>3, <1>6, <3>1, <3>2, <3>3 DEF Done
  <2> QED BY <1>6, <2>1, <2>3, <2>4, ArrayCopies
<1> QED BY <1>1, <1>4, <1>5, <1>6

----------------------------------------------------------------------------
(* The copies of the iovec writer *)

\* The n cells of buffer b from at on are the cells from start on of those written.
Written(v, b, at, n, start) ==
  /\ b \in 1 .. Len(v.lens)
  /\ at + n <= v.lens[b] /\ start = Starts(v.lens)[b] + at /\ start + n <= v.total

\* Cells written before.
LEMMA LoadHeld ==
  ASSUME NEW v, Fits(v), v.kind # "validator", NEW b, NEW at \in Nat, NEW n \in Nat,
         NEW start \in Nat, Written(v, b, at, n, start)
  PROVE  /\ Load(v, b, at, n) \in Seq(Cells) /\ Len(Load(v, b, at, n)) = n
         /\ \A i \in 1 .. n : Load(v, b, at, n)[i] = Held(v)[start + i]
<1> b \in 1 .. Len(v.lens)
  BY DEF Written
<1> at + n <= v.lens[b] /\ start + n <= v.total
  BY DEF Written
<1>1. /\ v.lens \in Seq(Nat) /\ v.total \in Nat /\ v \in Writer /\ BuffersOK(v)
  BY PlaceTotal DEF Fits
<1>2. Starts(v.lens)[b] \in Nat /\ v.lens[b] \in Nat
  BY <1>1, StartOf, Zenon
<1>3. PICK q : q = v.bufs[b]
  OBVIOUS
<1>4. q \in Seq(Cells) /\ Len(q) = v.lens[b] + Slack
  BY <1>1, <1>3, BufferCells
<1>5. PICK s : s = SubSeq(q, at + 1, at + n)
  OBVIOUS
<1>6. s \in Seq(Cells) /\ Len(s) = n /\ \A i \in 1 .. n : s[i] = q[at + i]
  <2>1. PICK z \in Nat : z = at + n
    OBVIOUS
  <2>2. at + n <= Len(q)
    BY <1>2, <1>4 DEF Slack
  <2>3. at <= z /\ z <= Len(q) /\ z - at = n /\ s = SubSeq(q, at + 1, z)
    BY <1>5, <2>1, <2>2
  <2>4. s \in Seq(Cells) /\ Len(s) = z - at /\ \A i \in 1 .. z - at : s[i] = q[at + i]
    BY <1>4, <2>3, PartIs, SMTT(30)
  <2> QED BY <2>3, <2>4
<1>7. PICK t \in Nat : t = v.total
  BY <1>1
<1>8. start + n <= t
  BY <1>7
<1>9. \A k \in 1 .. t : \A c, d : IsCell(v.lens, c, d, k) => Held(v)[k] = v.bufs[c][d]
  BY <1>7, HeldIs
<1>10. ASSUME NEW i \in 1 .. n PROVE s[i] = Held(v)[start + i]
  <2>1. PICK j \in Nat \ {0} : j = at + i
    OBVIOUS
  <2>2. j <= v.lens[b]
    <3>1. at + i <= v.lens[b]
      BY <1>2
    <3> QED BY <2>1, <3>1
  <2>3. Starts(v.lens)[b] + j = start + i
    <3>1. start + i = Starts(v.lens)[b] + at + i
      BY <1>2 DEF Written
    <3>2. Starts(v.lens)[b] + at + i = Starts(v.lens)[b] + (at + i)
      BY <1>2
    <3> QED BY <2>1, <3>1, <3>2, Zenon
  <2>4. IsCell(v.lens, b, j, start + i)
    BY <2>2, <2>3 DEF IsCell
  <2>5. start + i \in 1 .. t
    BY <1>8
  <2>6. Held(v)[start + i] = q[j]
    BY <1>3, <1>9, <2>4, <2>5
  <2> QED BY <1>6, <2>1, <2>6
<1> QED BY <1>3, <1>5, <1>6, <1>10 DEF Load

\* Places of copies.
LEMMA PlaceBefore ==
  ASSUME NEW x \in Nat, NEW a \in Nat, NEW t \in Nat, x + a = t,
         NEW p \in Nat, NEW l \in Nat, p + l <= x, NEW at \in Nat, NEW n \in Nat, at + n <= l
  PROVE  p + at + n <= t
  OBVIOUS

\* The source of a copy is inside what is written.
LEMMA PlaceInside ==
  ASSUME NEW x \in Nat, NEW a \in Nat, NEW t \in Nat, x + a = t,
         NEW f \in Nat, NEW o \in 1 .. t, x + f = t - o, f <= a
  PROVE  o \in 1 .. a /\ a - o = f /\ f < a
  OBVIOUS

\* Bytes of an earlier buffer are appended: a part of a copy.
LEMMA AcrossWrites ==
  ASSUME NEW v, Fits(v), v.kind = "iovec", Enough(v), NEW b \in 1 .. Len(v.lens), b < v.cur,
         NEW at \in Nat, NEW n \in Nat, at + n <= v.lens[b], v.total + n <= v.limit,
         NEW C, C \subseteq Cells, NEW t \in Seq(C), Wrote(v, t),
         NEW offset \in 1 .. v.total, Starts(v.lens)[b] + at = v.total - offset
  PROVE  Wrote(AppendBytes(v, Load(v, b, at, n)).w, CopyFromSelf(t, offset, n))
<1>1. /\ v.lens \in Seq(Nat) /\ v.total \in Nat /\ v.limit \in Nat /\ v.cur \in 1 .. Len(v.lens)
      /\ v.at \in Nat /\ v.lens[v.cur] \in Nat
      /\ Starts(v.lens)[v.cur] \in Nat /\ Starts(v.lens)[v.cur] + v.at = v.total
  BY PlaceTotal
<1>2. Starts(v.lens)[b] \in Nat /\ v.lens[b] \in Nat
  BY <1>1, StartOf, Zenon
<1>3. Starts(v.lens)[b] + at + n <= v.total
  <2>1. Starts(v.lens)[b] + v.lens[b] <= Starts(v.lens)[v.cur]
    BY <1>1, StartsGrow
  <2>2. PICK p : p = Starts(v.lens)[b]
    OBVIOUS
  <2>3. PICK l : l = v.lens[b]
    OBVIOUS
  <2>4. PICK x : x = Starts(v.lens)[v.cur]
    OBVIOUS
  <2>5. /\ p \in Nat /\ l \in Nat /\ x \in Nat /\ v.at \in Nat /\ v.total \in Nat
        /\ p + l <= x /\ x + v.at = v.total /\ at + n <= l
    BY <1>1, <1>2, <2>1, <2>2, <2>3, <2>4, Zenon
  <2>6. p + at + n <= v.total
    BY <2>5, PlaceBefore
  <2> QED BY <2>2, <2>6, Zenon
<1>4. PICK m \in Nat : m = v.total
  BY <1>1
<1>5. PICK start \in Nat : start = Starts(v.lens)[b] + at
  BY <1>2
<1>6. start + n <= m /\ start = m - offset
  <2>1. start + n <= v.total
    BY <1>3, <1>5
  <2> QED BY <1>4, <1>5, <2>1
<1>7. PICK s : s = Load(v, b, at, n)
  OBVIOUS
<1>8. t \in Seq(Cells) /\ Held(v) = t /\ Len(t) = m
  BY <1>4 DEF Wrote
<1>9. s \in Seq(Cells) /\ Len(s) = n /\ \A i \in 1 .. n : s[i] = t[start + i]
  <2>1. start + n <= v.total
    BY <1>4, <1>6
  <2>2. /\ Load(v, b, at, n) \in Seq(Cells) /\ Len(Load(v, b, at, n)) = n
        /\ \A i \in 1 .. n : Load(v, b, at, n)[i] = Held(v)[start + i]
    <3>1. v.kind # "validator"
      OBVIOUS
    <3>2. Written(v, b, at, n, start)
      BY <1>5, <2>1 DEF Written
    <3> QED BY <3>1, <3>2, LoadHeld
  <2> QED BY <1>7, <1>8, <2>2
<1>10. PICK x : x = AppendBytes(v, s)
  OBVIOUS
<1>11. Wrote(x.w, t \o s)
  <2>1. v.total + Len(s) <= v.limit
    BY <1>9
  <2>2. /\ AppendBytes(v, s).ok <=> v.total + Len(s) <= v.limit
        /\ AppendBytes(v, s).ok => Wrote(AppendBytes(v, s).w, t \o s)
    BY <1>9, AppendWrites
  <2> QED BY <1>10, <2>1, <2>2
<1>12. n <= offset /\ offset \in 1 .. m
  BY <1>4, <1>6
<1>13. ASSUME NEW i \in 1 .. n
       PROVE  s[i] = IF i <= offset THEN t[(m - offset) + i] ELSE s[i - offset]
  <2>1. i <= offset /\ (m - offset) + i = start + i
    BY <1>6, <1>12
  <2> QED BY <1>9, <2>1
<1>14. t \o s \in Seq(Cells) /\ Grown(t \o s, t, offset, n)
  <2>1. m = Len(t) /\ n = Len(s) /\ t \in Seq(Cells) /\ s \in Seq(Cells)
    BY <1>8, <1>9
  <2>2. offset \in 1 .. m
    BY <1>12
  <2> QED BY <1>13, <2>1, <2>2, JoinGrown, Zenon
<1>15. CopyFromSelf(t, offset, n) = t \o s
  <2>1. offset \in 1 .. Len(t)
    BY <1>8, <1>12
  <2>2. t \in Seq(Cells) /\ t \o s \in Seq(Cells) /\ Grown(t \o s, t, offset, n)
    BY <1>8, <1>14
  <2> QED BY <2>1, <2>2, CopyUnique, Zenon
<1> QED BY <1>7, <1>10, <1>11, <1>15

\* Bytes are copied inside the current buffer.
LEMMA WithinWrites ==
  ASSUME NEW v, Fits(v), v.kind = "iovec", NEW from \in Nat, NEW n \in Nat,
         from <= v.at, v.at + n <= v.lens[v.cur], v.total + n <= v.limit,
         NEW C, C \subseteq Cells, NEW t \in Seq(C), Wrote(v, t),
         NEW offset \in 1 .. v.total, Starts(v.lens)[v.cur] + from = v.total - offset
  PROVE  Wrote(Advance(IncrementalCopy(v, v.cur, from, v.at, n), n), CopyFromSelf(t, offset, n))
<1>1. /\ v.lens \in Seq(Nat) /\ v.total \in Nat /\ v.limit \in Nat /\ v.cur \in 1 .. Len(v.lens)
      /\ v.at \in Nat /\ v.lens[v.cur] \in Nat
      /\ Starts(v.lens)[v.cur] \in Nat /\ Starts(v.lens)[v.cur] + v.at = v.total
  BY PlaceTotal
<1>2. v \in Writer /\ BuffersOK(v)
  BY DEF Fits
<1>3. offset \in 1 .. v.at /\ v.at - offset = from /\ from < v.at
  BY <1>1, PlaceInside, Zenon
<1>4. PICK p : Pattern(p, v, offset, n) /\ Shows(v, v, v.cur, p, v.at)
  BY <1>3, PatternExists
<1>5. PICK u : u = IncrementalCopy(v, v.cur, from, v.at, n)
  OBVIOUS
<1>6. Shows(u, v, v.cur, p, v.at + n)
  <2>1. ASSUME NEW i \in 1 .. n PROVE p[v.at + i] = p[from + i]
    BY <1>3, <1>4 DEF Pattern
  <2>2. from + n <= v.lens[v.cur]
    <3>1. PICK a \in Nat, l \in Nat : a = v.at /\ l = v.lens[v.cur]
      BY <1>1
    <3>2. a + n <= l /\ from <= a
      BY <3>1
    <3>3. from + n <= l
      BY <3>2
    <3> QED BY <3>1, <3>3
  <2> QED BY <1>1, <1>2, <1>3, <1>4, <1>5, <2>1, <2>2, IncrementalCopyShows
<1>7. CopiedBy(u, v, offset, n)
  <2>1. n \in Nat /\ n <= n
    OBVIOUS
  <2> QED BY <1>4, <1>6, <2>1 DEF CopiedBy
<1> QED BY <1>3, <1>5, <1>7, CopiedHeld

\* The writer moves on to the next buffer: it holds what it held.
LEMMA OnwardWrites ==
  ASSUME NEW v \in Writer, NEW t, Wrote(v, t)
  PROVE  Wrote([v EXCEPT !.cur = @ + 1, !.at = 0], t)
<1>1. PICK x : x = [v EXCEPT !.cur = @ + 1, !.at = 0]
  OBVIOUS
<1>2. x.kind = v.kind /\ x.lens = v.lens /\ x.total = v.total /\ x.bufs = v.bufs
  BY <1>1 DEF Writer
<1>3. Held(x) = Held(v)
  BY <1>2 DEF Held, BufferAt
<1> QED BY <1>1, <1>2, <1>3 DEF Wrote

----------------------------------------------------------------------------
(* What is buffered are the next bytes of the stream *)

\* The place of ip in the stream, and how much of it is buffered.
LEMMA HereIs ==
  ASSUME Reader, GivenOK, ShownOK, pc \in Buffering
  PROVE  /\ ip \in Nat /\ limit \in Nat /\ ip <= limit /\ pos \in Nat /\ peeked \in Nat
         /\ Here \in Nat /\ Here + (limit - ip) = pos + peeked
         /\ given.bytes \in Seq(Byte) /\ Len(given.bytes) \in Nat
         /\ Here + (limit - ip) <= Len(given.bytes) /\ Here <= Len(given.bytes)
<1>1. /\ ip \in Nat /\ limit \in Nat /\ ip <= limit /\ pos \in Nat /\ peeked \in Nat
      /\ limit - ip <= pos + peeked
      /\ given.bytes \in Seq(Byte) /\ pos + peeked <= Len(given.bytes)
  BY DEF Reader, ReaderTypeOK, SourceOK, ShownOK, GivenOK, Buffering
<1>2. PICK l \in Nat : l = Len(given.bytes)
  BY <1>1
<1>3. PICK h : h = Here
  OBVIOUS
<1>4. h = pos + peeked - (limit - ip)
  BY <1>3 DEF Here
<1>5. h \in Nat /\ h + (limit - ip) = pos + peeked /\ h + (limit - ip) <= l /\ h <= l
  BY <1>1, <1>2, <1>4
<1> QED BY <1>1, <1>2, <1>3, <1>5

\* Bytes loaded from the buffer are bytes of the stream.
LEMMA BytesShown ==
  ASSUME Reader, GivenOK, ShownOK, pc \in Buffering,
         NEW i \in Nat, NEW n \in Nat, ip <= i, i + n <= limit,
         NEW p \in Nat, p = Here + (i - ip)
  PROVE  /\ p + n <= Len(given.bytes)
         /\ Bytes(i, n) = SubSeq(given.bytes, p + 1, p + n)
         /\ Bytes(i, n) \in Seq(Byte) /\ Bytes(i, n) \in Seq(Cells) /\ Len(Bytes(i, n)) = n
<1>1. PICK h \in Nat, l \in Nat : h = Here /\ l = Len(given.bytes)
  BY HereIs
<1>2. /\ ip \in Nat /\ limit \in Nat /\ ip <= limit
      /\ given.bytes \in Seq(Byte) /\ h + (limit - ip) <= l /\ p = h + (i - ip)
  BY <1>1, HereIs
<1>3. p + n <= l
  BY <1>2
<1>4. Bytes(i, n) \in Seq(Byte) /\ Bytes(i, n) \in Seq(Cells) /\ Len(Bytes(i, n)) = n
  <2>1. pc # "gone" /\ (ip < limit => Buffered)
    BY DEF Reader, BufferOK, Buffering
  <2> QED BY <2>1, BytesAre
<1>5. PICK t : t = SubSeq(given.bytes, p + 1, p + n)
  OBVIOUS
<1>6. t \in Seq(Byte) /\ Len(t) = n /\ \A k \in 1 .. n : t[k] = given.bytes[p + k]
  <2>1. PICK z \in Nat : z = p + n
    OBVIOUS
  <2>2. p <= z /\ z <= Len(given.bytes) /\ z - p = n
    BY <1>1, <1>3, <2>1
  <2>4. t = SubSeq(given.bytes, p + 1, z)
    BY <1>5, <2>1, Zenon
  <2>3. t \in Seq(Byte) /\ Len(t) = z - p /\ \A k \in 1 .. z - p : t[k] = given.bytes[p + k]
    <3>1. PICK q : q = given.bytes
      OBVIOUS
    <3>2. q \in Seq(Byte) /\ p \in Nat /\ z \in Nat /\ p <= z /\ z <= Len(q) /\ t = SubSeq(q, p + 1, z)
      BY <1>2, <2>1, <2>2, <2>4, <3>1, Zenon
    <3>3. t \in Seq(Byte) /\ Len(t) = z - p /\ \A k \in 1 .. z - p : t[k] = q[p + k]
      BY <3>2, PartIs
    <3> QED BY <3>1, <3>3, Zenon
  <2> QED BY <2>2, <2>3
<1>7. ASSUME NEW k \in 1 .. n PROVE Bytes(i, n)[k] = t[k]
  <2>1. Bytes(i, n)[k] = At(i + k - 1)
    BY DEF Bytes
  <2>2. PICK j : j = i + k - 1
    OBVIOUS
  <2>3. j \in ip .. limit - 1 /\ h + (j - ip) + 1 = p + k
    BY <1>2, <2>2
  <2>4. At(j) = given.bytes[Here + (j - ip) + 1]
    BY <2>3 DEF ShownOK
  <2>5. At(j) = given.bytes[p + k]
    BY <1>1, <2>3, <2>4
  <2> QED BY <1>6, <2>1, <2>2, <2>5
<1>8. Bytes(i, n) = t
  BY <1>4, <1>6, <1>7, SameSequence
<1> QED BY <1>1, <1>3, <1>4, <1>5, <1>8

\* The tag and the trailer of the element at ip are those of the element at Here.
LEMMA TagShown ==
  ASSUME Reader, GivenOK, ShownOK, pc \in {"tag", "copying"}, NEW r, r.at = Here
  PROVE  /\ r.at \in Nat /\ r.at < Len(given.bytes)
         /\ Tag \in Byte /\ TagAt(given.bytes, r) = Tag /\ EntryExtra(Tag) = Extra(Tag)
         /\ EntryLength(Tag) = LengthIn(Tag) /\ EntryOffset(Tag) = 256 * OffsetIn(Tag)
         /\ After(given.bytes, r) = Here + 1 + EntryExtra(Tag)
         /\ After(given.bytes, r) <= Here + (limit - ip)
         /\ After(given.bytes, r) <= Len(given.bytes)
         /\ Trailer(given.bytes, r) = Bytes(ip + 1, EntryExtra(Tag))
<1>1. pc \in Buffering
  BY DEF Buffering
<1>2. PICK h \in Nat, l \in Nat : h = Here /\ l = Len(given.bytes)
  BY <1>1, HereIs
<1>3. /\ ip \in Nat /\ limit \in Nat /\ ip < limit /\ Tag \in Byte
      /\ EntryExtra(Tag) \in 0 .. 4 /\ ip + 1 + EntryExtra(Tag) <= limit
  BY AtTag
<1>4. h + (limit - ip) <= l
  BY <1>1, <1>2, HereIs
<1>5. PICK c \in Byte : c = Tag
  BY <1>3
<1>6. EntryExtra(c) = Extra(c) /\ EntryLength(c) = LengthIn(c) /\ EntryOffset(c) = 256 * OffsetIn(c)
  BY EntryIs
<1>7. TagAt(given.bytes, r) = c
  <2>1. ip \in ip .. limit - 1 /\ h + (ip - ip) + 1 = h + 1
    BY <1>3
  <2>2. At(ip) = given.bytes[Here + (ip - ip) + 1]
    BY <1>1, <2>1 DEF ShownOK
  <2> QED BY <1>2, <1>5, <2>1, <2>2 DEF TagAt, Tag
<1>8. PICK e \in 0 .. 4 : e = EntryExtra(Tag) /\ e = Extra(c)
  BY <1>3, <1>5, <1>6
<1>9. After(given.bytes, r) = h + 1 + e
  BY <1>2, <1>7, <1>8 DEF After
<1>10. ip + 1 + e <= limit /\ h + 1 + e <= h + (limit - ip) /\ h + 1 + e <= l /\ h < l
  <2>1. ip + 1 + e <= limit
    BY <1>3, <1>8
  <2> QED BY <1>3, <1>4, <2>1
<1>11. Trailer(given.bytes, r) = Bytes(ip + 1, e)
  <2>1. PICK i \in Nat, p \in Nat : i = ip + 1 /\ p = h + 1
    BY <1>3
  <2>2. ip <= i /\ i + e <= limit /\ p = h + (i - ip) /\ e \in Nat /\ p + 1 = h + 2 /\ p + e = h + 1 + e
    BY <1>3, <1>10, <2>1
  <2>3. Bytes(i, e) = SubSeq(given.bytes, p + 1, p + e)
    BY <1>1, <1>2, <2>2, BytesShown, SMTT(30)
  <2>4. Trailer(given.bytes, r) = SubSeq(given.bytes, h + 2, h + 1 + e)
    BY <1>2, <1>9 DEF Trailer
  <2> QED BY <2>1, <2>2, <2>3, <2>4
<1> QED BY <1>2, <1>3, <1>5, <1>6, <1>7, <1>8, <1>9, <1>10, <1>11

\* The length of a literal.
LEMMA LiteralShown ==
  ASSUME Reader, GivenOK, ShownOK, pc = "tag", Kind(Tag) = LITERAL, NEW r, r.at = Here
  PROVE  /\ IsLiteral(given.bytes, r) /\ Trailing = EntryExtra(Tag)
         /\ LengthAt(given.bytes, r)
              = IF Trailing = 0 THEN ShortLength ELSE LongLength(Bytes(ip + 1, Trailing))
         /\ After(given.bytes, r) = Here + 1 + Trailing
<1>1. /\ Tag \in Byte /\ TagAt(given.bytes, r) = Tag /\ EntryExtra(Tag) = Extra(Tag)
      /\ After(given.bytes, r) = Here + 1 + EntryExtra(Tag)
      /\ Trailer(given.bytes, r) = Bytes(ip + 1, EntryExtra(Tag))
  BY TagShown
<1>2. Trailing = EntryExtra(Tag)
  BY AtLiteral
<1>3. IsLiteral(given.bytes, r)
  BY <1>1 DEF IsLiteral
<1>4. Trailing = 0 => LengthIn(Tag) = ShortLength
  <2>1. PICK c \in Byte : c = Tag
    BY <1>1
  <2>2. Upper(c) \in 0 .. 63
    BY TagParts
  <2>3. Extra(c) = IF Upper(c) < 60 THEN 0 ELSE Upper(c) - 59
    BY <2>1 DEF Extra, LITERAL, COPY_1_BYTE_OFFSET, COPY_2_BYTE_OFFSET, COPY_4_BYTE_OFFSET
  <2>4. LengthIn(c) = IF Upper(c) < 60 THEN Upper(c) + 1 ELSE 1
    BY <2>1 DEF LengthIn, LITERAL, COPY_1_BYTE_OFFSET, COPY_2_BYTE_OFFSET, COPY_4_BYTE_OFFSET
  <2>5. Extra(c) = 0 => LengthIn(c) = Upper(c) + 1
    BY <2>2, <2>3, <2>4
  <2> QED BY <1>1, <1>2, <2>1, <2>5 DEF ShortLength
<1>5. LengthAt(given.bytes, r)
        = IF Trailing = 0 THEN ShortLength ELSE LongLength(Bytes(ip + 1, Trailing))
  BY <1>1, <1>2, <1>3, <1>4, Zenon DEF LengthAt
<1> QED BY <1>1, <1>2, <1>3, <1>5

\* The offset of a copy, of two bytes or of four, is what the load and the mask give.
LEMMA OffsetParts ==
  ASSUME NEW c \in Byte, Kind(c) # LITERAL, NEW b \in Seq(Byte), Len(b) = Extra(c)
  PROVE  256 * OffsetIn(c) + Number(b) = IF Extra(c) = 4 THEN Number(b) ELSE CopyOffset(<<c>> \o b)
<1>1. Kind(c) \in 1 .. 3
  BY TagParts DEF LITERAL
<1>2. PICK t : t = <<c>> \o b
  OBVIOUS
<1>3. t[1] = c /\ \A i \in 1 .. Len(b) : t[1 + i] = b[i]
  <2>1. <<c>> \in Seq(Byte) /\ Len(<<c>>) = 1 /\ <<c>>[1] = c
    OBVIOUS
  <2> QED BY <1>2, <2>1, JoinIs
<1>4. OffsetIn(c) \in 0 .. 7
  BY TagParts
<1>5. CASE Kind(c) = 1
  <2>1. Extra(c) = 1
    BY <1>5 DEF Extra, LITERAL, COPY_1_BYTE_OFFSET, COPY_2_BYTE_OFFSET, COPY_4_BYTE_OFFSET
  <2>2. Len(b) = 1 /\ t[2] = b[1] /\ b[1] \in Byte
    <3>1. Len(b) = 1 /\ 1 \in 1 .. Len(b)
      BY <2>1
    <3>2. t[1 + 1] = b[1]
      BY <1>3, <3>1
    <3>3. t[2] = b[1]
      BY <3>2
    <3>4. b[1] \in Byte
      <4>1. \A i \in 1 .. Len(b) : b[i] \in Byte
        OBVIOUS
      <4> QED BY <3>1, <4>1, Zenon
    <3> QED BY <3>1, <3>3, <3>4, Zenon
  <2>3. CopyOffset(t) = 256 * OffsetIn(c) + b[1]
    BY <1>3, <1>5, <2>2 DEF CopyOffset, COPY_1_BYTE_OFFSET
  <2>4. Number(b) = b[1]
    <3>1. PICK x \in Nat : x = b[1]
      BY <2>2 DEF Byte
    <3> QED BY <2>2, <3>1, SMT DEF Number
  <2> QED BY <1>2, <2>1, <2>3, <2>4
<1>6. CASE Kind(c) = 2
  <2>1. Extra(c) = 2 /\ OffsetIn(c) = 0
    BY <1>6 DEF Extra, OffsetIn, LITERAL, COPY_1_BYTE_OFFSET, COPY_2_BYTE_OFFSET, COPY_4_BYTE_OFFSET
  <2>2. Len(b) = 2 /\ t[2] = b[1] /\ t[3] = b[2] /\ b[1] \in Byte /\ b[2] \in Byte
    <3>1. Len(b) = 2 /\ 1 \in 1 .. Len(b) /\ 2 \in 1 .. Len(b)
      BY <2>1
    <3>2. t[1 + 1] = b[1] /\ t[1 + 2] = b[2]
      BY <1>3, <3>1
    <3> QED BY <3>1, <3>2
  <2>3. CopyOffset(t) = b[1] + 256 * b[2]
    BY <1>3, <1>6, <2>2 DEF CopyOffset, COPY_1_BYTE_OFFSET
  <2>4. Number(b) = b[1] + 256 * b[2]
    <3>1. \A i \in Byte : i \in Nat
      BY DEF Byte
    <3>2. PICK x \in Nat, y \in Nat : x = b[1] /\ y = b[2]
      BY <2>2, <3>1, Zenon
    <3> QED BY <2>2, <3>2, SMT DEF Number
  <2>5. Number(b) \in Nat
    BY NumberIsNat
  <2> QED BY <1>2, <2>1, <2>3, <2>4, <2>5
<1>7. CASE Kind(c) = 3
  <2>1. Extra(c) = 4 /\ OffsetIn(c) = 0
    BY <1>7 DEF Extra, OffsetIn, LITERAL, COPY_1_BYTE_OFFSET, COPY_2_BYTE_OFFSET, COPY_4_BYTE_OFFSET
  <2>2. Number(b) \in Nat
    BY NumberIsNat
  <2> QED BY <2>1, <2>2
<1> QED BY <1>1, <1>5, <1>6, <1>7

\* The length and the offset of a copy.
LEMMA CopyShown ==
  ASSUME Reader, GivenOK, ShownOK, pc \in {"tag", "copying"}, Kind(Tag) # LITERAL,
         NEW r, r.at = Here
  PROVE  /\ ~IsLiteral(given.bytes, r)
         /\ LengthAt(given.bytes, r) = EntryLength(Tag) /\ OffsetAt(given.bytes, r) = Offset
         /\ Good(given.bytes, r) <=> Reaches(r.out, Offset)
<1>1. /\ Tag \in Byte /\ TagAt(given.bytes, r) = Tag /\ EntryExtra(Tag) = Extra(Tag)
      /\ EntryLength(Tag) = LengthIn(Tag) /\ EntryOffset(Tag) = 256 * OffsetIn(Tag)
      /\ After(given.bytes, r) <= Len(given.bytes)
      /\ Trailer(given.bytes, r) = Bytes(ip + 1, EntryExtra(Tag))
  BY TagShown
<1>2. ~IsLiteral(given.bytes, r) /\ LengthAt(given.bytes, r) = EntryLength(Tag)
  BY <1>1 DEF IsLiteral, LengthAt
<1>3. PICK c \in Byte, b \in {Bytes(ip + 1, EntryExtra(Tag))} :
         c = Tag /\ b = Bytes(ip + 1, EntryExtra(Tag))
  BY <1>1
<1>4. b \in Seq(Byte) /\ Len(b) = Extra(c)
  <2>1. /\ ip \in Nat /\ limit \in Nat /\ EntryExtra(Tag) \in 0 .. 4 /\ ip + 1 + EntryExtra(Tag) <= limit
        /\ pc # "gone" /\ Buffered
    BY AtTag
  <2>2. PICK i \in Nat, e \in Nat : i = ip + 1 /\ e = EntryExtra(Tag)
    BY <2>1
  <2>3. ip <= i /\ i + e <= limit
    BY <2>1, <2>2
  <2>4. Bytes(i, e) \in Seq(Byte) /\ Len(Bytes(i, e)) = e
    BY <2>1, <2>3, BytesAre
  <2> QED BY <1>1, <1>3, <2>2, <2>4
<1>5. OffsetAt(given.bytes, r) = Offset
  <2>1. 256 * OffsetIn(c) + Number(b) = IF Extra(c) = 4 THEN Number(b) ELSE CopyOffset(<<c>> \o b)
    BY <1>3, <1>4, OffsetParts
  <2>2. Offset = 256 * OffsetIn(c) + Number(b)
    BY <1>1, <1>3 DEF Offset
  <2>3. OffsetAt(given.bytes, r) = IF Extra(c) = 4 THEN Number(b) ELSE CopyOffset(<<c>> \o b)
    BY <1>1, <1>3 DEF OffsetAt
  <2> QED BY <2>1, <2>2, <2>3
<1>6. Good(given.bytes, r) <=> Reaches(r.out, Offset)
  BY <1>1, <1>2, <1>5 DEF Good
<1> QED BY <1>2, <1>5, <1>6

----------------------------------------------------------------------------
(* What the steps that read have in common *)

\* The state before a step, and what no step of the decompressor touches.
Now    == Reader /\ GivenOK /\ Fits(w) /\ CopyOK /\ DecodesInv
Steady == UNCHANGED <<lengthVars, given, answer>>

\* The writer has put out what the reader has after n elements, and that reader is
\* at h.
ReaderAt(n, h, v) ==
  /\ n \in 0 .. Len(given.bytes) /\ ReaderAfter(n).at = h
  /\ Wrote(v, ReaderAfter(n).out)

\* Before an element there is such a reader.
LEMMA ReaderBefore ==
  ASSUME Now, Enough(w), pc \in {"called", "length", "refill", "needed", "tag"}
  PROVE  \E n : ReaderAt(n, Here, w)
<1>1. ElementAt = Here
  BY DEF ElementAt
<1>2. WrittenOK /\ Enough(w)
  BY DEF Now, DecodesInv
<1>3. \E n \in 0 .. Len(given.bytes) : ReaderAfter(n).at = ElementAt /\ Wrote(w, ReaderAfter(n).out)
  BY <1>2, Zenon DEF WrittenOK
<1> QED BY <1>1, <1>3, Zenon DEF ReaderAt

\* What is known of the reader and of what it puts out.
LEMMA ReaderIs ==
  ASSUME GivenOK, NEW n, NEW h, NEW v, ReaderAt(n, h, v)
  PROVE  /\ given.bytes \in Seq(Byte) /\ n \in 0 .. Len(given.bytes)
         /\ ReaderAfter(n).at = h /\ h \in Nat
         /\ ReaderAfter(n).out \in Seq(Byte) /\ Len(ReaderAfter(n).out) \in Nat
         /\ Wrote(v, ReaderAfter(n).out) /\ v.total = Len(ReaderAfter(n).out)
<1>1. given.bytes \in Seq(Byte) /\ n \in 0 .. Len(given.bytes)
  BY DEF GivenOK, ReaderAt
<1>2. ReaderAfter(n).at \in Nat /\ ReaderAfter(n).out \in Seq(Byte)
  BY <1>1, ReadersTyped DEF ReaderAfter, Typed
<1>3. Wrote(v, ReaderAfter(n).out) /\ v.total = Len(ReaderAfter(n).out) /\ ReaderAfter(n).at = h
  BY DEF Wrote, ReaderAt
<1> QED BY <1>1, <1>2, <1>3

\* An element that is good leads to the next reader.
LEMMA NextReader ==
  ASSUME GivenOK, NEW n, NEW h, NEW v, ReaderAt(n, h, v), h < Len(given.bytes),
         Good(given.bytes, ReaderAfter(n)),
         NEW u, Wrote(u, ReadNext(given.bytes, ReaderAfter(n)).out)
  PROVE  ReaderAt(n + 1, ReadNext(given.bytes, ReaderAfter(n)).at, u)
<1>1. given.bytes \in Seq(Byte) /\ n \in 0 .. Len(given.bytes) /\ Readers(given.bytes)[n].at < Len(given.bytes)
  BY ReaderIs DEF ReaderAfter
<1>2. /\ n + 1 \in 0 .. Len(given.bytes)
      /\ Readers(given.bytes)[n + 1] = IF Good(given.bytes, Readers(given.bytes)[n])
                                         THEN ReadNext(given.bytes, Readers(given.bytes)[n])
                                         ELSE Stuck(given.bytes)
  BY <1>1, ReaderNext
<1>3. ReaderAfter(n + 1) = ReadNext(given.bytes, ReaderAfter(n))
  BY <1>2, Zenon DEF ReaderAfter
<1> QED BY <1>2, <1>3, Zenon DEF ReaderAt

\* An element that is not good, or too long, leaves no contents.
LEMMA NoContents ==
  ASSUME GivenOK, LengthTypeOK, NEW n, NEW h, NEW v, ReaderAt(n, h, v), h < Len(given.bytes),
         Good(given.bytes, ReaderAfter(n))
           => Len(ReaderAfter(n).out) + LengthAt(given.bytes, ReaderAfter(n)) > result
  PROVE  Contents = {}
<1>1. given.bytes \in Seq(Byte) /\ n \in 0 .. Len(given.bytes) /\ Readers(given.bytes)[n].at < Len(given.bytes)
  BY ReaderIs DEF ReaderAfter
<1>2. result \in Nat
  <2>1. result \in 0 .. Word - 1
    BY DEF LengthTypeOK
  <2> QED BY <2>1
<1>3. Good(given.bytes, Readers(given.bytes)[n])
        => Len(Readers(given.bytes)[n].out) + LengthAt(given.bytes, Readers(given.bytes)[n]) > result
  BY DEF ReaderAfter
<1>4. {d \in Decodings(given.bytes) : Len(d) = result} = {}
  BY <1>1, <1>2, <1>3, TooLong
<1> QED BY <1>4 DEF Contents

\* A writer that has written nothing has put out nothing.
LEMMA NothingWritten ==
  ASSUME NEW v, Fits(v), v.total = 0
  PROVE  Wrote(v, << >>)
<1>1. v.total = Len(<< >>)
  OBVIOUS
<1>2. ASSUME v.kind # "validator" PROVE Held(v) = << >>
  <2>1. PICK h : h = Held(v)
    OBVIOUS
  <2>2. 0 \in Nat /\ 0 = v.total
    OBVIOUS
  <2>3. h \in Seq(Cells) /\ Len(h) = 0
    BY <1>2, <2>1, <2>2, HeldIs
  <2>4. h = << >>
    BY <2>3
  <2> QED BY <2>1, <2>4
<1> QED BY <1>1, <1>2 DEF Wrote

\* Whether there is room depends on the task alone.
LEMMA SameRoom ==
  ASSUME NEW u, NEW v, SameTask(u, v)
  PROVE  Enough(u) <=> Enough(v)
  BY DEF SameTask, Enough, Room

----------------------------------------------------------------------------
(* The parts of the invariant after a step *)

\* The buffer stays where it is, or what is before ip is used up.
LEMMA ShownAhead ==
  ASSUME Reader, GivenOK, ShownOK, pc \in Buffering, pc' \in Buffering \ {"called", "length"},
         UNCHANGED <<pos, valid, region, limit, peeked, scratch, given>>,
         NEW i \in Nat, ip' = i, ip <= i, i <= limit
  PROVE  ShownOK' /\ Here' = Here + (i - ip)
<1>1. /\ ip \in Nat /\ limit \in Nat /\ ip <= limit /\ pos \in Nat /\ peeked \in Nat
      /\ limit - ip <= pos + peeked /\ (region = "scratch" => peeked = 0)
      /\ \A j \in ip .. limit - 1 : At(j) = given.bytes[Here + (j - ip) + 1]
  BY HereIs DEF ShownOK
<1>2. /\ pos' = pos /\ valid' = valid /\ region' = region /\ limit' = limit /\ peeked' = peeked
      /\ scratch' = scratch /\ given' = given
  OBVIOUS
<1>3. PICK h \in Nat, g \in {Here'} : h = Here /\ g = Here'
  BY HereIs
<1>4. g = h + (i - ip)
  <2>1. h = pos + peeked - (limit - ip) /\ g = pos + peeked - (limit - i)
    BY <1>2, <1>3 DEF Here
  <2> QED BY <1>1, <2>1
<1>5. ASSUME NEW j \in i .. limit - 1 PROVE At(j)' = given.bytes[g + (j - i) + 1]
  <2>1. j \in ip .. limit - 1 /\ g + (j - i) + 1 = h + (j - ip) + 1
    BY <1>1, <1>3, <1>4
  <2>2. At(j) = given.bytes[h + (j - ip) + 1]
    BY <1>1, <1>3, <2>1
  <2>3. At(j)' = At(j)
    BY <1>2 DEF At, Shown
  <2> QED BY <2>1, <2>2, <2>3
<1>6. (limit - i <= pos + peeked) /\ pc' # "stitch" /\ pc' \notin {"called", "length"}
  BY <1>1 DEF Buffering
<1>7. ShownOK'
  <2>1. (limit' - ip' <= pos' + peeked') /\ (region' = "scratch" => peeked' = 0)
    BY <1>1, <1>2, <1>6
  <2>2. \A j \in ip' .. limit' - 1 : At(j)' = given'.bytes[Here' + (j - ip') + 1]
    BY <1>2, <1>3, <1>5
  <2> QED BY <1>6, <2>1, <2>2 DEF ShownOK
<1> QED BY <1>3, <1>4, <1>7

\* A new region is shown, from pos on.
LEMMA ShownRegion ==
  ASSUME GivenOK, given' = given,
         NEW p \in Nat, NEW n \in Nat, pos' = p, peeked' = n, ip' = p, limit' = p + n,
         region' = "source", valid' = TRUE, pc' \in Buffering \ {"called", "length"}
  PROVE  ShownOK' /\ Here' = p
<1>1. PICK g : g = Here'
  OBVIOUS
<1>2. g = p + n - (p + n - p)
  BY <1>1 DEF Here
<1>3. g = p
  BY <1>2
<1>4. ASSUME NEW j \in p .. p + n - 1 PROVE At(j)' = given'.bytes[g + (j - p) + 1]
  <2>1. j < limit' /\ g + (j - p) + 1 = j + 1
    BY <1>3
  <2>2. Shown' = given'.bytes
    <3>1. Shown' = Shown
      BY DEF Shown
    <3> QED BY <3>1, ShownIs
  <2> QED BY <2>1, <2>2 DEF At
<1>5. (limit' - ip' <= pos' + peeked') /\ region' # "scratch"
  OBVIOUS
<1>6. pc' # "stitch" /\ pc' \notin {"called", "length"}
  BY DEF Buffering
<1>7. \A j \in ip' .. limit' - 1 : At(j)' = given'.bytes[Here' + (j - ip') + 1]
  BY <1>1, <1>4
<1>8. ShownOK'
  BY <1>5, <1>6, <1>7 DEF ShownOK
<1> QED BY <1>1, <1>3, <1>8

\* How the call stands while elements are read.
LEMMA StateGoesOn ==
  ASSUME StateOK, pc \notin {"called", "length", "done", "gone"},
         UNCHANGED <<status, result>>, NEW v, w' = v, v.limit = w.limit,
         pc' \notin {"called", "length", "gone"}, eof' => pc' = "done"
  PROVE  StateOK' /\ status = "read" /\ w.limit = result /\ eof = FALSE
<1>1. status = "read" /\ w.limit = result /\ ~eof
  BY DEF StateOK
<1>2. status' = "read" /\ w'.limit = result'
  BY <1>1
<1>3. StateOK'
  BY <1>2 DEF StateOK
<1> QED BY <1>1, <1>3

\* A call that has not ended.
LEMMA NotEnded ==
  ASSUME pc' # "done"
  PROVE  EndOK'
  BY DEF EndOK

\* After a step to the next element, the writer has put out what a reader has.
LEMMA AtNext ==
  ASSUME given' = given, pc' \in {"called", "length", "refill", "needed", "tag"},
         NEW h, Here' = h, NEW v, w' = v, Enough(v) => \E n : ReaderAt(n, h, v)
  PROVE  WrittenOK'
<1>1. ElementAt' = h
  BY DEF ElementAt
<1>2. ASSUME Enough(w)'
      PROVE  \E n \in 0 .. Len(given'.bytes) : ReaderAfter(n)'.at = ElementAt' /\ Wrote(w, ReaderAfter(n).out)'
  <2>1. Enough(v)
    BY <1>2 DEF Enough
  <2>2. PICK n : ReaderAt(n, h, v)
    BY <2>1
  <2>3. n \in 0 .. Len(given.bytes) /\ ReaderAfter(n).at = h /\ Wrote(v, ReaderAfter(n).out)
    BY <2>2 DEF ReaderAt
  <2>4. ReaderAfter(n)' = ReaderAfter(n)
    BY DEF ReaderAfter
  <2>5. Wrote(w, ReaderAfter(n).out)'
    BY <2>3, <2>4 DEF Wrote
  <2> QED BY <1>1, <2>3, <2>4, <2>5
<1>3. pc' # "literal" /\ pc' # "copying"
  OBVIOUS
<1> QED BY <1>2, <1>3 DEF WrittenOK

\* A call that ends: nothing is said of the buffer any more.
LEMMA EndsShown ==
  ASSUME pc' \in {"done", "gone"}
  PROVE  ShownOK' /\ WrittenOK'
<1>1. ShownOK'
  BY DEF ShownOK, Buffering
<1>2. WrittenOK'
  BY DEF WrittenOK
<1> QED BY <1>1, <1>2

\* A call that fails for a reason.
LEMMA EndsBadly ==
  ASSUME pc' = "done", eof' = FALSE, UNCHANGED <<given, result>>,
         NEW v, w' = v, Enough(v) => Contents = {}
  PROVE  ShownOK' /\ WrittenOK' /\ EndOK'
<1>1. ShownOK' /\ WrittenOK'
  BY EndsShown
<1>2. Enough(w)' => Enough(v)
  BY DEF Enough
<1>3. Contents' = Contents
  BY DEF Contents
<1>4. EndOK'
  BY <1>2, <1>3 DEF EndOK
<1> QED BY <1>1, <1>4

----------------------------------------------------------------------------
(* RefillTag *)

\* A new region is fetched, or the input ends at the end of an element.
LEMMA FetchDecodes ==
  ASSUME Now, Fetch, Steady
  PROVE  DecodesInv'
<1>1. /\ Reader /\ GivenOK /\ ShownOK /\ StateOK /\ WrittenOK
      /\ pc = "refill" /\ ip = limit /\ w' = w /\ given' = given /\ UNCHANGED <<status, result>>
  BY DEF Now, DecodesInv, Fetch, Steady, lengthVars
<1>2. /\ ip \in Nat /\ limit \in Nat /\ pos \in Nat /\ peeked \in Nat
      /\ Here \in Nat /\ Here + (limit - ip) = pos + peeked
      /\ given.bytes \in Seq(Byte) /\ Len(given.bytes) \in Nat /\ Here <= Len(given.bytes)
  BY <1>1, HereIs DEF Buffering
<1>3. PICK p \in Nat : p = pos + peeked /\ pos' = p /\ p = Here /\ p <= Len(given.bytes)
  BY <1>1, <1>2 DEF Fetch
<1>4. PICK n \in Peeks(p) :
        /\ peeked' = n
        /\ IF n = 0
             THEN eof' = TRUE /\ pc' = "done" /\ valid' = FALSE /\ UNCHANGED <<region, ip, limit>>
             ELSE /\ region' = "source" /\ valid' = TRUE
                  /\ ip' = p /\ limit' = p + n
                  /\ pc' = "needed" /\ UNCHANGED eof
  BY <1>3 DEF Fetch
<1>5. n \in Nat /\ (n = 0 => p >= Len(given.bytes))
  BY <1>2, <1>3, <1>4 DEF Peeks
<1>6. ~eof
  BY <1>1 DEF StateOK
<1>7. CASE n = 0
  <2>1. pc' = "done" /\ eof' = TRUE /\ peeked' = 0
    BY <1>4, <1>7
  <2>2. StateOK'
    BY <1>1, <2>1, StateGoesOn
  <2>3. ShownOK' /\ WrittenOK'
    BY <2>1, EndsShown
  <2>4. pos' = Len(given.bytes) /\ Here = Len(given.bytes)
    BY <1>2, <1>3, <1>5, <1>7
  <2>5. ASSUME Enough(w)'
        PROVE  \E m \in 0 .. Len(given'.bytes) :
                 ReaderAfter(m)'.at = Len(given'.bytes) /\ Wrote(w, ReaderAfter(m).out)'
    <3>1. Enough(w)
      BY <1>1, <2>5 DEF Enough
    <3>2. PICK m : ReaderAt(m, Here, w)
      BY <1>1, <3>1, ReaderBefore
    <3>3. ReaderAfter(m)' = ReaderAfter(m)
      BY <1>1 DEF ReaderAfter
    <3>4. Wrote(w, ReaderAfter(m).out)'
      BY <1>1, <3>2, <3>3 DEF Wrote, ReaderAt
    <3> QED BY <1>1, <2>4, <3>2, <3>3, <3>4 DEF ReaderAt
  <2>6. EndOK'
    BY <1>1, <2>1, <2>4, <2>5 DEF EndOK
  <2> QED BY <2>2, <2>3, <2>6 DEF DecodesInv
<1>8. CASE n # 0
  <2>1. /\ region' = "source" /\ valid' = TRUE /\ ip' = p /\ limit' = p + n
        /\ pc' = "needed" /\ eof' = eof /\ peeked' = n
    BY <1>4, <1>8
  <2>2. StateOK'
    BY <1>1, <1>6, <2>1, StateGoesOn
  <2>3. ShownOK' /\ Here' = p
    <3>1. pc' \in Buffering \ {"called", "length"}
      BY <2>1 DEF Buffering
    <3> QED BY <1>1, <1>3, <1>5, <2>1, <3>1, ShownRegion
  <2>4. WrittenOK'
    <3>1. Enough(w) => \E m : ReaderAt(m, p, w)
      BY <1>1, <1>3, ReaderBefore
    <3> QED BY <1>1, <2>1, <2>3, <3>1, AtNext
  <2>5. EndOK'
    BY <2>1, NotEnded
  <2> QED BY <2>2, <2>3, <2>4, <2>5 DEF DecodesInv
<1> QED BY <1>7, <1>8

\* Only the step changes.
LEMMA SameBufferDecodes ==
  ASSUME Now, NoFetch \/ UseBuffer, Steady
  PROVE  DecodesInv'
<1>1. /\ Reader /\ GivenOK /\ ShownOK /\ StateOK /\ WrittenOK
      /\ pc \in {"refill", "needed"} /\ pc' \in {"needed", "tag"} /\ w' = w /\ given' = given
      /\ UNCHANGED <<status, result, eof>>
      /\ UNCHANGED <<pos, valid, region, limit, peeked, scratch, given>> /\ ip' = ip
  BY DEF Now, DecodesInv, NoFetch, UseBuffer, Steady, lengthVars, source, tag
<1>2. pc \in Buffering /\ pc' \in Buffering \ {"called", "length"} /\ ~eof'
  BY <1>1 DEF Buffering, StateOK
<1>3. ip \in Nat /\ ip <= ip /\ ip <= limit /\ Here \in Nat /\ Here + (ip - ip) = Here
  BY <1>1, <1>2, HereIs
<1>4. ShownOK' /\ Here' = Here
  BY <1>1, <1>2, <1>3, ShownAhead
<1>5. StateOK'
  BY <1>1, <1>2, StateGoesOn
<1>6. WrittenOK'
  <2>1. Enough(w) => \E m : ReaderAt(m, Here, w)
    BY <1>1, ReaderBefore
  <2>2. PICK h : h = Here
    OBVIOUS
  <2> QED BY <1>1, <1>4, <2>1, <2>2, AtNext
<1>7. EndOK'
  BY <1>1, NotEnded
<1> QED BY <1>4, <1>5, <1>6, <1>7 DEF DecodesInv

\* What is in the buffer is moved to scratch.
LEMMA MovedIs ==
  ASSUME Reader, GivenOK, ShownOK, pc = "needed", MoveToScratch, limit - ip < 5
  PROVE  \A k \in 1 .. limit - ip : scratch'[k] = given.bytes[Here + k]
<1> SUFFICES ASSUME NEW k \in 1 .. limit - ip PROVE scratch'[k] = given.bytes[Here + k]
  OBVIOUS
<1>1. ip \in Nat /\ limit \in Nat /\ ip <= limit /\ Here \in Nat
  BY HereIs DEF Buffering
<1>2. k \in 1 .. 5 /\ k <= limit - ip
  BY <1>1
<1>3. scratch'[k] = At(ip + k - 1)
  BY <1>2 DEF MoveToScratch, kMaximumTagLength
<1>4. PICK j : j = ip + k - 1
  OBVIOUS
<1>5. PICK h \in Nat : h = Here
  BY <1>1
<1>6. j \in ip .. limit - 1 /\ h + (j - ip) + 1 = h + k
  BY <1>1, <1>2, <1>4
<1>7. At(j) = given.bytes[Here + (j - ip) + 1]
  BY <1>6 DEF ShownOK, Buffering
<1> QED BY <1>3, <1>4, <1>5, <1>6, <1>7

\* An element is put together in scratch: it starts where it started.
LEMMA StitchDecodes ==
  ASSUME Now, Stitch, Steady
  PROVE  DecodesInv'
<1>1. /\ Reader /\ GivenOK /\ ShownOK /\ StateOK /\ WrittenOK
      /\ pc = "needed" /\ pc' = "stitch" /\ limit - ip < Needed /\ MoveToScratch
      /\ nbuf' = limit - ip /\ w' = w /\ given' = given /\ UNCHANGED <<status, result, eof>>
  BY DEF Now, DecodesInv, Stitch, Steady, lengthVars
<1>2. /\ ip \in Nat /\ limit \in Nat /\ ip < limit /\ pos \in Nat /\ peeked \in Nat
      /\ Here \in Nat /\ Here + (limit - ip) = pos + peeked /\ Needed \in 1 .. 5
  BY <1>1, AtNeeded, HereIs DEF Buffering
<1>3. pos' = pos + peeked
  BY <1>1 DEF MoveToScratch
<1>4. PICK h \in Nat, m \in Nat, p \in Nat : h = Here /\ m = limit - ip /\ p = pos'
  BY <1>2, <1>3
<1>5. m < 5 /\ p - m = h /\ m <= p
  BY <1>1, <1>2, <1>3, <1>4
<1>6. ShownOK'
  <2>1. \A k \in 1 .. m : scratch'[k] = given.bytes[h + k]
    BY <1>1, <1>4, <1>5, MovedIs
  <2>2. pc' \notin Buffering
    BY <1>1 DEF Buffering
  <2>3. nbuf' <= pos' /\ \A k \in 1 .. nbuf' : scratch'[k] = given'.bytes[pos' - nbuf' + k]
    <3>1. nbuf' = m /\ pos' = p /\ given' = given
      BY <1>1, <1>4
    <3>2. \A k \in 1 .. m : scratch'[k] = given.bytes[(p - m) + k]
      BY <1>5, <2>1
    <3> QED BY <1>5, <3>1, <3>2
  <2> QED BY <1>1, <2>2, <2>3 DEF ShownOK
<1>7. ~eof /\ StateOK'
  <2>1. ~eof
    BY <1>1 DEF StateOK
  <2> QED BY <1>1, <2>1, StateGoesOn
<1>8. WrittenOK'
  <2>1. Enough(w) => \E n : ReaderAt(n, Here, w)
    BY <1>1, ReaderBefore
  <2>2. ElementAt' = h
    BY <1>1, <1>4, <1>5 DEF ElementAt
  <2>3. ASSUME Enough(w)'
        PROVE  \E n \in 0 .. Len(given'.bytes) :
                 ReaderAfter(n)'.at = ElementAt' /\ Wrote(w, ReaderAfter(n).out)'
    <3>1. Enough(w)
      BY <1>1, <2>3 DEF Enough
    <3>2. PICK n : ReaderAt(n, Here, w)
      BY <2>1, <3>1
    <3>3. ReaderAfter(n)' = ReaderAfter(n)
      BY <1>1 DEF ReaderAfter
    <3>4. Wrote(w, ReaderAfter(n).out)'
      BY <1>1, <3>2, <3>3 DEF Wrote, ReaderAt
    <3> QED BY <1>1, <1>4, <2>2, <3>2, <3>3, <3>4 DEF ReaderAt
  <2> QED BY <1>1, <2>3 DEF WrittenOK
<1>9. EndOK'
  BY <1>1, NotEnded
<1> QED BY <1>6, <1>7, <1>8, <1>9 DEF DecodesInv

\* An element is moved to scratch to be read there.
LEMMA KeepDecodes ==
  ASSUME Now, Keep, Steady
  PROVE  DecodesInv'
<1>1. /\ Reader /\ GivenOK /\ ShownOK /\ StateOK /\ WrittenOK
      /\ pc = "needed" /\ pc' = "tag" /\ limit - ip < 5 /\ MoveToScratch
      /\ region' = "scratch" /\ ip' = 0 /\ limit' = limit - ip
      /\ w' = w /\ given' = given /\ UNCHANGED <<status, result, eof>>
  BY DEF Now, DecodesInv, Keep, Steady, lengthVars, kMaximumTagLength
<1>2. /\ ip \in Nat /\ limit \in Nat /\ ip <= limit /\ pos \in Nat /\ peeked \in Nat
      /\ Here \in Nat /\ Here + (limit - ip) = pos + peeked
  BY <1>1, HereIs DEF Buffering
<1>3. pos' = pos + peeked /\ peeked' = 0
  BY <1>1 DEF MoveToScratch
<1>4. PICK h \in Nat, m \in Nat, p \in Nat : h = Here /\ m = limit - ip /\ p = pos'
  BY <1>2, <1>3
<1>5. p = h + m /\ limit' = m
  BY <1>1, <1>2, <1>3, <1>4
<1>6. Here' = h
  <2>1. Here' = p + 0 - (m - 0)
    BY <1>1, <1>3, <1>4, <1>5 DEF Here
  <2> QED BY <1>5, <2>1
<1>7. ShownOK'
  <2>1. \A k \in 1 .. m : scratch'[k] = given.bytes[h + k]
    BY <1>1, <1>4, MovedIs
  <2>2. ASSUME NEW j \in 0 .. m - 1 PROVE At(j)' = given.bytes[h + (j - 0) + 1]
    <3>1. j + 1 \in 1 .. m /\ h + (j + 1) = h + (j - 0) + 1
      OBVIOUS
    <3>2. At(j)' = scratch'[j + 1]
      BY <1>1 DEF At
    <3> QED BY <2>1, <3>1, <3>2
  <2>3. limit' - ip' <= pos' + peeked'
    <3>1. m - 0 <= p + 0
      BY <1>5
    <3> QED BY <1>1, <1>3, <1>4, <1>5, <3>1
  <2>4. \A j \in ip' .. limit' - 1 : At(j)' = given'.bytes[Here' + (j - ip') + 1]
    BY <1>1, <1>5, <1>6, <2>2
  <2>5. pc' # "stitch" /\ pc' \notin {"called", "length"}
    BY <1>1
  <2> QED BY <1>3, <2>3, <2>4, <2>5 DEF ShownOK
<1>8. ~eof /\ StateOK'
  <2>1. ~eof
    BY <1>1 DEF StateOK
  <2> QED BY <1>1, <2>1, StateGoesOn
<1>9. WrittenOK'
  <2>1. Enough(w) => \E n : ReaderAt(n, h, w)
    BY <1>1, <1>4, ReaderBefore
  <2> QED BY <1>1, <1>6, <2>1, AtNext
<1>10. EndOK'
  BY <1>1, NotEnded
<1> QED BY <1>7, <1>8, <1>9, <1>10 DEF DecodesInv

\* What is known of the element that is put together.
LEMMA AtStitched ==
  ASSUME Now, pc = "stitch"
  PROVE  /\ nbuf \in Nat /\ 1 <= nbuf /\ nbuf <= Wanted /\ Wanted \in 1 .. 5 /\ peeked = 0
         /\ pos \in Nat /\ nbuf <= pos /\ pos <= Len(given.bytes) /\ given.bytes \in Seq(Byte)
         /\ \A k \in 1 .. nbuf : scratch[k] = given.bytes[pos - nbuf + k]
         /\ Enough(w) => \E n : ReaderAt(n, pos - nbuf, w)
<1>1. Reader /\ GivenOK /\ ShownOK /\ WrittenOK
  BY DEF Now, DecodesInv
<1>2. nbuf \in 1 .. Wanted /\ Wanted \in 1 .. 5 /\ peeked = 0 /\ pos \in Nat
  BY <1>1, AtStitch
<1>3. /\ nbuf <= pos /\ \A k \in 1 .. nbuf : scratch[k] = given.bytes[pos - nbuf + k]
      /\ pos <= Len(given.bytes) /\ given.bytes \in Seq(Byte)
  BY <1>1 DEF ShownOK, Reader, SourceOK, GivenOK
<1>4. ElementAt = pos - nbuf
  BY DEF ElementAt
<1>5. ASSUME Enough(w) PROVE \E n : ReaderAt(n, pos - nbuf, w)
  <2>1. \E n \in 0 .. Len(given.bytes) : ReaderAfter(n).at = ElementAt /\ Wrote(w, ReaderAfter(n).out)
    BY <1>1, <1>5, Zenon DEF WrittenOK
  <2> QED BY <1>4, <2>1, Zenon DEF ReaderAt
<1> QED BY <1>2, <1>3, <1>5

\* More of it is put there.
LEMMA StitchMoreDecodes ==
  ASSUME Now, StitchMore, Steady
  PROVE  DecodesInv'
<1>1. /\ Reader /\ GivenOK /\ ShownOK /\ StateOK /\ WrittenOK
      /\ pc = "stitch" /\ pc' = "stitch" /\ nbuf < Wanted
      /\ w' = w /\ given' = given /\ UNCHANGED <<status, result, eof>>
  BY DEF Now, DecodesInv, StitchMore, Steady, lengthVars
<1>2. /\ nbuf \in Nat /\ 1 <= nbuf /\ nbuf <= Wanted /\ Wanted \in 1 .. 5
      /\ pos \in Nat /\ nbuf <= pos /\ given.bytes \in Seq(Byte)
      /\ \A k \in 1 .. nbuf : scratch[k] = given.bytes[pos - nbuf + k]
      /\ Enough(w) => \E n : ReaderAt(n, pos - nbuf, w)
  BY <1>1, AtStitched
<1>3. PICK add \in Nat :
        /\ nbuf + add <= 5
        /\ scratch' = [i \in 1 .. 5 |->
             IF i \in nbuf + 1 .. nbuf + add THEN given.bytes[pos + (i - nbuf)] ELSE scratch[i]]
        /\ nbuf' = nbuf + add /\ pos' = pos + add
  <2>1. PICK n \in Peeks(pos) \ {0} :
          /\ scratch' = [i \in 1 .. 5 |->
               IF i \in nbuf + 1 .. nbuf + SmallerOf(Wanted - nbuf, n)
                 THEN given.bytes[pos + (i - nbuf)] ELSE scratch[i]]
          /\ nbuf' = nbuf + SmallerOf(Wanted - nbuf, n) /\ pos' = pos + SmallerOf(Wanted - nbuf, n)
    BY <1>1, ShownIs DEF StitchMore, kMaximumTagLength
  <2>2. n \in Nat
    BY DEF Peeks
  <2>3. SmallerOf(Wanted - nbuf, n) \in Nat /\ nbuf + SmallerOf(Wanted - nbuf, n) <= 5
    BY <1>1, <1>2, <2>2 DEF SmallerOf
  <2> QED BY <2>1, <2>3
<1>4. PICK m \in Nat, p \in Nat : m = nbuf /\ p = pos
  BY <1>2
<1>5. pos' - nbuf' = p - m /\ nbuf' = m + add /\ pos' = p + add /\ m <= p /\ m + add <= 5
  BY <1>2, <1>3, <1>4
<1>6. ASSUME NEW k \in 1 .. m + add PROVE scratch'[k] = given.bytes[(p - m) + k]
  <2>1. k \in 1 .. 5
    BY <1>5
  <2>2. CASE k <= m
    <3>1. k \in 1 .. m /\ k \notin m + 1 .. m + add
      BY <2>2
    <3>2. scratch'[k] = scratch[k]
      BY <1>3, <1>4, <2>1, <3>1
    <3> QED BY <1>2, <1>4, <3>1, <3>2
  <2>3. CASE ~(k <= m)
    <3>1. k \in m + 1 .. m + add /\ p + (k - m) = (p - m) + k
      BY <1>5, <2>3
    <3>2. scratch'[k] = given.bytes[p + (k - m)]
      BY <1>3, <1>4, <2>1, <3>1
    <3> QED BY <3>1, <3>2
  <2> QED BY <2>2, <2>3
<1>7. ShownOK'
  <2>1. pc' \notin Buffering
    BY <1>1 DEF Buffering
  <2>2. nbuf' <= pos' /\ \A k \in 1 .. nbuf' : scratch'[k] = given'.bytes[pos' - nbuf' + k]
    BY <1>1, <1>5, <1>6
  <2> QED BY <1>1, <2>1, <2>2 DEF ShownOK
<1>8. ~eof /\ StateOK'
  <2>1. ~eof
    BY <1>1 DEF StateOK
  <2> QED BY <1>1, <2>1, StateGoesOn
<1>9. WrittenOK'
  <2>1. ElementAt' = p - m
    BY <1>1, <1>5 DEF ElementAt
  <2>2. ASSUME Enough(w)'
        PROVE  \E n \in 0 .. Len(given'.bytes) :
                 ReaderAfter(n)'.at = ElementAt' /\ Wrote(w, ReaderAfter(n).out)'
    <3>1. Enough(w)
      BY <1>1, <2>2 DEF Enough
    <3>2. PICK n : ReaderAt(n, p - m, w)
      BY <1>2, <1>4, <3>1
    <3>3. ReaderAfter(n)' = ReaderAfter(n)
      BY <1>1 DEF ReaderAfter
    <3>4. Wrote(w, ReaderAfter(n).out)'
      BY <1>1, <3>2, <3>3 DEF Wrote, ReaderAt
    <3> QED BY <1>1, <2>1, <3>2, <3>3, <3>4 DEF ReaderAt
  <2> QED BY <1>1, <2>2 DEF WrittenOK
<1>10. EndOK'
  BY <1>1, NotEnded
<1> QED BY <1>7, <1>8, <1>9, <1>10 DEF DecodesInv

\* The metadata of an element are all there: it is read in scratch.
LEMMA StitchDoneDecodes ==
  ASSUME Now, StitchDone, Steady
  PROVE  DecodesInv'
<1>1. /\ Reader /\ GivenOK /\ ShownOK /\ StateOK /\ WrittenOK
      /\ pc = "stitch" /\ pc' = "tag" /\ nbuf = Wanted
      /\ region' = "scratch" /\ ip' = 0 /\ limit' = Wanted
      /\ pos' = pos /\ peeked' = peeked /\ scratch' = scratch
      /\ w' = w /\ given' = given /\ UNCHANGED <<status, result, eof>>
  BY DEF Now, DecodesInv, StitchDone, Steady, lengthVars
<1>2. /\ nbuf \in Nat /\ 1 <= nbuf /\ peeked = 0 /\ pos \in Nat /\ nbuf <= pos
      /\ \A k \in 1 .. nbuf : scratch[k] = given.bytes[pos - nbuf + k]
      /\ Enough(w) => \E n : ReaderAt(n, pos - nbuf, w)
  BY <1>1, AtStitched
<1>3. PICK m \in Nat, p \in Nat : m = nbuf /\ p = pos
  BY <1>2
<1>4. PICK h \in Nat : h = p - m
  BY <1>2, <1>3
<1>5. limit' = m /\ pos' = p /\ peeked' = 0 /\ m <= p
  BY <1>1, <1>2, <1>3
<1>6. Here' = h
  <2>1. Here' = p + 0 - (m - 0)
    BY <1>1, <1>5 DEF Here
  <2> QED BY <1>4, <2>1
<1>7. ShownOK'
  <2>1. \A k \in 1 .. m : scratch'[k] = given.bytes[h + k]
    BY <1>1, <1>2, <1>3, <1>4
  <2>2. ASSUME NEW j \in 0 .. m - 1 PROVE At(j)' = given.bytes[h + (j - 0) + 1]
    <3>1. j + 1 \in 1 .. m /\ h + (j + 1) = h + (j - 0) + 1
      OBVIOUS
    <3>2. At(j)' = scratch'[j + 1]
      BY <1>1 DEF At
    <3> QED BY <2>1, <3>1, <3>2
  <2>3. limit' - ip' <= pos' + peeked'
    <3>1. m - 0 <= p + 0
      BY <1>5
    <3> QED BY <1>1, <1>5, <3>1
  <2>4. \A j \in ip' .. limit' - 1 : At(j)' = given'.bytes[Here' + (j - ip') + 1]
    BY <1>1, <1>5, <1>6, <2>2
  <2>5. pc' # "stitch" /\ pc' \notin {"called", "length"}
    BY <1>1
  <2> QED BY <1>5, <2>3, <2>4, <2>5 DEF ShownOK
<1>8. ~eof /\ StateOK'
  <2>1. ~eof
    BY <1>1 DEF StateOK
  <2> QED BY <1>1, <2>1, StateGoesOn
<1>9. WrittenOK'
  <2>1. Enough(w) => \E n : ReaderAt(n, h, w)
    BY <1>2, <1>3, <1>4
  <2> QED BY <1>1, <1>6, <2>1, AtNext
<1>10. EndOK'
  BY <1>1, NotEnded
<1> QED BY <1>7, <1>8, <1>9, <1>10 DEF DecodesInv

\* The input ends inside the metadata: the element is not there.
LEMMA StitchFailsDecodes ==
  ASSUME Now, LengthTypeOK, StitchFails, Steady
  PROVE  DecodesInv'
<1>1. /\ Reader /\ GivenOK /\ ShownOK /\ StateOK /\ WrittenOK
      /\ pc = "stitch" /\ pc' = "done" /\ nbuf < Wanted /\ 0 \in Peeks(pos)
      /\ w' = w /\ given' = given /\ UNCHANGED <<status, result, eof>>
  BY DEF Now, DecodesInv, StitchFails, Fail, Steady, lengthVars, source, tag
<1>2. /\ nbuf \in Nat /\ 1 <= nbuf /\ Wanted \in 1 .. 5 /\ pos \in Nat /\ nbuf <= pos
      /\ pos <= Len(given.bytes) /\ given.bytes \in Seq(Byte)
      /\ \A k \in 1 .. nbuf : scratch[k] = given.bytes[pos - nbuf + k]
      /\ Enough(w) => \E n : ReaderAt(n, pos - nbuf, w)
  BY <1>1, AtStitched
<1>3. PICK m \in Nat, p \in Nat, t \in Nat : m = nbuf /\ p = pos /\ t = Wanted
  BY <1>2
<1>4. PICK h \in Nat : h = p - m
  BY <1>2, <1>3
<1>5. p = Len(given.bytes) /\ m < t /\ h < Len(given.bytes) /\ h + t > Len(given.bytes)
  <2>1. p >= Len(given.bytes)
    BY <1>1, <1>2, <1>3 DEF Peeks
  <2> QED BY <1>1, <1>2, <1>3, <1>4, <2>1
<1>6. ASSUME Enough(w) PROVE Contents = {}
  <2>1. PICK n : ReaderAt(n, h, w)
    BY <1>2, <1>3, <1>4, <1>6
  <2>2. ReaderAfter(n).at = h
    BY <2>1 DEF ReaderAt
  <2>3. TagAt(given.bytes, ReaderAfter(n)) = scratch[1]
    <3>1. 1 \in 1 .. nbuf
      BY <1>2
    <3>2. scratch[1] = given.bytes[pos - nbuf + 1]
      BY <1>2, <3>1
    <3> QED BY <1>3, <1>4, <2>2, <3>2 DEF TagAt
  <2>4. scratch[1] \in Byte
    <3>1. 1 \in 1 .. nbuf
      BY <1>2
    <3> QED BY <1>1, <3>1, AtStitch
  <2>5. PICK c \in Byte : c = scratch[1]
    BY <2>4
  <2>6. EntryExtra(c) = Extra(c) /\ Extra(c) \in 0 .. 4
    BY EntryIs, TagParts
  <2>7. After(given.bytes, ReaderAfter(n)) = h + t
    BY <1>3, <2>2, <2>3, <2>5, <2>6 DEF After, Wanted
  <2>8. ~Good(given.bytes, ReaderAfter(n))
    <3>1. PICK l \in Nat : l = Len(given.bytes)
      BY <1>2
    <3>2. ~(h + t <= l)
      BY <1>5, <3>1
    <3> QED BY <2>7, <3>1, <3>2 DEF Good
  <2> QED BY <1>1, <1>5, <2>1, <2>8, NoContents
<1>7. eof = FALSE /\ StateOK'
  <2>1. eof = FALSE
    BY <1>1, AtStitch DEF StateOK, Reader, ReaderTypeOK
  <2> QED BY <1>1, <2>1, StateGoesOn
<1>8. ShownOK' /\ WrittenOK' /\ EndOK'
  BY <1>1, <1>6, <1>7, EndsBadly
<1> QED BY <1>7, <1>8 DEF DecodesInv

----------------------------------------------------------------------------
(* The length *)

\* Before the elements are read, nothing is buffered and nothing is written.
LEMMA EntryDecodes ==
  ASSUME DecodesInv, Reader, GivenOK, pc \in {"called", "length"}, pc' \in {"length", "refill"},
         UNCHANGED <<source, tag, given>>, NEW v, w' = v, Fits(v), v.total = 0,
         status' = "read" /\ pc' = "refill" => v.limit = result', pc' = "refill" => status' = "read"
  PROVE  DecodesInv'
<1>1. /\ ShownOK /\ StateOK /\ Here = 0 /\ pc \in Buffering
      /\ pos' = pos /\ valid' = valid /\ region' = region /\ ip' = ip /\ limit' = limit
      /\ peeked' = peeked /\ scratch' = scratch /\ eof' = eof /\ given' = given
  BY DEF DecodesInv, ShownOK, Buffering, source, tag
<1>2. Here' = 0
  BY <1>1 DEF Here
<1>3. ShownOK'
  <2>1. /\ limit - ip <= pos + peeked /\ (region = "scratch" => peeked = 0)
        /\ \A j \in ip .. limit - 1 : At(j) = given.bytes[Here + (j - ip) + 1]
    BY <1>1 DEF ShownOK
  <2>2. \A j : At(j)' = At(j)
    BY <1>1 DEF At, Shown
  <2>3. \A j \in ip' .. limit' - 1 : At(j)' = given'.bytes[Here' + (j - ip') + 1]
    BY <1>1, <1>2, <2>1, <2>2
  <2>4. pc' # "stitch" /\ (limit' - ip' <= pos' + peeked') /\ (region' = "scratch" => peeked' = 0)
    BY <1>1, <2>1
  <2> QED BY <1>2, <2>3, <2>4 DEF ShownOK
<1>4. StateOK'
  <2>1. ~eof'
    BY <1>1 DEF StateOK
  <2> QED BY <2>1 DEF StateOK
<1>5. WrittenOK'
  <2>1. ReaderAt(0, 0, v)
    <3>1. Readers(given.bytes)[0] = [at |-> 0, out |-> << >>] /\ 0 \in 0 .. Len(given.bytes)
      BY ReadersAre DEF GivenOK
    <3>2. Wrote(v, << >>)
      BY NothingWritten
    <3> QED BY <3>1, <3>2 DEF ReaderAt, ReaderAfter
  <2>2. Enough(v) => \E n : ReaderAt(n, 0, v)
    BY <2>1
  <2>3. pc' \in {"called", "length", "refill", "needed", "tag"}
    OBVIOUS
  <2> QED BY <1>1, <1>2, <2>2, <2>3, AtNext
<1>6. EndOK'
  BY NotEnded
<1> QED BY <1>3, <1>4, <1>5, <1>6 DEF DecodesInv

\* A writer is made.
LEMMA StartDecodes ==
  ASSUME DecompressInv, DecodesInv, Start, UNCHANGED given, DecompressInv'
  PROVE  DecodesInv'
<1>1. Reader /\ GivenOK
  BY InvParts
<1>2. pc = "called" /\ pc' = "length" /\ UNCHANGED <<source, tag, given>>
  BY DEF Start
<1>3. PICK v : w' = v
  OBVIOUS
<1>4. WriterOK'
  BY DEF DecompressInv
<1>5. Fits(v) /\ v.total = 0
  BY <1>2, <1>3, <1>4 DEF WriterOK, RoomOK, Fits
<1>6. DecodesInv /\ pc' \in {"length", "refill"} /\ pc \in {"called", "length"} /\ pc' # "refill"
  BY <1>2
<1> QED BY <1>1, <1>2, <1>3, <1>5, <1>6, EntryDecodes

\* A byte of the length is read.
LEMMA ReadLengthDecodes ==
  ASSUME DecompressInv, DecodesInv, ReadLength, UNCHANGED given
  PROVE  DecodesInv'
<1>1. Reader /\ GivenOK /\ WriterOK /\ Fits(w)
  BY InvParts, WriterFits
<1>2. pc = "length" /\ pc' = "length" /\ UNCHANGED <<source, tag, given>> /\ w' = w
  BY DEF ReadLength
<1>3. w.total = 0
  BY <1>1, <1>2 DEF WriterOK
<1>4. DecodesInv /\ pc' \in {"length", "refill"} /\ pc \in {"called", "length"} /\ pc' # "refill"
  BY <1>2
<1> QED BY <1>1, <1>2, <1>3, <1>4, EntryDecodes

\* There is none: no reader was ever wanted.
LEMMA NoLengthDecodes ==
  ASSUME DecompressInv, DecodesInv, NoLength, UNCHANGED given
  PROVE  DecodesInv'
<1>1. /\ pc = "length" /\ pc' = "done" /\ status' = "failed" /\ eof' = eof /\ StateOK
  BY DEF NoLength, FailLength, tag, DecodesInv
<1>2. ~eof'
  BY <1>1 DEF StateOK
<1>3. StateOK' /\ EndOK'
  <2>1. StateOK'
    BY <1>1, <1>2 DEF StateOK
  <2> QED BY <1>1, <2>1 DEF EndOK
<1>4. ShownOK' /\ WrittenOK'
  BY <1>1, EndsShown
<1> QED BY <1>3, <1>4 DEF DecodesInv

\* The writer is told the length.
LEMMA SetLengthDecodes ==
  ASSUME DecompressInv, DecodesInv, SetExpectedLength, UNCHANGED given, DecompressInv'
  PROVE  DecodesInv'
<1>1. Reader /\ GivenOK /\ WriterOK
  BY InvParts
<1>2. /\ pc = "length" /\ pc' = "refill" /\ UNCHANGED <<source, tag, given>>
      /\ w' = [w EXCEPT !.limit = result] /\ status = "read" /\ status' = status /\ result' = result
  BY DEF SetExpectedLength, lengthVars
<1>3. PICK v : v = w'
  OBVIOUS
<1>4. w.total = 0 /\ w \in Writer
  BY <1>1, <1>2 DEF WriterOK
<1>5. v.total = 0 /\ v.limit = result
  BY <1>2, <1>3, <1>4 DEF Writer
<1>6. WriterOK'
  BY DEF DecompressInv
<1>7. Fits(v)
  BY <1>3, <1>6 DEF WriterOK, RoomOK, Fits
<1>8. DecodesInv /\ pc' \in {"length", "refill"} /\ pc \in {"called", "length"} /\ status' = "read"
  BY <1>2
<1> QED BY <1>1, <1>2, <1>3, <1>5, <1>7, <1>8, EntryDecodes

\* The call is refused before anything is read, or answers.
LEMMA GoneDecodes ==
  ASSUME DecodesInv, Refuse \/ Answer, UNCHANGED given
  PROVE  DecodesInv'
<1>1. /\ pc' = "gone" /\ eof' = eof /\ status' = status /\ StateOK
      /\ w' = w /\ result' = result /\ (pc = "called" \/ pc = "done")
  BY DEF Refuse, Answer, tag, lengthVars, DecodesInv
<1>2. ShownOK' /\ WrittenOK' /\ EndOK'
  BY <1>1, EndsShown, NotEnded
<1>3. StateOK'
  BY <1>1 DEF StateOK
<1> QED BY <1>2, <1>3 DEF DecodesInv

\* A call that has just been made.
LEMMA InitDecodes ==
  ASSUME ExactSources, Init
  PROVE  DecodesInv
<1>1. DecompressInv
  BY InitDecompressInv
<1>2. Fits(w) /\ GivenOK /\ w.total = 0 /\ pc = "called"
  <2>1. WriterOK /\ GivenOK /\ Fits(w)
    BY <1>1, InvParts, WriterFits
  <2>2. pc = "called"
    BY DEF Init
  <2> QED BY <2>1, <2>2 DEF WriterOK
<1>3. /\ pos = 0 /\ ip = 0 /\ limit = 0 /\ peeked = 0 /\ eof = FALSE /\ status = "reading"
      /\ region = "none"
  BY DEF Init
<1>4. Here = 0
  BY <1>3 DEF Here
<1>5. ShownOK
  <2>1. ip .. limit - 1 = {}
    BY <1>3
  <2>2. limit - ip <= pos + peeked
    BY <1>3
  <2> QED BY <1>2, <1>3, <1>4, <2>1, <2>2 DEF ShownOK
<1>6. StateOK
  BY <1>2, <1>3 DEF StateOK
<1>7. WrittenOK
  <2>1. Readers(given.bytes)[0] = [at |-> 0, out |-> << >>] /\ 0 \in 0 .. Len(given.bytes)
    BY <1>2, ReadersAre DEF GivenOK
  <2>2. Wrote(w, << >>)
    BY <1>2, NothingWritten
  <2>3. ElementAt = 0
    BY <1>2, <1>4 DEF ElementAt
  <2>4. \E n \in 0 .. Len(given.bytes) : ReaderAfter(n).at = ElementAt /\ Wrote(w, ReaderAfter(n).out)
    BY <2>1, <2>2, <2>3 DEF ReaderAfter
  <2> QED BY <1>2, <2>4 DEF WrittenOK
<1>8. EndOK
  BY <1>2 DEF EndOK
<1> QED BY <1>5, <1>6, <1>7, <1>8 DEF DecodesInv

\* The answer of a call says what EndOK says.
LEMMA AnswerDecodes ==
  ASSUME DecompressInv, DecodesInv, Answer, UNCHANGED given
  PROVE  DecodesStream'
<1>1. /\ pc = "done" /\ StateOK /\ EndOK /\ w' = w /\ given' = given
      /\ status' = status /\ result' = result /\ pos' = pos + peeked
      /\ answer' = IF eof /\ CheckLength(w) THEN "ok" ELSE "invalid"
  BY DEF Answer, lengthVars, DecodesInv
<1>2. Fits(w) /\ GivenOK /\ given.bytes \in Seq(Byte)
  BY InvParts, WriterFits DEF GivenOK
<1>3. Contents' = Contents /\ Held(w)' = Held(w) /\ Room(w)' = Room(w)
  BY <1>1 DEF Contents
<1>4. CASE status # "read"
  <2>1. ~eof
    BY <1>4, <1>1 DEF StateOK
  <2>2. answer' = "invalid"
    BY <1>1, <2>1
  <2> QED BY <1>1, <1>4, <2>2 DEF DecodesStream
<1>5. CASE status = "read" /\ Enough(w)
  <2>1. w.limit = result
    BY <1>1, <1>5 DEF StateOK
  <2>2. CASE ~eof
    <3>1. Contents = {} /\ answer' = "invalid"
      BY <1>1, <1>5, <2>2 DEF EndOK
    <3> QED BY <1>3, <3>1 DEF DecodesStream
  <2>3. CASE eof
    <3>1. PICK n \in 0 .. Len(given.bytes) :
            ReaderAfter(n).at = Len(given.bytes) /\ Wrote(w, ReaderAfter(n).out)
      BY <1>1, <1>5, <2>3 DEF EndOK
    <3>2. Decodings(given.bytes) = {ReaderAfter(n).out}
      BY <1>2, <3>1, LastElement DEF ReaderAfter
    <3>3. Contents # {} <=> w.total = result
      BY <3>1, <3>2 DEF Contents, Wrote
    <3>4. answer' = "ok" <=> w.total = result
      BY <1>1, <2>1, <2>3 DEF CheckLength
    <3>5. w.kind = "iovec" => Room(w) >= result
      BY <1>5, <2>1 DEF Enough
    <3>6. pos' = Len(given.bytes)
      <4>1. pos = Len(given.bytes) /\ peeked = 0
        BY <1>1, <1>5, <2>3 DEF EndOK
      <4> QED BY <1>1, <1>2, <4>1
    <3>7. w.total = result /\ w.kind # "validator" => Held(w) \in Contents
      BY <3>1, <3>2 DEF Contents, Wrote
    <3> QED BY <1>1, <1>3, <1>5, <3>3, <3>4, <3>5, <3>6, <3>7 DEF DecodesStream
  <2> QED BY <2>2, <2>3
<1>6. CASE status = "read" /\ ~Enough(w)
  <2>1. w.limit = result
    BY <1>1, <1>6 DEF StateOK
  <2>2. w.kind = "iovec" /\ ~(Room(w) >= w.limit)
    BY <1>6 DEF Enough
  <2>3. w.total <= Room(w) /\ w.total \in Nat /\ w.limit \in Nat /\ Room(w) \in Nat
    <3>1. w.kind # "validator"
      BY <2>2
    <3>2. PICK r : r = Room(w)
      OBVIOUS
    <3>3. r = Starts(w.lens)[Len(w.lens)] + w.lens[Len(w.lens)]
      BY <3>2 DEF Room
    <3>4. w.total \in Nat /\ w.limit \in Nat
      BY <1>2, <3>1, PlaceTotal
    <3>5. /\ Starts(w.lens)[Len(w.lens)] \in Nat /\ w.lens[Len(w.lens)] \in Nat
          /\ w.total <= Starts(w.lens)[Len(w.lens)] + w.lens[Len(w.lens)]
      BY <1>2, <3>1, WrittenFits
    <3> QED BY <3>2, <3>3, <3>4, <3>5
  <2>4. w.total # w.limit
    BY <2>2, <2>3
  <2>5. answer' = "invalid"
    BY <1>1, <2>4 DEF CheckLength
  <2> QED BY <1>1, <1>3, <2>1, <2>2, <2>5 DEF DecodesStream
<1> QED BY <1>4, <1>5, <1>6

----------------------------------------------------------------------------
(* Literals *)

\* A part of a part.
LEMMA PartOfPart ==
  ASSUME NEW s \in Seq(Byte), NEW p \in Nat, NEW m \in Nat, NEW n \in Nat, n <= m, p + m <= Len(s),
         NEW t, t = SubSeq(s, p + 1, p + m)
  PROVE  SubSeq(t, 1, n) = SubSeq(s, p + 1, p + n)
<1>1. PICK z \in Nat, y \in Nat, a \in Nat, x \in Nat :
        z = p + m /\ y = p + n /\ a = 0 /\ x = n
  OBVIOUS
<1>2. p <= z /\ z <= Len(s) /\ z - p = m /\ p <= y /\ y <= Len(s) /\ y - p = n /\ t = SubSeq(s, p + 1, z)
  BY <1>1
<1>3. t \in Seq(Byte) /\ Len(t) = z - p /\ \A i \in 1 .. z - p : t[i] = s[p + i]
  BY <1>1, <1>2, PartIs
<1>4. PICK u : u = SubSeq(t, a + 1, x)
  OBVIOUS
<1>5. PICK v : v = SubSeq(s, p + 1, y)
  OBVIOUS
<1>6. a <= x /\ x <= Len(t) /\ x - a = n
  BY <1>1, <1>2, <1>3
<1>7. u \in Seq(Byte) /\ Len(u) = x - a /\ \A i \in 1 .. x - a : u[i] = t[a + i]
  BY <1>1, <1>3, <1>4, <1>6, PartIs
<1>8. v \in Seq(Byte) /\ Len(v) = y - p /\ \A i \in 1 .. y - p : v[i] = s[p + i]
  BY <1>1, <1>2, <1>5, PartIs
<1>9. ASSUME NEW i \in 1 .. n PROVE u[i] = v[i]
  <2>1. a + i = i /\ i \in 1 .. x - a /\ i \in 1 .. z - p /\ i \in 1 .. y - p
    BY <1>1, <1>2, <1>6
  <2> QED BY <1>3, <1>7, <1>8, <2>1
<1>10. u = v
  <2>1. Len(u) = n /\ Len(v) = n
    BY <1>2, <1>6, <1>7, <1>8
  <2> QED BY <1>7, <1>8, <1>9, <2>1, SameSequence
<1>11. u = SubSeq(t, 1, n)
  <2>1. a + 1 = 1
    BY <1>1
  <2> QED BY <1>1, <1>4, <2>1
<1> QED BY <1>1, <1>5, <1>10, <1>11

\* A sequence is the join of what it starts with and what it ends with.
LEMMA JoinsTo ==
  ASSUME NEW C, NEW x \in Seq(C), NEW y \in Seq(C), NEW z \in Seq(C), Len(z) = Len(x) + Len(y),
         \A i \in 1 .. Len(x) : z[i] = x[i], \A i \in 1 .. Len(y) : z[Len(x) + i] = y[i]
  PROVE  z = x \o y
<1>1. Len(x) \in Nat /\ Len(y) \in Nat
  OBVIOUS
<1> QED BY <1>1, JoinedIs, ZenonT(30)

\* Two parts that follow one another.
LEMMA PartsFollow ==
  ASSUME NEW s \in Seq(Byte), NEW a \in Nat, NEW b \in Nat, NEW c \in Nat,
         a <= b, b <= c, c <= Len(s)
  PROVE  SubSeq(s, a + 1, c) = SubSeq(s, a + 1, b) \o SubSeq(s, b + 1, c)
<1>1. PICK x, y, z : x = SubSeq(s, a + 1, b) /\ y = SubSeq(s, b + 1, c) /\ z = SubSeq(s, a + 1, c)
  OBVIOUS
<1>2. x \in Seq(Byte) /\ Len(x) = b - a /\ \A i \in 1 .. b - a : x[i] = s[a + i]
  BY <1>1, PartIs
<1>3. y \in Seq(Byte) /\ Len(y) = c - b /\ \A i \in 1 .. c - b : y[i] = s[b + i]
  BY <1>1, PartIs
<1>4. z \in Seq(Byte) /\ Len(z) = c - a /\ \A i \in 1 .. c - a : z[i] = s[a + i]
  <2>1. a <= c
    OBVIOUS
  <2> QED BY <1>1, <2>1, PartIs, SMTT(30)
<1>5. z = x \o y
  <2>1. PICK m \in Nat, n \in Nat : m = b - a /\ n = c - b
    OBVIOUS
  <2>2. m = Len(x) /\ n = Len(y) /\ Len(z) = m + n
    BY <1>2, <1>3, <1>4, <2>1
  <2>3. ASSUME NEW i \in 1 .. m PROVE z[i] = x[i]
    <3>1. i \in 1 .. b - a /\ i \in 1 .. c - a
      BY <2>1
    <3> QED BY <1>2, <1>4, <3>1
  <2>4. ASSUME NEW i \in 1 .. n PROVE z[m + i] = y[i]
    <3>1. i \in 1 .. c - b /\ m + i \in 1 .. c - a /\ a + (m + i) = b + i
      BY <2>1
    <3> QED BY <1>3, <1>4, <3>1
  <2>5. /\ x \in Seq(Byte) /\ y \in Seq(Byte) /\ z \in Seq(Byte) /\ Len(z) = Len(x) + Len(y)
        /\ (\A i \in 1 .. Len(x) : z[i] = x[i]) /\ \A i \in 1 .. Len(y) : z[Len(x) + i] = y[i]
    BY <1>2, <1>3, <1>4, <2>1, <2>2, <2>3, <2>4
  <2> QED BY <2>5, JoinsTo
<1> QED BY <1>1, <1>5

\* What is joined step by step is joined.
LEMMA JoinOn ==
  ASSUME NEW C, NEW u \in Seq(C), NEW x \in Seq(C), NEW y \in Seq(C),
         NEW z, z = x \o y, NEW t, t = u \o x
  PROVE  t \o y = u \o z
  BY ConcatAssociative

\* Of the literal after n elements all but l bytes, those before h, are put out.
MidLiteral(n, h, v, l) ==
  LET s == given.bytes
      r == ReaderAfter(n)
  IN  /\ n \in 0 .. Len(s) /\ r.at < Len(s) /\ IsLiteral(s, r)
      /\ After(s, r) <= h /\ h + l = After(s, r) + LengthAt(s, r)
      /\ Wrote(v, r.out \o SubSeq(s, After(s, r) + 1, h))

\* Inside a literal, that is what is known.
LEMMA AtLiteralPart ==
  ASSUME Now, Enough(w), pc = "literal"
  PROVE  \E n : MidLiteral(n, Here, w, literal)
<1>1. \E n \in 0 .. Len(given.bytes) : InLiteral(given.bytes, ReaderAfter(n))
  BY Zenon DEF Now, DecodesInv, WrittenOK
<1> QED BY <1>1 DEF InLiteral, MidLiteral

\* The numbers in it.
LEMMA MidLiteralIs ==
  ASSUME GivenOK, NEW n, NEW h \in Nat, h <= Len(given.bytes), NEW v, NEW l \in Nat, MidLiteral(n, h, v, l)
  PROVE  /\ n \in 0 .. Len(given.bytes) /\ given.bytes \in Seq(Byte)
         /\ ReaderAfter(n).at < Len(given.bytes) /\ ReaderAfter(n).at \in Nat
         /\ ReaderAfter(n).out \in Seq(Byte)
         /\ After(given.bytes, ReaderAfter(n)) \in Nat
         /\ After(given.bytes, ReaderAfter(n)) <= h
         /\ LengthAt(given.bytes, ReaderAfter(n)) \in Nat
         /\ h + l = After(given.bytes, ReaderAfter(n)) + LengthAt(given.bytes, ReaderAfter(n))
<1>1. /\ n \in 0 .. Len(given.bytes) /\ given.bytes \in Seq(Byte)
      /\ ReaderAfter(n).at < Len(given.bytes)
      /\ After(given.bytes, ReaderAfter(n)) <= h
      /\ h + l = After(given.bytes, ReaderAfter(n)) + LengthAt(given.bytes, ReaderAfter(n))
  BY DEF MidLiteral, GivenOK
<1>2. ReaderAfter(n).at \in Nat /\ ReaderAfter(n).out \in Seq(Byte)
  BY <1>1, ReadersTyped DEF ReaderAfter, Typed
<1>3. PICK r : r = ReaderAfter(n)
  OBVIOUS
<1>4. /\ After(given.bytes, r) \in Nat
      /\ After(given.bytes, r) <= Len(given.bytes) => LengthAt(given.bytes, r) \in Nat
  BY <1>1, <1>2, <1>3, PartsAreNumbers
<1>5. After(given.bytes, r) <= Len(given.bytes)
  BY <1>1, <1>3, <1>4
<1> QED BY <1>1, <1>2, <1>3, <1>4, <1>5

\* k bytes more of the literal are put out.
LEMMA LiteralGrows ==
  ASSUME GivenOK, NEW n, NEW h \in Nat, NEW v, NEW l \in Nat, MidLiteral(n, h, v, l),
         NEW k \in Nat, k <= l, h + k <= Len(given.bytes), Fits(v), Enough(v),
         NEW s \in Seq(Cells), s = SubSeq(given.bytes, h + 1, h + k)
  PROVE  /\ AppendBytes(v, s).ok <=> v.total + k <= v.limit
         /\ AppendBytes(v, s).ok => MidLiteral(n, h + k, AppendBytes(v, s).w, l - k)
         /\ v.total + l = Len(ReaderAfter(n).out) + LengthAt(given.bytes, ReaderAfter(n))
         /\ v.total \in Nat
<1>1. PICK b, r : b = given.bytes /\ r = ReaderAfter(n)
  OBVIOUS
<1>2. PICK a : a = After(b, r)
  OBVIOUS
<1>3. PICK y : y = LengthAt(b, r)
  OBVIOUS
<1>4. b \in Seq(Byte) /\ Len(b) \in Nat /\ h <= Len(b) /\ h + k <= Len(b)
  <2>1. b \in Seq(Byte) /\ h + k <= Len(b)
    BY <1>1 DEF GivenOK
  <2> QED BY <2>1
<1>5. n \in 0 .. Len(b) /\ r.out \in Seq(Byte) /\ a \in Nat /\ a <= h /\ y \in Nat /\ h + l = a + y
  <2>1. h <= Len(given.bytes)
    BY <1>1, <1>4
  <2>2. /\ n \in 0 .. Len(given.bytes) /\ ReaderAfter(n).out \in Seq(Byte)
        /\ After(given.bytes, ReaderAfter(n)) \in Nat
        /\ After(given.bytes, ReaderAfter(n)) <= h
        /\ LengthAt(given.bytes, ReaderAfter(n)) \in Nat
        /\ h + l = After(given.bytes, ReaderAfter(n)) + LengthAt(given.bytes, ReaderAfter(n))
    BY <2>1, MidLiteralIs
  <2> QED BY <1>1, <1>2, <1>3, <2>2, Zenon
<1>6. PICK t : t = r.out \o SubSeq(b, a + 1, h)
  OBVIOUS
<1>7. Wrote(v, t)
  BY <1>1, <1>2, <1>6, Zenon DEF MidLiteral
<1>8. t \in Seq(Byte) /\ Len(t) = Len(r.out) + (h - a)
  <2>1. PICK o : o = r.out
    OBVIOUS
  <2>2. o \in Seq(Byte) /\ a \in Nat /\ a <= h /\ h <= Len(b) /\ b \in Seq(Byte)
    BY <1>4, <1>5, <2>1
  <2>3. o \o SubSeq(b, a + 1, h) \in Seq(Byte) /\ Len(o \o SubSeq(b, a + 1, h)) = Len(o) + (h - a)
    BY <2>2, JoinPart
  <2> QED BY <1>6, <2>1, <2>3, Zenon
<1>9. Len(s) = k
  <2>1. PICK z \in Nat : z = h + k
    OBVIOUS
  <2>2. h <= z /\ z <= Len(b) /\ z - h = k /\ s = SubSeq(b, h + 1, z)
    BY <1>1, <1>4, <2>1
  <2>3. Len(s) = z - h
    BY <1>4, <2>1, <2>2, PartIs
  <2> QED BY <2>2, <2>3
<1>10. Byte \subseteq Cells
  BY DEF Cells
<1>11. /\ AppendBytes(v, s).ok <=> v.total + Len(s) <= v.limit
       /\ AppendBytes(v, s).ok => Wrote(AppendBytes(v, s).w, t \o s)
  BY <1>7, <1>8, <1>10, AppendWrites
<1>12. v.total = Len(r.out) + (h - a) /\ Len(r.out) \in Nat
  BY <1>5, <1>7, <1>8 DEF Wrote
<1>13. v.total + l = Len(r.out) + y /\ v.total \in Nat
  <2>1. PICK o \in Nat : o = Len(r.out)
    BY <1>12
  <2>2. v.total = o + (h - a)
    BY <1>12, <2>1
  <2>3. o + (h - a) + l = o + y /\ o + (h - a) \in Nat
    BY <1>5
  <2> QED BY <2>1, <2>2, <2>3
<1>14. t \o s = r.out \o SubSeq(b, a + 1, h + k)
  <2>1. PICK z \in Nat : z = h + k /\ h <= z /\ z <= Len(b)
    BY <1>4
  <2>2. PICK o, x, y2, z2 :
          o = r.out /\ x = SubSeq(b, a + 1, h) /\ y2 = SubSeq(b, h + 1, z) /\ z2 = SubSeq(b, a + 1, z)
    OBVIOUS
  <2>3. /\ o \in Seq(Byte) /\ a \in Nat /\ a <= h /\ b \in Seq(Byte)
        /\ z \in Nat /\ h <= z /\ z <= Len(b) /\ h <= Len(b)
    BY <1>4, <1>5, <2>1, <2>2
  <2>4. t = o \o x /\ s = y2
    BY <1>1, <1>6, <2>1, <2>2, Zenon
  <2>5. SubSeq(b, a + 1, z) = SubSeq(b, a + 1, h) \o SubSeq(b, h + 1, z)
    BY <2>3, PartsFollow, SMTT(30)
  <2>6. z2 = x \o y2
    BY <2>2, <2>5, Zenon
  <2>7. x \in Seq(Byte)
    BY <2>2, <2>3, PartIs
  <2>8. y2 \in Seq(Byte)
    BY <2>2, <2>3, PartIs
  <2>9. t \o y2 = o \o z2
    BY <2>3, <2>4, <2>6, <2>7, <2>8, JoinOn, SMTT(30)
  <2> QED BY <2>1, <2>2, <2>4, <2>9, Zenon
<1>15. ASSUME AppendBytes(v, s).ok PROVE MidLiteral(n, h + k, AppendBytes(v, s).w, l - k)
  <2>1. a <= h + k /\ (h + k) + (l - k) = a + y
    BY <1>5
  <2>2. Wrote(AppendBytes(v, s).w, r.out \o SubSeq(b, a + 1, h + k))
    BY <1>11, <1>14, <1>15
  <2>3. n \in 0 .. Len(b) /\ r.at < Len(b) /\ IsLiteral(b, r)
    BY <1>1 DEF MidLiteral
  <2> QED BY <1>1, <1>2, <1>3, <2>1, <2>2, <2>3, Zenon DEF MidLiteral
<1>16. AppendBytes(v, s).ok <=> v.total + k <= v.limit
  BY <1>9, <1>11
<1> QED BY <1>1, <1>3, <1>13, <1>15, <1>16

\* All of it is put out: the writer has what the next reader has.
LEMMA LiteralDone ==
  ASSUME GivenOK, NEW n, NEW h \in Nat, h <= Len(given.bytes), NEW v, MidLiteral(n, h, v, 0)
  PROVE  ReaderAt(n + 1, h, v)
<1>1. PICK b, r : b = given.bytes /\ r = ReaderAfter(n)
  OBVIOUS
<1>2. /\ n \in 0 .. Len(b) /\ b \in Seq(Byte) /\ r.at < Len(b) /\ r.at \in Nat /\ r.out \in Seq(Byte)
      /\ After(b, r) \in Nat /\ After(b, r) <= h /\ LengthAt(b, r) \in Nat
      /\ h + 0 = After(b, r) + LengthAt(b, r)
  <2>1. 0 \in Nat
    OBVIOUS
  <2> QED BY <1>1, <2>1, MidLiteralIs
<1>3. IsLiteral(b, r) /\ Wrote(v, r.out \o SubSeq(b, After(b, r) + 1, h))
  BY <1>1 DEF MidLiteral
<1>4. After(b, r) + LengthAt(b, r) = h /\ After(b, r) <= Len(b) /\ h <= Len(b)
  BY <1>1, <1>2
<1>5. Good(b, r)
  BY <1>3, <1>4 DEF Good
<1>6. ReadNext(b, r) = [at |-> h, out |-> r.out \o SubSeq(b, After(b, r) + 1, h)]
  BY <1>3, <1>4 DEF ReadNext
<1>7. /\ n + 1 \in 0 .. Len(b)
      /\ Readers(b)[n + 1] = IF Good(b, Readers(b)[n]) THEN ReadNext(b, Readers(b)[n]) ELSE Stuck(b)
  BY <1>1, <1>2, ReaderNext DEF ReaderAfter
<1>8. ReaderAfter(n + 1) = ReadNext(b, r)
  BY <1>1, <1>5, <1>7, Zenon DEF ReaderAfter
<1>9. PICK q : q = ReaderAfter(n + 1)
  OBVIOUS
<1>10. q.at = h /\ q.out = r.out \o SubSeq(b, After(b, r) + 1, h)
  <2>1. PICK o : o = r.out \o SubSeq(b, After(b, r) + 1, h)
    OBVIOUS
  <2>2. q = [at |-> h, out |-> o]
    BY <1>6, <1>8, <1>9, <2>1, Zenon
  <2> QED BY <2>1, <2>2
<1> QED BY <1>1, <1>3, <1>7, <1>9, <1>10, Zenon DEF ReaderAt

\* After a step inside a literal, that is what is known.
LEMMA InLiteralNext ==
  ASSUME given' = given, pc' = "literal", NEW h, Here' = h, NEW v, w' = v, NEW l, literal' = l,
         Enough(v) => \E n : MidLiteral(n, h, v, l)
  PROVE  WrittenOK'
<1>1. ASSUME Enough(w)'
      PROVE  \E n \in 0 .. Len(given'.bytes) : InLiteral(given.bytes, ReaderAfter(n))'
  <2>1. Enough(v)
    BY <1>1 DEF Enough
  <2>2. PICK n : MidLiteral(n, h, v, l)
    BY <2>1
  <2>3. PICK r : r = ReaderAfter(n)
    OBVIOUS
  <2>4. ReaderAfter(n)' = r
    BY <2>3 DEF ReaderAfter
  <2>5. /\ n \in 0 .. Len(given.bytes) /\ r.at < Len(given.bytes) /\ IsLiteral(given.bytes, r)
        /\ After(given.bytes, r) <= h /\ h + l = After(given.bytes, r) + LengthAt(given.bytes, r)
        /\ Wrote(v, r.out \o SubSeq(given.bytes, After(given.bytes, r) + 1, h))
    BY <2>2, <2>3, Zenon DEF MidLiteral
  <2>6. InLiteral(given.bytes, ReaderAfter(n))'
    BY <2>4, <2>5, Zenon DEF InLiteral, Wrote
  <2> QED BY <2>5, <2>6, Zenon
<1>2. pc' \notin {"called", "length", "refill", "needed", "stitch", "tag"} /\ pc' # "copying"
  OBVIOUS
<1> QED BY <1>1, <1>2, Zenon DEF WrittenOK

\* A short literal is taken at once: the bytes of it that are written are those of the stream.
LEMMA FastLiteralWrites ==
  ASSUME Reader, GivenOK, ShownOK, Fits(w), FastLiteral, NEW n, ReaderAt(n, Here, w)
  PROVE  ReaderAt(n + 1, Here + 1 + ShortLength, w')
<1>1. /\ pc = "tag" /\ Kind(Tag) = LITERAL
      /\ FastAccepts(w, limit - (ip + 1), ShortLength)
      /\ w' = FastAppend(w, Bytes(ip + 1, 16), ShortLength)
  BY DEF FastLiteral
<1>2. PICK b, r, h : b = given.bytes /\ r = ReaderAfter(n) /\ h = Here
  OBVIOUS
<1>3. /\ b \in Seq(Byte) /\ n \in 0 .. Len(b) /\ r.at = h /\ h \in Nat
      /\ r.out \in Seq(Byte) /\ Wrote(w, r.out)
  BY <1>2, ReaderIs
<1>4. /\ ip \in Nat /\ limit \in Nat /\ h + (limit - ip) <= Len(b) /\ Len(b) \in Nat
  BY <1>1, <1>2, HereIs DEF Buffering
<1>5. ShortLength \in 1 .. 64
  BY <1>1, AtLiteral
<1>6. PICK k \in Nat, i \in Nat, p \in Nat, z \in Nat :
        k = ShortLength /\ i = ip + 1 /\ p = h + 1 /\ z = p + k
  BY <1>3, <1>4, <1>5
<1>7. k <= 16 /\ i + 16 <= limit /\ k \in 1 .. 64 /\ w.kind # "validator"
  BY <1>1, <1>4, <1>5, <1>6 DEF FastAccepts, kMaximumTagLength
<1>8. PICK t : t = Bytes(i, 16)
  OBVIOUS
<1>9. p + 16 <= Len(b) /\ t = SubSeq(b, p + 1, p + 16) /\ t \in Seq(Cells) /\ Len(t) = 16
  <2>1. ip <= i /\ p = h + (i - ip) /\ 16 \in Nat
    BY <1>4, <1>6
  <2>2. pc \in Buffering
    BY <1>1 DEF Buffering
  <2>3. PICK m \in Nat : m = 16
    OBVIOUS
  <2>4. i \in Nat /\ p \in Nat /\ ip <= i /\ i + m <= limit /\ p = Here + (i - ip)
    BY <1>2, <1>6, <1>7, <2>1, <2>3
  <2>5. /\ p + m <= Len(given.bytes) /\ Bytes(i, m) = SubSeq(given.bytes, p + 1, p + m)
        /\ Bytes(i, m) \in Seq(Cells) /\ Len(Bytes(i, m)) = m
    BY <2>2, <2>3, <2>4, BytesShown, Zenon
  <2> QED BY <1>2, <1>8, <2>3, <2>5
<1>10. SubSeq(t, 1, k) = SubSeq(b, p + 1, z)
  <2>1. PICK m \in Nat : m = 16
    OBVIOUS
  <2>2. k <= m /\ p + m <= Len(b) /\ t = SubSeq(b, p + 1, p + m)
    BY <1>7, <1>9, <2>1
  <2>3. SubSeq(t, 1, k) = SubSeq(b, p + 1, p + k)
    BY <1>3, <2>2, PartOfPart
  <2> QED BY <1>6, <2>3
<1>11. PICK a \in Int : a = limit - (ip + 1)
  BY <1>4
<1>12. PICK u : u = FastAppend(w, t, k)
  OBVIOUS
<1>13. w' = u
  BY <1>1, <1>6, <1>8, <1>12, Zenon
<1>14. Held(u) = Held(w) \o SubSeq(t, 1, k) /\ u.total = w.total + k
  <2>1. FastAccepts(w, a, k)
    BY <1>1, <1>6, <1>11, Zenon
  <2> QED BY <1>9, <1>12, <2>1, FastAppendHeld
<1>15. /\ IsLiteral(b, r) /\ Trailing = EntryExtra(Tag)
       /\ LengthAt(b, r) = IF Trailing = 0 THEN ShortLength ELSE LongLength(Bytes(ip + 1, Trailing))
       /\ After(b, r) = h + 1 + Trailing
  BY <1>1, <1>2, <1>3, LiteralShown
<1>16. Trailing = 0
  BY <1>6, <1>7 DEF Trailing
<1>17. LengthAt(b, r) = k /\ After(b, r) = p /\ After(b, r) + LengthAt(b, r) = z
  <2>1. LengthAt(b, r) = k /\ After(b, r) = p
    BY <1>3, <1>6, <1>15, <1>16
  <2> QED BY <1>6, <2>1
<1>18. Good(b, r) /\ h < Len(b)
  <2>1. p <= Len(b) /\ z <= Len(b) /\ h < Len(b)
    BY <1>3, <1>4, <1>6, <1>7, <1>9
  <2> QED BY <1>15, <1>17, <2>1 DEF Good
<1>19. PICK q : q = ReadNext(b, r)
  OBVIOUS
<1>20. q.at = z /\ q.out = r.out \o SubSeq(b, p + 1, z)
  <2>1. PICK o : o = r.out \o SubSeq(b, p + 1, z)
    OBVIOUS
  <2>2. q = [at |-> z, out |-> o]
    BY <1>15, <1>17, <1>19, <2>1, Zenon DEF ReadNext
  <2> QED BY <2>1, <2>2
<1>21. Wrote(u, q.out)
  <2>1. Held(w) = r.out /\ w.total = Len(r.out)
    BY <1>3, <1>7 DEF Wrote
  <2>2. Held(u) = q.out
    BY <1>10, <1>14, <1>20, <2>1, Zenon
  <2>3. u.total = Len(q.out)
    <3>1. PICK o : o = r.out
      OBVIOUS
    <3>2. p <= z /\ z <= Len(b) /\ z - p = k /\ o \in Seq(Byte)
      BY <1>3, <1>6, <1>7, <1>9, <3>1
    <3>3. Len(o \o SubSeq(b, p + 1, z)) = Len(o) + (z - p)
      BY <1>3, <3>2, JoinPart
    <3> QED BY <1>14, <1>20, <2>1, <3>1, <3>2, <3>3, Zenon
  <2> QED BY <2>2, <2>3 DEF Wrote
<1>22. ReaderAt(n + 1, z, u)
  BY <1>2, <1>18, <1>19, <1>20, <1>21, NextReader
<1>23. z = Here + 1 + ShortLength
  BY <1>2, <1>3, <1>6
<1> QED BY <1>13, <1>22, <1>23, Zenon

\* A short literal is taken at once.
LEMMA FastLiteralDecodes ==
  ASSUME Now, FastLiteral, Steady
  PROVE  DecodesInv'
<1>1. /\ Reader /\ GivenOK /\ ShownOK /\ StateOK /\ WrittenOK /\ Fits(w)
      /\ pc = "tag" /\ pc' = "tag" /\ Kind(Tag) = LITERAL /\ given' = given
      /\ FastAccepts(w, limit - (ip + 1), ShortLength)
      /\ w' = FastAppend(w, Bytes(ip + 1, 16), ShortLength) /\ ip' = ip + 1 + ShortLength
      /\ UNCHANGED <<status, result>> /\ eof' = eof
      /\ UNCHANGED <<pos, valid, region, limit, peeked, scratch, given>>
  BY DEF Now, DecodesInv, FastLiteral, Steady, lengthVars, tag
<1>2. pc \in Buffering /\ pc' \in Buffering \ {"called", "length"} /\ ~eof'
  BY <1>1 DEF Buffering, StateOK
<1>3. ip \in Nat /\ limit \in Nat /\ ip <= limit /\ Here \in Nat /\ ShortLength \in 1 .. 64
  BY <1>1, <1>2, HereIs, AtLiteral
<1>4. PICK i \in Nat, k \in Nat, h \in Nat, j \in Nat :
        i = ip + 1 /\ k = ShortLength /\ h = Here /\ j = ip + 1 + k
  BY <1>3
<1>5. k <= 16 /\ i + 16 <= limit /\ ip <= i /\ ip <= j /\ j <= limit /\ ip' = j
      /\ h + (j - ip) = h + 1 + k
  BY <1>1, <1>3, <1>4 DEF FastAccepts, kMaximumTagLength
<1>6. ShownOK' /\ Here' = h + 1 + k
  BY <1>1, <1>2, <1>4, <1>5, ShownAhead
<1>7. PICK u : u = FastAppend(w, Bytes(i, 16), k)
  OBVIOUS
<1>8. w' = u
  BY <1>1, <1>4, <1>7
<1>9. Fits(u) /\ SameTask(u, w)
  <2>1. PICK a \in Int : a = limit - (ip + 1)
    BY <1>3
  <2>2. PICK t : t = Bytes(i, 16)
    OBVIOUS
  <2>3. t \in Seq(Cells) /\ Len(t) = 16
    <3>1. PICK p \in Nat, m \in Nat : p = Here + (i - ip) /\ m = 16
      BY <1>3, <1>4, <1>5
    <3> QED BY <1>1, <1>2, <1>5, <2>2, <3>1, BytesShown
  <2>4. FastAccepts(w, a, k)
    BY <1>1, <1>4, <2>1, Zenon
  <2> QED BY <1>1, <1>7, <2>2, <2>3, <2>4, FastAppendFits
<1>10. StateOK'
  <2>1. u.limit = w.limit
    BY <1>9 DEF SameTask
  <2> QED BY <1>1, <1>2, <1>8, <2>1, StateGoesOn
<1>11. WrittenOK'
  <2>1. ASSUME Enough(u) PROVE \E n : ReaderAt(n, h + 1 + k, u)
    <3>1. Enough(w)
      BY <1>9, <2>1, SameRoom
    <3>2. PICK n : ReaderAt(n, Here, w)
      BY <1>1, <3>1, ReaderBefore
    <3>3. ReaderAt(n + 1, Here + 1 + ShortLength, w')
      BY <1>1, <3>2, FastLiteralWrites
    <3> QED BY <1>4, <1>8, <3>3, Zenon
  <2>2. PICK e : e = h + 1 + k
    OBVIOUS
  <2> QED BY <1>1, <1>6, <1>8, <2>1, <2>2, AtNext
<1>12. EndOK'
  BY <1>1, NotEnded
<1> QED BY <1>6, <1>10, <1>11, <1>12 DEF DecodesInv

\* The length of a literal is read: none of its bytes is put out yet.
LEMMA SlowLiteralDecodes ==
  ASSUME Now, SlowLiteral, Steady
  PROVE  DecodesInv'
<1>1. /\ Reader /\ GivenOK /\ ShownOK /\ StateOK /\ WrittenOK
      /\ pc = "tag" /\ pc' = "literal" /\ Kind(Tag) = LITERAL /\ given' = given /\ w' = w
      /\ literal' = IF Trailing = 0 THEN ShortLength ELSE LongLength(Bytes(ip + 1, Trailing))
      /\ ip' = ip + 1 + Trailing
      /\ UNCHANGED <<status, result>> /\ eof' = eof
      /\ UNCHANGED <<pos, valid, region, limit, peeked, scratch, given>>
  BY DEF Now, DecodesInv, SlowLiteral, Steady, lengthVars
<1>2. pc \in Buffering /\ pc' \in Buffering \ {"called", "length"} /\ ~eof'
  BY <1>1 DEF Buffering, StateOK
<1>3. ip \in Nat /\ limit \in Nat /\ ip <= limit /\ Here \in Nat /\ Here <= Len(given.bytes)
  BY <1>1, <1>2, HereIs
<1>4. Trailing = EntryExtra(Tag) /\ EntryExtra(Tag) \in 0 .. 4 /\ ip + 1 + EntryExtra(Tag) <= limit
  BY <1>1, AtTag, AtLiteral
<1>5. PICK t \in Nat, h \in Nat, i \in Nat, z \in Nat :
        t = Trailing /\ h = Here /\ i = ip + 1 + t /\ z = h + 1 + t
  BY <1>3, <1>4
<1>6. ip <= i /\ i <= limit /\ ip' = i /\ h + (i - ip) = z
  BY <1>1, <1>3, <1>4, <1>5
<1>7. ShownOK' /\ Here' = z
  BY <1>1, <1>2, <1>5, <1>6, ShownAhead
<1>8. StateOK'
  BY <1>1, <1>2, StateGoesOn
<1>9. WrittenOK'
  <2>1. PICK l : l = literal'
    OBVIOUS
  <2>2. ASSUME Enough(w) PROVE \E n : MidLiteral(n, z, w, l)
    <3>1. PICK n : ReaderAt(n, Here, w)
      BY <1>1, <2>2, ReaderBefore
    <3>2. PICK b, r : b = given.bytes /\ r = ReaderAfter(n)
      OBVIOUS
    <3>3. n \in 0 .. Len(b) /\ r.at = h /\ r.out \in Seq(Byte) /\ Wrote(w, r.out) /\ b \in Seq(Byte)
      BY <1>1, <1>5, <3>1, <3>2, ReaderIs
    <3>4. /\ IsLiteral(b, r) /\ LengthAt(b, r) = l /\ After(b, r) = z
      <4>1. /\ IsLiteral(given.bytes, r)
            /\ LengthAt(given.bytes, r)
                 = IF Trailing = 0 THEN ShortLength ELSE LongLength(Bytes(ip + 1, Trailing))
            /\ After(given.bytes, r) = Here + 1 + Trailing
        BY <1>1, <1>5, <3>3, LiteralShown
      <4> QED BY <1>1, <1>5, <2>1, <3>2, <4>1, Zenon
    <3>5. r.at < Len(b)
      BY <1>1, <1>5, <3>2, <3>3, TagShown
    <3>6. r.out \o SubSeq(b, z + 1, z) = r.out
      <4>1. PICK o : o = r.out
        OBVIOUS
      <4>2. o \in Seq(Byte) /\ SubSeq(b, z + 1, z) = << >>
        BY <1>5, <3>3, <4>1
      <4>3. o \o << >> = o
        BY <4>2
      <4> QED BY <4>1, <4>2, <4>3, Zenon
    <3>7. z <= z /\ z + l = z + l
      BY <1>5
    <3> QED BY <3>2, <3>3, <3>4, <3>5, <3>6, <3>7, Zenon DEF MidLiteral
  <2> QED BY <1>1, <1>7, <2>1, <2>2, InLiteralNext
<1>10. EndOK'
  BY <1>1, NotEnded
<1> QED BY <1>7, <1>8, <1>9, <1>10 DEF DecodesInv

\* A literal that does not end before the stream does, or is too long for the length read.
LEMMA LiteralBad ==
  ASSUME GivenOK, LengthTypeOK, NEW n, NEW h \in Nat, h <= Len(given.bytes), NEW v, NEW l \in Nat,
         MidLiteral(n, h, v, l), h + l > Len(given.bytes) \/ v.total + l > result
  PROVE  Contents = {}
<1>1. PICK b, r : b = given.bytes /\ r = ReaderAfter(n)
  OBVIOUS
<1>2. PICK a, y : a = After(b, r) /\ y = LengthAt(b, r)
  OBVIOUS
<1>3. /\ n \in 0 .. Len(b) /\ b \in Seq(Byte) /\ r.at < Len(b) /\ r.out \in Seq(Byte)
      /\ a \in Nat /\ a <= h /\ y \in Nat /\ h + l = a + y /\ h <= Len(b) /\ Len(b) \in Nat
  <2>1. /\ n \in 0 .. Len(given.bytes) /\ given.bytes \in Seq(Byte)
        /\ ReaderAfter(n).at < Len(given.bytes) /\ ReaderAfter(n).out \in Seq(Byte)
        /\ After(given.bytes, ReaderAfter(n)) \in Nat
        /\ After(given.bytes, ReaderAfter(n)) <= h
        /\ LengthAt(given.bytes, ReaderAfter(n)) \in Nat
        /\ h + l = After(given.bytes, ReaderAfter(n)) + LengthAt(given.bytes, ReaderAfter(n))
    BY MidLiteralIs
  <2>2. Len(given.bytes) \in Nat
    BY <2>1
  <2> QED BY <1>1, <1>2, <2>1, <2>2, Zenon
<1>4. IsLiteral(b, r) /\ Wrote(v, r.out \o SubSeq(b, a + 1, h))
  BY <1>1, <1>2, Zenon DEF MidLiteral
<1>5. v.total = Len(r.out) + (h - a) /\ Len(r.out) \in Nat
  <2>1. PICK o : o = r.out
    OBVIOUS
  <2>2. o \in Seq(Byte) /\ a \in Nat /\ a <= h /\ h <= Len(b) /\ b \in Seq(Byte)
    BY <1>3, <2>1
  <2>3. Len(o \o SubSeq(b, a + 1, h)) = Len(o) + (h - a)
    BY <2>2, JoinPart
  <2>4. Len(o) \in Nat
    BY <2>2
  <2> QED BY <1>4, <2>1, <2>3, <2>4, Zenon DEF Wrote
<1>6. v.total + l = Len(r.out) + y
  <2>1. PICK o \in Nat : o = Len(r.out)
    BY <1>5
  <2>2. v.total = o + (h - a)
    BY <1>5, <2>1
  <2>3. o + (h - a) + l = o + y
    BY <1>3
  <2> QED BY <2>1, <2>2, <2>3
<1>7. Good(b, r) => Len(r.out) + LengthAt(b, r) > result
  <2>1. ASSUME Good(b, r) PROVE a + y <= Len(b)
    BY <1>2, <1>4, <2>1 DEF Good
  <2>2. ASSUME Good(b, r) PROVE ~(h + l > Len(b))
    <3>1. PICK e \in Nat, x \in Nat : e = Len(b) /\ x = h + l
      BY <1>3
    <3>2. x <= e
      BY <1>3, <2>1, <2>2, <3>1
    <3> QED BY <3>1, <3>2
  <2>3. ASSUME Good(b, r) PROVE v.total + l > result
    BY <1>1, <2>2, <2>3
  <2> QED BY <1>2, <1>6, <2>3
<1>8. result \in Nat
  <2>1. result \in 0 .. Word - 1
    BY DEF LengthTypeOK
  <2> QED BY <2>1
<1>9. {d \in Decodings(b) : Len(d) = result} = {}
  <2>1. Readers(b)[n] = r
    BY <1>1 DEF ReaderAfter
  <2>2. /\ Readers(b)[n].at < Len(b)
        /\ Good(b, Readers(b)[n]) => Len(Readers(b)[n].out) + LengthAt(b, Readers(b)[n]) > result
    BY <1>3, <1>7, <2>1, Zenon
  <2> QED BY <1>3, <1>8, <2>2, TooLong
<1> QED BY <1>1, <1>9, Zenon DEF Contents

\* The numbers at a literal.
LEMMA AtLiteralIs ==
  ASSUME Reader, GivenOK, ShownOK, pc = "literal"
  PROVE  /\ ip \in Nat /\ limit \in Nat /\ ip <= limit /\ literal \in Nat
         /\ pos \in Nat /\ peeked \in Nat
         /\ Here \in Nat /\ Here + (limit - ip) = pos + peeked
         /\ given.bytes \in Seq(Byte) /\ Len(given.bytes) \in Nat
         /\ Here + (limit - ip) <= Len(given.bytes) /\ Here <= Len(given.bytes)
<1>1. literal \in Nat
  <2>1. Huge \in Nat
    BY SMT DEF Huge
  <2>2. literal \in 0 .. Huge
    BY DEF Reader, ReaderTypeOK
  <2> QED BY <2>1, <2>2
<1>2. pc \in Buffering
  BY DEF Buffering
<1> QED BY <1>1, <1>2, HereIs

\* k bytes of the literal are appended.
LEMMA LiteralAppends ==
  ASSUME Now, pc = "literal", NEW k \in Nat, k <= literal, ip + k <= limit,
         NEW a, a = AppendBytes(w, Bytes(ip, k)), NEW h, h = Here, NEW l, l = literal
  PROVE  /\ Fits(a.w) /\ SameTask(a.w, w)
         /\ Enough(w) => \E n : /\ MidLiteral(n, h, w, l)
                                /\ IF a.ok THEN MidLiteral(n, h + k, a.w, l - k)
                                           ELSE w.total + l > w.limit
<1>1. Reader /\ GivenOK /\ ShownOK /\ Fits(w) /\ pc \in Buffering
  BY DEF Now, DecodesInv, Buffering
<1>2. /\ ip \in Nat /\ limit \in Nat /\ h \in Nat /\ l \in Nat /\ k <= l
      /\ h + (limit - ip) <= Len(given.bytes) /\ Len(given.bytes) \in Nat
  BY <1>1, AtLiteralIs
<1>3. PICK s : s = Bytes(ip, k)
  OBVIOUS
<1>4. h + k <= Len(given.bytes) /\ s = SubSeq(given.bytes, h + 1, h + k) /\ s \in Seq(Cells)
  <2>1. ip <= ip /\ h = Here + (ip - ip)
    BY <1>2
  <2> QED BY <1>1, <1>2, <1>3, <2>1, BytesShown
<1>5. a = AppendBytes(w, s)
  BY <1>3
<1>6. Fits(a.w) /\ SameTask(a.w, w)
  BY <1>1, <1>4, <1>5, AppendFits
<1>7. ASSUME Enough(w)
      PROVE  \E n : /\ MidLiteral(n, h, w, l)
                    /\ IF a.ok THEN MidLiteral(n, h + k, a.w, l - k) ELSE w.total + l > w.limit
  <2>1. PICK n : MidLiteral(n, h, w, l)
    BY <1>7, AtLiteralPart
  <2>2. /\ w.total + k <= w.limit => AppendBytes(w, s).ok
        /\ AppendBytes(w, s).ok => MidLiteral(n, h + k, AppendBytes(w, s).w, l - k)
        /\ w.total \in Nat
    <3>1. /\ GivenOK /\ h \in Nat /\ l \in Nat /\ MidLiteral(n, h, w, l) /\ k \in Nat /\ k <= l
          /\ h + k <= Len(given.bytes) /\ Fits(w) /\ Enough(w) /\ s \in Seq(Cells)
          /\ s = SubSeq(given.bytes, h + 1, h + k)
      BY <1>1, <1>2, <1>4, <1>7, <2>1
    <3> QED BY <3>1, LiteralGrows, Zenon
  <2>3. ASSUME ~a.ok PROVE w.total + l > w.limit
    <3>1. w.limit \in Nat
      BY <1>1 DEF Fits, Writer
    <3>2. PICK t \in Nat, m \in Nat : t = w.total /\ m = w.limit
      BY <2>2, <3>1
    <3>3. ~(t + k <= m)
      BY <1>5, <2>2, <2>3, <3>2
    <3>4. t + l > m
      BY <1>2, <3>3
    <3> QED BY <3>2, <3>4
  <2> QED BY <1>5, <2>1, <2>2, <2>3, Zenon
<1> QED BY <1>6, <1>7

\* The rest of a literal is in the buffer.
LEMMA LiteralEndDecodes ==
  ASSUME Now, LiteralEnd, Steady
  PROVE  DecodesInv'
<1>1. /\ Reader /\ GivenOK /\ ShownOK /\ StateOK /\ WrittenOK
      /\ pc = "literal" /\ limit - ip >= literal /\ given' = given
      /\ Continue(ip + literal)
      /\ UNCHANGED <<status, result>> /\ eof' = eof
      /\ UNCHANGED <<pos, valid, region, limit, peeked, scratch, given>>
  BY DEF Now, DecodesInv, LiteralEnd, Steady, lengthVars, tag
<1>2. pc \in Buffering /\ ~eof' /\ pc' \in {"refill", "tag"}
      /\ pc' \in Buffering \ {"called", "length"}
  <2>1. pc' \in {"refill", "tag"}
    BY <1>1 DEF Continue
  <2> QED BY <1>1, <2>1 DEF Buffering, StateOK
<1>3. /\ ip \in Nat /\ limit \in Nat /\ ip <= limit /\ literal \in Nat /\ Here \in Nat
      /\ Here + (limit - ip) <= Len(given.bytes) /\ Len(given.bytes) \in Nat
  BY <1>1, AtLiteralIs
<1>4. PICK l \in Nat, h \in Nat, i \in Nat, z \in Nat :
        l = literal /\ h = Here /\ i = ip + l /\ z = h + l
  BY <1>3
<1>5. /\ l <= literal /\ ip + l <= limit /\ ip <= i /\ i <= limit /\ h + (i - ip) = z
      /\ z <= Len(given.bytes) /\ ip' = i
  <2>1. ip' = i
    BY <1>1, <1>4 DEF Continue
  <2> QED BY <1>1, <1>3, <1>4, <2>1
<1>6. ShownOK' /\ Here' = z
  BY <1>1, <1>2, <1>4, <1>5, ShownAhead
<1>7. PICK a : a = AppendBytes(w, Bytes(ip, l))
  OBVIOUS
<1>8. a.ok /\ w' = a.w
  BY <1>4, <1>7, Zenon DEF LiteralEnd
<1>9. /\ SameTask(a.w, w)
      /\ Enough(w) => \E n : /\ MidLiteral(n, h, w, l)
                             /\ IF a.ok THEN MidLiteral(n, h + l, a.w, l - l)
                                        ELSE w.total + l > w.limit
  BY <1>1, <1>4, <1>5, <1>7, LiteralAppends
<1>10. StateOK'
  <2>1. PICK u : u = a.w
    OBVIOUS
  <2>2. w' = u /\ u.limit = w.limit
    BY <1>8, <1>9, <2>1 DEF SameTask
  <2>3. pc \notin {"called", "length", "done", "gone"} /\ pc' \notin {"called", "length", "gone"}
    BY <1>1, <1>2
  <2> QED BY <1>1, <1>2, <2>2, <2>3, StateGoesOn
<1>11. WrittenOK'
  <2>1. PICK u : u = a.w
    OBVIOUS
  <2>2. ASSUME Enough(u) PROVE \E n : ReaderAt(n, z, u)
    <3>1. Enough(w)
      BY <1>9, <2>1, <2>2, SameRoom
    <3>2. PICK n : MidLiteral(n, h + l, a.w, l - l)
      BY <1>8, <1>9, <3>1, Zenon
    <3>3. l - l = 0
      BY <1>4
    <3>4. MidLiteral(n, z, u, 0)
      BY <1>4, <2>1, <3>2, <3>3, Zenon
    <3>5. ReaderAt(n + 1, z, u)
      BY <1>1, <1>4, <1>5, <3>4, LiteralDone
    <3> QED BY <3>5, Zenon
  <2>3. w' = u /\ pc' \in {"called", "length", "refill", "needed", "tag"}
    BY <1>2, <1>8, <2>1
  <2> QED BY <1>1, <1>6, <2>2, <2>3, AtNext
<1>12. EndOK'
  BY <1>2, NotEnded
<1> QED BY <1>6, <1>10, <1>11, <1>12 DEF DecodesInv

\* Append returns false: the stream is longer than was announced.
LEMMA LiteralFailsDecodes ==
  ASSUME Now, LengthTypeOK, LiteralFails, Steady
  PROVE  DecodesInv'
<1>1. /\ Reader /\ GivenOK /\ ShownOK /\ StateOK /\ WrittenOK
      /\ pc = "literal" /\ pc' = "done" /\ given' = given /\ UNCHANGED <<status, result, eof>>
  BY DEF Now, DecodesInv, LiteralFails, Fail, Steady, lengthVars, tag
<1>2. /\ ip \in Nat /\ limit \in Nat /\ ip <= limit /\ literal \in Nat /\ Here \in Nat
      /\ Here <= Len(given.bytes)
  BY <1>1, AtLiteralIs
<1>3. PICK l \in Nat, h \in Nat, m \in Nat : l = literal /\ h = Here /\ m = limit - ip
  BY <1>2
<1>4. PICK k \in Nat : k = SmallerOf(m, l) /\ k <= literal /\ ip + k <= limit
  <2>1. SmallerOf(m, l) \in Nat /\ SmallerOf(m, l) <= m /\ SmallerOf(m, l) <= l
    BY DEF SmallerOf
  <2>2. PICK k \in Nat : k = SmallerOf(m, l)
    BY <2>1
  <2> QED BY <1>2, <1>3, <2>1, <2>2
<1>5. PICK a : a = AppendBytes(w, Bytes(ip, k))
  OBVIOUS
<1>6. ~a.ok /\ w' = a.w
  BY <1>3, <1>4, <1>5, Zenon DEF LiteralFails
<1>7. /\ SameTask(a.w, w)
      /\ Enough(w) => \E n : /\ MidLiteral(n, h, w, l)
                             /\ IF a.ok THEN MidLiteral(n, h + k, a.w, l - k)
                                        ELSE w.total + l > w.limit
  BY <1>1, <1>3, <1>4, <1>5, LiteralAppends
<1>8. PICK u : u = a.w
  OBVIOUS
<1>9. w' = u /\ u.limit = w.limit
  BY <1>6, <1>7, <1>8 DEF SameTask
<1>10. StateOK' /\ w.limit = result /\ eof = FALSE
  <2>1. pc \notin {"called", "length", "done", "gone"} /\ pc' \notin {"called", "length", "gone"}
    BY <1>1
  <2> QED BY <1>1, <1>9, <2>1, StateGoesOn
<1>11. ASSUME Enough(u) PROVE Contents = {}
  <2>1. Enough(w)
    BY <1>7, <1>8, <1>11, SameRoom
  <2>2. PICK n : MidLiteral(n, h, w, l) /\ w.total + l > w.limit
    BY <1>6, <1>7, <2>1, Zenon
  <2>3. w.total + l > result
    BY <1>10, <2>2
  <2> QED BY <1>1, <1>2, <1>3, <2>2, <2>3, LiteralBad
<1>12. ShownOK' /\ WrittenOK' /\ EndOK'
  <2>1. eof' = FALSE
    BY <1>1, <1>10
  <2> QED BY <1>1, <1>9, <1>11, <2>1, EndsBadly
<1> QED BY <1>10, <1>12 DEF DecodesInv

\* All that is buffered is put out; the literal goes on in the next region, if there is one.
LEMMA LiteralPartDecodes ==
  ASSUME Now, LengthTypeOK, LiteralPart, Steady
  PROVE  DecodesInv'
<1>1. /\ Reader /\ GivenOK /\ ShownOK /\ StateOK /\ WrittenOK
      /\ pc = "literal" /\ limit - ip < literal /\ given' = given
      /\ literal' = literal - (limit - ip) /\ pos' = pos + peeked /\ region' = "source"
      /\ UNCHANGED <<status, result>> /\ eof' = eof
  BY DEF Now, DecodesInv, LiteralPart, Steady, lengthVars
<1>2. /\ ip \in Nat /\ limit \in Nat /\ ip <= limit /\ literal \in Nat /\ Here \in Nat
      /\ pos \in Nat /\ peeked \in Nat
      /\ Here + (limit - ip) = pos + peeked
      /\ Here + (limit - ip) <= Len(given.bytes) /\ Here <= Len(given.bytes)
      /\ Len(given.bytes) \in Nat
  BY <1>1, AtLiteralIs
<1>3. PICK l \in Nat, h \in Nat, m \in Nat, p \in Nat :
        l = literal /\ h = Here /\ m = limit - ip /\ p = h + m
  BY <1>2
<1>4. m <= literal /\ ip + m <= limit /\ pos' = p /\ p <= Len(given.bytes) /\ m < l
      /\ literal' = l - m /\ l - m \in Nat /\ p = pos + peeked
  BY <1>1, <1>2, <1>3
<1>5. PICK a : a = AppendBytes(w, Bytes(ip, m))
  OBVIOUS
<1>6. a.ok /\ w' = a.w
  BY <1>3, <1>5, Zenon DEF LiteralPart
<1>7. /\ SameTask(a.w, w)
      /\ Enough(w) => \E n : /\ MidLiteral(n, h, w, l)
                             /\ IF a.ok THEN MidLiteral(n, h + m, a.w, l - m)
                                        ELSE w.total + l > w.limit
  BY <1>1, <1>3, <1>4, <1>5, LiteralAppends
<1>8. PICK u : u = a.w
  OBVIOUS
<1>9. w' = u /\ u.limit = w.limit /\ (Enough(u) => Enough(w))
  BY <1>6, <1>7, <1>8, SameRoom DEF SameTask
<1>10. PICK n \in Peeks(p) :
        /\ peeked' = n /\ valid' = (n > 0)
        /\ IF n = 0 THEN pc' = "done" /\ UNCHANGED <<ip, limit>>
                    ELSE ip' = p /\ limit' = p + n /\ UNCHANGED pc
  BY <1>4 DEF LiteralPart
<1>11. n \in Nat /\ (n = 0 => p >= Len(given.bytes))
  BY <1>2, <1>10 DEF Peeks
<1>12. pc' \in {"literal", "done"}
  BY <1>1, <1>10
<1>13. StateOK' /\ w.limit = result /\ eof = FALSE
  <2>1. /\ pc \notin {"called", "length", "done", "gone"} /\ pc' \notin {"called", "length", "gone"}
        /\ ~eof'
    BY <1>1, <1>12 DEF StateOK
  <2> QED BY <1>1, <1>9, <2>1, StateGoesOn
<1>14. CASE n = 0
  <2>1. pc' = "done" /\ p >= Len(given.bytes)
    BY <1>10, <1>11, <1>14
  <2>2. ASSUME Enough(u) PROVE Contents = {}
    <3>1. PICK k : MidLiteral(k, h, w, l)
      BY <1>7, <1>9, <2>2, Zenon
    <3>2. h + l > Len(given.bytes) /\ h <= Len(given.bytes)
      BY <1>2, <1>3, <1>4, <2>1
    <3> QED BY <1>1, <3>1, <3>2, LiteralBad
  <2>3. ShownOK' /\ WrittenOK' /\ EndOK'
    <3>1. eof' = FALSE
      BY <1>1, <1>13
    <3> QED BY <1>1, <1>9, <2>1, <2>2, <3>1, EndsBadly
  <2> QED BY <1>13, <2>3 DEF DecodesInv
<1>15. CASE n # 0
  <2>1. ip' = p /\ limit' = p + n /\ pc' = "literal" /\ peeked' = n
    BY <1>1, <1>10, <1>15
  <2>2. valid' = TRUE
    <3>1. (n > 0) = TRUE
      BY <1>11, <1>15
    <3> QED BY <1>10, <3>1, Zenon
  <2>3. ShownOK' /\ Here' = p
    <3>1. pc' \in Buffering \ {"called", "length"}
      BY <2>1 DEF Buffering
    <3> QED BY <1>1, <1>4, <1>11, <2>1, <2>2, <3>1, ShownRegion
  <2>4. WrittenOK'
    <3>1. PICK rest : rest = l - m
      OBVIOUS
    <3>2. ASSUME Enough(u) PROVE \E k : MidLiteral(k, p, u, rest)
      <4>1. PICK k : MidLiteral(k, h + m, a.w, l - m)
        BY <1>6, <1>7, <1>9, <3>2, Zenon
      <4> QED BY <1>3, <1>8, <3>1, <4>1, Zenon
    <3>3. literal' = rest
      BY <1>4, <3>1
    <3> QED BY <1>1, <1>9, <2>1, <2>3, <3>2, <3>3, InLiteralNext
  <2>5. EndOK'
    BY <2>1, NotEnded
  <2> QED BY <1>13, <2>3, <2>4, <2>5 DEF DecodesInv
<1> QED BY <1>14, <1>15

----------------------------------------------------------------------------
(* Copies *)

\* Of the copy of len bytes from offset that comes after out, all but c.len are
\* written; the bytes wanted next are where c says.
CopyPart(out, v, c, offset, len) ==
  /\ Reaches(out, offset) /\ c.len <= len
  /\ Wrote(v, CopyFromSelf(out, offset, len - c.len))
  /\ c.len > 0 => Starts(v.lens)[c.from.b] + c.from.at = v.total - offset

\* That is so for the copy after n elements.
MidCopy(n, v, c) ==
  /\ n \in 0 .. Len(given.bytes) /\ ReaderAfter(n).at = Here /\ Kind(Tag) # LITERAL
  /\ CopyPart(ReaderAfter(n).out, v, c, Offset, EntryLength(Tag))

\* What is read of a tag does not change while its element is copied.
LEMMA TagStays ==
  ASSUME UNCHANGED <<source, tag, given>>
  PROVE  /\ Tag' = Tag /\ Offset' = Offset /\ EntryLength(Tag)' = EntryLength(Tag)
         /\ Here' = Here /\ (Kind(Tag) # LITERAL => Kind(Tag)' # LITERAL)
<1>1. /\ pos' = pos /\ valid' = valid /\ region' = region /\ ip' = ip /\ limit' = limit
      /\ peeked' = peeked /\ scratch' = scratch /\ given' = given
  BY DEF source, tag
<1>2. \A i : At(i)' = At(i)
  BY <1>1 DEF At, Shown
<1>3. Tag' = Tag
  BY <1>1, <1>2 DEF Tag, At, Shown
<1>4. EntryExtra(Tag)' = EntryExtra(Tag) /\ EntryOffset(Tag)' = EntryOffset(Tag)
      /\ EntryLength(Tag)' = EntryLength(Tag)
  BY <1>3 DEF EntryExtra, EntryOffset, EntryLength, Entry
<1>5. Bytes(ip + 1, EntryExtra(Tag))' = Bytes(ip + 1, EntryExtra(Tag))
  BY <1>1, <1>4 DEF Bytes, At, Shown
<1>6. Offset' = Offset
  BY <1>4, <1>5 DEF Offset
<1>7. Here' = Here
  BY <1>1 DEF Here
<1>8. Kind(Tag)' = Kind(Tag)
  BY <1>3 DEF Kind
<1> QED BY <1>3, <1>4, <1>6, <1>7, <1>8

\* Inside a copy, that is what is known.
LEMMA AtCopyPart ==
  ASSUME Now, Enough(w), pc = "copying"
  PROVE  \E n : MidCopy(n, w, copy)
<1>1. \E n \in 0 .. Len(given.bytes) : ReaderAfter(n).at = Here /\ InCopy(ReaderAfter(n).out)
  BY Zenon DEF Now, DecodesInv, WrittenOK
<1> QED BY <1>1, Zenon DEF InCopy, MidCopy, CopyPart

\* A step inside a copy.
LEMMA InCopyNext ==
  ASSUME Now, pc \in {"tag", "copying"}, pc' = "copying", Steady, UNCHANGED <<source, tag>>,
         NEW v, w' = v, SameTask(v, w), NEW c, copy' = c, Enough(v) => \E n : MidCopy(n, v, c)
  PROVE  DecodesInv'
<1>1. /\ Reader /\ GivenOK /\ ShownOK /\ StateOK /\ pc \in Buffering /\ ~eof
      /\ given' = given /\ ip' = ip /\ eof' = eof /\ UNCHANGED <<status, result>>
      /\ UNCHANGED <<pos, valid, region, limit, peeked, scratch, given>>
      /\ UNCHANGED <<source, tag, given>>
  BY DEF Now, DecodesInv, Steady, lengthVars, source, tag, Buffering, StateOK
<1>2. ShownOK'
  <2>1. /\ pc' \in Buffering \ {"called", "length"} /\ ip \in Nat /\ ip <= ip /\ ip <= limit
    BY <1>1, HereIs DEF Buffering
  <2> QED BY <1>1, <2>1, ShownAhead
<1>3. StateOK'
  <2>1. v.limit = w.limit
    BY DEF SameTask
  <2>2. pc \notin {"called", "length", "done", "gone"} /\ pc' \notin {"called", "length", "gone"} /\ ~eof'
    BY <1>1
  <2> QED BY <1>1, <2>1, <2>2, StateGoesOn
<1>4. WrittenOK'
  <2>1. ASSUME Enough(w)'
        PROVE  \E n \in 0 .. Len(given'.bytes) : ReaderAfter(n)'.at = Here' /\ InCopy(ReaderAfter(n).out)'
    <3>1. Enough(v)
      BY <2>1 DEF Enough
    <3>2. PICK n : MidCopy(n, v, c)
      BY <3>1
    <3>3. PICK o, x : o = ReaderAfter(n).out /\ x = ReaderAfter(n).at
      OBVIOUS
    <3>4. ReaderAfter(n)' = ReaderAfter(n)
      BY <1>1 DEF ReaderAfter
    <3>5. PICK f, l : f = Offset /\ l = EntryLength(Tag)
      OBVIOUS
    <3>6. Offset' = f /\ EntryLength(Tag)' = l /\ Here' = Here /\ Kind(Tag)' # LITERAL
      BY <1>1, <3>2, <3>5, TagStays, Zenon DEF MidCopy
    <3>7. n \in 0 .. Len(given.bytes) /\ x = Here /\ CopyPart(o, v, c, f, l)
      BY <3>2, <3>3, <3>5, Zenon DEF MidCopy
    <3>8. ReaderAfter(n).out' = o /\ ReaderAfter(n)'.at = Here'
      BY <3>3, <3>4, <3>6, <3>7, Zenon
    <3>9. /\ Reaches(o, f) /\ c.len <= l /\ Wrote(v, CopyFromSelf(o, f, l - c.len))
          /\ c.len > 0 => Starts(v.lens)[c.from.b] + c.from.at = v.total - f
      BY <3>7 DEF CopyPart
    <3>10. InCopy(ReaderAfter(n).out)'
      BY <3>6, <3>8, <3>9, Zenon DEF InCopy, Wrote
    <3> QED BY <1>1, <3>7, <3>8, <3>10, Zenon
  <2>2. pc' \notin {"called", "length", "refill", "needed", "stitch", "tag"} /\ pc' # "literal"
    OBVIOUS
  <2> QED BY <2>1, <2>2, Zenon DEF WrittenOK
<1>5. EndOK'
  <2>1. pc' # "done"
    OBVIOUS
  <2> QED BY <2>1, NotEnded
<1> QED BY <1>2, <1>3, <1>4, <1>5 DEF DecodesInv

\* A copy in two parts.
LEMMA CopyInParts ==
  ASSUME NEW out \in Seq(Byte), NEW offset \in 1 .. Len(out), NEW k \in Nat, NEW n \in Nat
  PROVE  /\ CopyFromSelf(out, offset, k) \in Seq(Byte)
         /\ Len(CopyFromSelf(out, offset, k)) = Len(out) + k
         /\ offset \in 1 .. Len(CopyFromSelf(out, offset, k))
         /\ CopyFromSelf(CopyFromSelf(out, offset, k), offset, n) = CopyFromSelf(out, offset, k + n)
         /\ Len(CopyFromSelf(out, offset, k + n)) = Len(out) + k + n
<1>1. PICK x : x = CopyFromSelf(out, offset, k)
  OBVIOUS
<1>2. x \in Seq(Byte) /\ Grown(x, out, offset, k)
  BY <1>1, CopyTyped
<1>3. Len(x) = Len(out) + k
  BY <1>2 DEF Grown
<1>4. offset \in 1 .. Len(x)
  BY <1>3
<1>5. PICK y : y = CopyFromSelf(x, offset, n)
  OBVIOUS
<1>6. y \in Seq(Byte) /\ Grown(y, x, offset, n)
  BY <1>2, <1>4, <1>5, CopyTyped
<1>7. y = CopyFromSelf(out, offset, k + n)
  <2>1. Grown(y, CopyFromSelf(out, offset, k), offset, n)
    BY <1>1, <1>6
  <2> QED BY <1>6, <2>1, CopyGoesOn
<1>8. Len(y) = Len(out) + k + n
  <2>1. Len(y) = Len(x) + n
    BY <1>6 DEF Grown
  <2>2. PICK a \in Nat : a = Len(out)
    OBVIOUS
  <2> QED BY <1>3, <2>1, <2>2
<1> QED BY <1>1, <1>2, <1>3, <1>4, <1>5, <1>7, <1>8, Zenon

\* A copy of no bytes.
LEMMA CopyOfNone ==
  ASSUME NEW out \in Seq(Byte), NEW offset \in 1 .. Len(out)
  PROVE  CopyFromSelf(out, offset, 0) = out
<1>1. Grown(out, out, offset, 0)
  BY DEF Grown
<1> QED BY <1>1, CopyUnique

\* All of a copy is written: the writer has what the next reader has.
LEMMA CopyDone ==
  ASSUME Reader, GivenOK, ShownOK, pc \in {"tag", "copying"}, Kind(Tag) # LITERAL,
         NEW n, n \in 0 .. Len(given.bytes), ReaderAfter(n).at = Here,
         Reaches(ReaderAfter(n).out, Offset),
         NEW u, Wrote(u, CopyFromSelf(ReaderAfter(n).out, Offset, EntryLength(Tag)))
  PROVE  ReaderAt(n + 1, Here + 1 + EntryExtra(Tag), u)
<1>1. PICK b, r, h : b = given.bytes /\ r = ReaderAfter(n) /\ h = Here
  OBVIOUS
<1>2. PICK v : v = [kind |-> "validator", total |-> Len(r.out)]
  OBVIOUS
<1>3. ReaderAt(n, h, v)
  <2>1. Wrote(v, r.out)
    BY <1>2 DEF Wrote
  <2> QED BY <1>1, <2>1, Zenon DEF ReaderAt
<1>4. r.at = Here
  BY <1>1
<1>5. /\ ~IsLiteral(b, r) /\ LengthAt(b, r) = EntryLength(Tag) /\ OffsetAt(b, r) = Offset
      /\ Good(b, r) <=> Reaches(r.out, Offset)
  BY <1>1, <1>4, CopyShown
<1>6. After(b, r) = Here + 1 + EntryExtra(Tag) /\ h < Len(b)
  BY <1>1, <1>4, TagShown
<1>7. Good(b, r)
  BY <1>1, <1>5
<1>8. PICK q : q = ReadNext(b, r)
  OBVIOUS
<1>9. q.at = Here + 1 + EntryExtra(Tag) /\ q.out = CopyFromSelf(r.out, Offset, EntryLength(Tag))
  <2>1. PICK o, z : o = CopyFromSelf(r.out, Offset, EntryLength(Tag)) /\ z = Here + 1 + EntryExtra(Tag)
    OBVIOUS
  <2>2. q = [at |-> z, out |-> o]
    BY <1>5, <1>6, <1>8, <2>1, Zenon DEF ReadNext
  <2>3. q.at = z /\ q.out = o
    BY <2>2
  <2> QED BY <2>1, <2>3, Zenon
<1>10. Wrote(u, q.out)
  BY <1>1, <1>9, Zenon
<1>11. ReaderAt(n + 1, q.at, u)
  BY <1>1, <1>3, <1>6, <1>7, <1>8, <1>10, NextReader
<1> QED BY <1>9, <1>11, Zenon

\* A copy from before the first byte put out, or of more than was announced.
LEMMA CopyBad ==
  ASSUME Reader, GivenOK, ShownOK, LengthTypeOK, pc = "tag", Kind(Tag) # LITERAL,
         NEW n, ReaderAt(n, Here, w),
         ~Reaches(ReaderAfter(n).out, Offset) \/ w.total + EntryLength(Tag) > result
  PROVE  Contents = {}
<1>1. PICK b, r, h : b = given.bytes /\ r = ReaderAfter(n) /\ h = Here
  OBVIOUS
<1>2. r.at = Here /\ w.total = Len(r.out)
  BY <1>1, ReaderIs
<1>3. LengthAt(b, r) = EntryLength(Tag) /\ (Good(b, r) => Reaches(r.out, Offset)) /\ h < Len(b)
  <2>1. LengthAt(b, r) = EntryLength(Tag) /\ (Good(b, r) => Reaches(r.out, Offset))
    BY <1>1, <1>2, CopyShown
  <2>2. h < Len(b)
    BY <1>1, <1>2, TagShown
  <2> QED BY <2>1, <2>2
<1>4. Good(b, r) => Len(r.out) + LengthAt(b, r) > result
  BY <1>1, <1>2, <1>3
<1> QED BY <1>1, <1>3, <1>4, NoContents

\* The array writer and the validator copy.
LEMMA CopyDecodes ==
  ASSUME Now, Copy, Steady
  PROVE  DecodesInv'
<1>1. /\ Reader /\ GivenOK /\ ShownOK /\ StateOK /\ WrittenOK /\ Fits(w)
      /\ pc = "tag" /\ Kind(Tag) # LITERAL /\ w.kind # "iovec" /\ given' = given
      /\ Copied.ok /\ w' = Copied.w
      /\ Continue(ip + 1 + EntryExtra(Tag))
      /\ UNCHANGED <<status, result>> /\ eof' = eof
      /\ UNCHANGED <<pos, valid, region, limit, peeked, scratch, given>>
  BY DEF Now, DecodesInv, Copy, IsCopyTag, Steady, lengthVars, tag
<1>2. pc \in Buffering /\ ~eof' /\ pc' \in {"refill", "tag"}
      /\ pc' \in Buffering \ {"called", "length"}
  <2>1. pc' \in {"refill", "tag"}
    BY <1>1 DEF Continue
  <2> QED BY <1>1, <2>1 DEF Buffering, StateOK
<1>3. /\ ip \in Nat /\ limit \in Nat /\ Offset \in Nat /\ EntryLength(Tag) \in Nat \ {0}
      /\ EntryExtra(Tag) \in Nat /\ ip + 1 + EntryExtra(Tag) <= limit /\ Here \in Nat
  <2>1. Here \in Nat
    BY <1>1, <1>2, HereIs
  <2> QED BY <1>1, <2>1, AtTag
<1>4. PICK e \in Nat, h \in Nat, i \in Nat, z \in Nat :
        e = EntryExtra(Tag) /\ h = Here /\ i = ip + 1 + e /\ z = h + 1 + e
  BY <1>3
<1>5. ip <= i /\ i <= limit /\ h + (i - ip) = z /\ ip' = i
  <2>1. ip' = i
    BY <1>1, <1>4 DEF Continue
  <2> QED BY <1>3, <1>4, <2>1
<1>6. ShownOK' /\ Here' = z
  BY <1>1, <1>2, <1>4, <1>5, ShownAhead
<1>7. PICK f \in Nat, l \in Nat \ {0}, x \in {given.wide} :
        f = Offset /\ l = EntryLength(Tag) /\ x = given.wide
  BY <1>3
<1>8. PICK a : a = AppendFromSelf(w, f, l, x)
  OBVIOUS
<1>9. a.ok /\ w' = a.w
  BY <1>1, <1>7, <1>8, Zenon DEF Copied
<1>10. SameTask(a.w, w)
  BY <1>1, <1>8, FromSelfFits
<1>11. StateOK'
  <2>1. PICK u : u = a.w
    OBVIOUS
  <2>2. w' = u /\ u.limit = w.limit
    BY <1>9, <1>10, <2>1 DEF SameTask
  <2>3. pc \notin {"called", "length", "done", "gone"} /\ pc' \notin {"called", "length", "gone"}
    BY <1>1, <1>2
  <2> QED BY <1>1, <1>2, <2>2, <2>3, StateGoesOn
<1>12. WrittenOK'
  <2>1. PICK u : u = a.w
    OBVIOUS
  <2>2. ASSUME Enough(u) PROVE \E n : ReaderAt(n, z, u)
    <3>1. Enough(w)
      BY <1>10, <2>1, <2>2, SameRoom
    <3>2. PICK n : ReaderAt(n, Here, w)
      BY <1>1, <3>1, ReaderBefore
    <3>3. PICK o : o = ReaderAfter(n).out
      OBVIOUS
    <3>4. n \in 0 .. Len(given.bytes) /\ ReaderAfter(n).at = Here /\ o \in Seq(Byte) /\ Wrote(w, o)
      BY <1>1, <3>2, <3>3, ReaderIs
    <3>5. Byte \subseteq Cells
      BY DEF Cells
    <3>6. Reaches(o, f) /\ Wrote(a.w, CopyFromSelf(o, f, l))
      BY <1>1, <1>8, <1>9, <3>4, <3>5, FromSelfWrites
    <3>7. Reaches(ReaderAfter(n).out, Offset)
          /\ Wrote(u, CopyFromSelf(ReaderAfter(n).out, Offset, EntryLength(Tag)))
      BY <1>7, <2>1, <3>3, <3>6, Zenon
    <3>8. ReaderAt(n + 1, Here + 1 + EntryExtra(Tag), u)
      BY <1>1, <3>4, <3>7, CopyDone
    <3> QED BY <1>4, <3>8, Zenon
  <2>3. w' = u /\ pc' \in {"called", "length", "refill", "needed", "tag"}
    BY <1>2, <1>9, <2>1
  <2> QED BY <1>1, <1>6, <2>2, <2>3, AtNext
<1>13. EndOK'
  BY <1>2, NotEnded
<1> QED BY <1>6, <1>11, <1>12, <1>13 DEF DecodesInv

\* They cannot: the stream is bad.
LEMMA CopyFailsDecodes ==
  ASSUME Now, LengthTypeOK, CopyFails, Steady
  PROVE  DecodesInv'
<1>1. /\ Reader /\ GivenOK /\ ShownOK /\ StateOK /\ WrittenOK /\ Fits(w)
      /\ pc = "tag" /\ pc' = "done" /\ Kind(Tag) # LITERAL /\ w.kind # "iovec" /\ given' = given
      /\ ~Copied.ok /\ w' = Copied.w /\ UNCHANGED <<status, result, eof>>
  BY DEF Now, DecodesInv, CopyFails, IsCopyTag, Fail, Steady, lengthVars, tag
<1>2. Offset \in Nat /\ EntryLength(Tag) \in Nat \ {0}
  BY <1>1, AtTag
<1>3. PICK f \in Nat, l \in Nat \ {0}, x \in {given.wide} :
        f = Offset /\ l = EntryLength(Tag) /\ x = given.wide
  BY <1>2
<1>4. PICK a : a = AppendFromSelf(w, f, l, x)
  OBVIOUS
<1>5. ~a.ok /\ w' = a.w
  BY <1>1, <1>3, <1>4, Zenon DEF Copied
<1>6. SameTask(a.w, w)
  BY <1>1, <1>4, FromSelfFits
<1>7. PICK u : u = a.w
  OBVIOUS
<1>8. w' = u /\ u.limit = w.limit
  BY <1>5, <1>6, <1>7 DEF SameTask
<1>9. StateOK' /\ w.limit = result /\ eof = FALSE
  <2>1. /\ pc \notin {"called", "length", "done", "gone"} /\ pc' \notin {"called", "length", "gone"}
        /\ (eof' => pc' = "done")
    BY <1>1
  <2> QED BY <1>1, <1>8, <2>1, StateGoesOn
<1>10. ASSUME Enough(u) PROVE Contents = {}
  <2>1. Enough(w)
    BY <1>6, <1>7, <1>10, SameRoom
  <2>2. PICK n : ReaderAt(n, Here, w)
    BY <1>1, <2>1, ReaderBefore
  <2>3. PICK o : o = ReaderAfter(n).out
    OBVIOUS
  <2>4. o \in Seq(Byte) /\ Wrote(w, o) /\ w.total = Len(o) /\ Len(o) \in Nat
    BY <1>1, <2>2, <2>3, ReaderIs
  <2>5. Byte \subseteq Cells
    BY DEF Cells
  <2>6. ~(Reaches(o, f) /\ w.total + l <= w.limit)
    BY <1>1, <1>4, <1>5, <2>4, <2>5, FromSelfWrites
  <2>7. ~Reaches(o, f) \/ w.total + l > result
    <3>1. w.limit \in Nat
      BY <1>1 DEF Fits, Writer
    <3>2. PICK t \in Nat, m \in Nat : t = w.total /\ m = w.limit
      BY <2>4, <3>1
    <3>3. ASSUME ~(w.total + l <= w.limit) PROVE w.total + l > result
      <4>1. ~(t + l <= m) => t + l > m
        OBVIOUS
      <4> QED BY <1>9, <3>2, <3>3, <4>1
    <3> QED BY <2>6, <3>3
  <2>8. ~Reaches(ReaderAfter(n).out, Offset) \/ w.total + EntryLength(Tag) > result
    BY <1>3, <2>3, <2>7, Zenon
  <2> QED BY <1>1, <2>2, <2>8, CopyBad
<1>11. ShownOK' /\ WrittenOK' /\ EndOK'
  <2>1. eof' = FALSE
    BY <1>1, <1>9
  <2> QED BY <1>1, <1>8, <1>10, <2>1, EndsBadly
<1> QED BY <1>9, <1>11 DEF DecodesInv

\* Where the bytes at an offset are.
LEMMA LocateStarts ==
  ASSUME NEW v, Fits(v), v.kind = "iovec", NEW offset \in Nat, CanReach(v, offset)
  PROVE  Starts(v.lens)[Locate(v, offset).b] + Locate(v, offset).at = v.total - offset
<1>1. /\ v.lens \in Seq(Nat) /\ v.cur \in 1 .. Len(v.lens) /\ v.total \in Nat
      /\ Address(v) = v.total
  <2>1. v.kind # "validator"
    OBVIOUS
  <2> QED BY <2>1, PlaceTotal DEF Address
<1>2. PICK a \in Nat : a = v.total - offset
  BY <1>1 DEF CanReach
<1>3. PICK b, x : b = Locate(v, offset).b /\ x = Starts(v.lens)[Locate(v, offset).b]
  OBVIOUS
<1>4. b \in 1 .. v.cur
  BY <1>3, LocateIs
<1>5. x \in Nat
  <2>1. b \in 1 .. Len(v.lens)
    <3>1. PICK c \in Nat, d \in Nat : c = v.cur /\ d = Len(v.lens)
      BY <1>1
    <3> QED BY <1>1, <1>4, <3>1
  <2> QED BY <1>1, <1>3, <2>1, StartOf
<1>6. Locate(v, offset).at = a - x
  BY <1>1, <1>2, <1>3 DEF Locate
<1>7. x + (a - x) = a
  BY <1>5
<1> QED BY <1>2, <1>3, <1>6, <1>7

\* A copy of an iovec writer starts.
LEMMA StartCopyDecodes ==
  ASSUME Now, StartCopy, Steady
  PROVE  DecodesInv'
<1>1. /\ Reader /\ GivenOK /\ ShownOK /\ WrittenOK /\ Fits(w)
      /\ pc = "tag" /\ pc' = "copying" /\ Kind(Tag) # LITERAL /\ w.kind = "iovec"
      /\ CanReach(w, Offset) /\ w' = w
      /\ copy' = [from |-> Locate(w, Offset), len |-> EntryLength(Tag)]
      /\ UNCHANGED <<source, tag>>
  BY DEF Now, DecodesInv, StartCopy, IsCopyTag, CanCopy
<1>2. Offset \in Nat /\ EntryLength(Tag) \in 1 .. 64
  BY <1>1, AtTag
<1>3. PICK f \in Nat, l \in Nat, q \in {Locate(w, Offset)} :
        f = Offset /\ l = EntryLength(Tag) /\ q = Locate(w, Offset)
  BY <1>2
<1>4. PICK c : c = [from |-> q, len |-> l]
  OBVIOUS
<1>5. copy' = c /\ c.from = q /\ c.len = l
  BY <1>1, <1>3, <1>4, Zenon
<1>6. Starts(w.lens)[q.b] + q.at = w.total - f
  BY <1>1, <1>3, LocateStarts
<1>7. ASSUME Enough(w) PROVE \E n : MidCopy(n, w, c)
  <2>1. PICK n : ReaderAt(n, Here, w)
    BY <1>1, <1>7, ReaderBefore
  <2>2. PICK o : o = ReaderAfter(n).out
    OBVIOUS
  <2>3. n \in 0 .. Len(given.bytes) /\ ReaderAfter(n).at = Here /\ o \in Seq(Byte) /\ Wrote(w, o)
        /\ w.total = Len(o)
    BY <1>1, <2>1, <2>2, ReaderIs
  <2>4. f \in 1 .. Len(o)
    BY <1>1, <1>3, <2>3 DEF CanReach
  <2>5. CopyFromSelf(o, f, l - c.len) = o
    <3>1. l - c.len = 0
      BY <1>5
    <3>2. CopyFromSelf(o, f, 0) = o
      BY <2>3, <2>4, CopyOfNone
    <3> QED BY <3>1, <3>2, Zenon
  <2>6. c.len <= l
    BY <1>5
  <2>7. CopyPart(o, w, c, f, l)
    <3>1. Wrote(w, CopyFromSelf(o, f, l - c.len))
      BY <2>3, <2>5, Zenon
    <3>2. Starts(w.lens)[c.from.b] + c.from.at = w.total - f
      BY <1>5, <1>6, Zenon
    <3>3. Reaches(o, f)
      BY <2>4 DEF Reaches
    <3> QED BY <2>6, <3>1, <3>2, <3>3, Zenon DEF CopyPart
  <2> QED BY <1>1, <1>3, <2>2, <2>3, <2>7, Zenon DEF MidCopy
<1>8. SameTask(w, w)
  BY DEF SameTask
<1> QED BY <1>1, <1>5, <1>7, <1>8, InCopyNext

\* It cannot start: the stream is bad.
LEMMA StartCopyFailsDecodes ==
  ASSUME Now, LengthTypeOK, StartCopyFails, Steady
  PROVE  DecodesInv'
<1>1. /\ Reader /\ GivenOK /\ ShownOK /\ StateOK /\ WrittenOK /\ Fits(w)
      /\ pc = "tag" /\ pc' = "done" /\ Kind(Tag) # LITERAL /\ w.kind = "iovec" /\ given' = given
      /\ ~(CanReach(w, Offset) /\ EntryLength(Tag) <= SpaceLeft(w))
      /\ w' = w /\ UNCHANGED <<status, result, eof>>
  BY DEF Now, DecodesInv, StartCopyFails, IsCopyTag, CanCopy, Fail, Steady, lengthVars, tag
<1>2. EntryLength(Tag) \in Nat
  <2>1. EntryLength(Tag) \in 1 .. 64
    BY <1>1, AtTag
  <2> QED BY <2>1
<1>3. StateOK' /\ w.limit = result /\ eof = FALSE
  <2>1. /\ pc \notin {"called", "length", "done", "gone"} /\ pc' \notin {"called", "length", "gone"}
        /\ (eof' => pc' = "done")
    BY <1>1
  <2> QED BY <1>1, <2>1, StateGoesOn
<1>4. ASSUME Enough(w) PROVE Contents = {}
  <2>1. PICK n : ReaderAt(n, Here, w)
    BY <1>1, <1>4, ReaderBefore
  <2>2. PICK o : o = ReaderAfter(n).out
    OBVIOUS
  <2>3. w.total = Len(o) /\ Len(o) \in Nat
    BY <1>1, <2>1, <2>2, ReaderIs
  <2>4. w.limit \in Nat
    BY <1>1 DEF Fits, Writer
  <2>5. PICK t \in Nat, m \in Nat, l \in Nat : t = w.total /\ m = w.limit /\ l = EntryLength(Tag)
    BY <1>2, <2>3, <2>4
  <2>6. Reaches(o, Offset) => CanReach(w, Offset)
    BY <2>3 DEF Reaches, CanReach
  <2>7. ~Reaches(ReaderAfter(n).out, Offset) \/ w.total + EntryLength(Tag) > result
    <3>1. ~(l <= m - t) => t + l > m
      OBVIOUS
    <3>2. ASSUME ~(EntryLength(Tag) <= SpaceLeft(w)) PROVE w.total + EntryLength(Tag) > result
      BY <1>3, <2>5, <3>1, <3>2 DEF SpaceLeft
    <3> QED BY <1>1, <2>2, <2>6, <3>2, Zenon
  <2> QED BY <1>1, <2>1, <2>7, CopyBad
<1>5. ShownOK' /\ WrittenOK' /\ EndOK'
  <2>1. eof' = FALSE
    BY <1>1, <1>3
  <2> QED BY <1>1, <1>4, <2>1, EndsBadly
<1> QED BY <1>3, <1>5 DEF DecodesInv

\* What a copy has written, and what is left of it.
LEMMA MidCopyIs ==
  ASSUME GivenOK, Reader, pc = "copying", Fits(w), CopyOK, Copying, NEW n, MidCopy(n, w, copy),
         NEW o, o = ReaderAfter(n).out, NEW f, f = Offset, NEW l, l = EntryLength(Tag),
         NEW c, c = copy.len
  PROVE  /\ o \in Seq(Byte) /\ f \in 1 .. Len(o) /\ l \in Nat /\ c \in Nat /\ c <= l
         /\ l - c \in Nat /\ Wrote(w, CopyFromSelf(o, f, l - c))
         /\ CopyFromSelf(o, f, l - c) \in Seq(Byte) /\ f \in 1 .. w.total
         /\ w.total = Len(o) + (l - c)
         /\ Starts(w.lens)[copy.from.b] + copy.from.at = w.total - f
<1>1. l \in Nat
  <2>1. EntryLength(Tag) \in 1 .. 64
    BY AtTag
  <2> QED BY <2>1
<1>2. c \in Nat /\ c > 0
  <2>1. copy.len \in Nat /\ 1 <= copy.len
    BY AtCopy
  <2> QED BY <2>1
<1>3. /\ n \in 0 .. Len(given.bytes) /\ Reaches(o, f) /\ c <= l
      /\ Wrote(w, CopyFromSelf(o, f, l - c))
      /\ copy.len > 0 => Starts(w.lens)[copy.from.b] + copy.from.at = w.total - f
  BY Zenon DEF MidCopy, CopyPart
<1>4. o \in Seq(Byte)
  <2>1. given.bytes \in Seq(Byte)
    BY DEF GivenOK
  <2>2. Typed(Readers(given.bytes)[n])
    BY <1>3, <2>1, ReadersTyped
  <2> QED BY <2>2 DEF Typed, ReaderAfter
<1>5. f \in 1 .. Len(o)
  BY <1>3 DEF Reaches
<1>6. PICK k \in Nat, x \in {CopyFromSelf(o, f, l - c)} : k = l - c /\ x = CopyFromSelf(o, f, l - c)
  BY <1>1, <1>2, <1>3
<1>7. x \in Seq(Byte) /\ Len(x) = Len(o) + k /\ f \in 1 .. Len(x)
  BY <1>4, <1>5, <1>6, CopyInParts
<1>8. w.total = Len(x)
  BY <1>3, <1>6 DEF Wrote
<1> QED BY <1>1, <1>2, <1>3, <1>4, <1>5, <1>6, <1>7, <1>8

\* u is writer w after n bytes more of its copy, and c is what is left of it.
CopiedOn(u, c, n) ==
  /\ c.len = copy.len - n
  /\ \A t \in Seq(Byte) : \A f \in 1 .. w.total :
       Wrote(w, t) /\ Starts(w.lens)[copy.from.b] + copy.from.at = w.total - f
         => Wrote(u, CopyFromSelf(t, f, n))
  /\ c.len > 0 => Starts(u.lens)[c.from.b] + c.from.at
                    = Starts(w.lens)[copy.from.b] + copy.from.at + n

\* n bytes more of a copy are written; c says where the bytes wanted next are.
LEMMA CopyGrows ==
  ASSUME GivenOK, Reader, pc = "copying", Fits(w), CopyOK, Copying, NEW k, MidCopy(k, w, copy),
         NEW n \in Nat, n <= copy.len, NEW c, NEW u, CopiedOn(u, c, n)
  PROVE  MidCopy(k, u, c)
<1>1. PICK o, f, l, m, y : /\ o = ReaderAfter(k).out /\ f = Offset /\ l = EntryLength(Tag)
                           /\ m = copy.len /\ y = c.len
  OBVIOUS
<1>2. /\ o \in Seq(Byte) /\ f \in 1 .. Len(o) /\ l \in Nat /\ m \in Nat /\ m <= l
      /\ l - m \in Nat /\ Wrote(w, CopyFromSelf(o, f, l - m))
      /\ CopyFromSelf(o, f, l - m) \in Seq(Byte) /\ f \in 1 .. w.total
      /\ w.total = Len(o) + (l - m)
      /\ Starts(w.lens)[copy.from.b] + copy.from.at = w.total - f
  BY <1>1, MidCopyIs
<1>3. PICK j \in Nat, t \in {CopyFromSelf(o, f, l - m)} : j = l - m /\ t = CopyFromSelf(o, f, l - m)
  BY <1>2
<1>4. n <= m /\ y = m - n /\ y <= l /\ l - y = j + n
  <2>1. n <= m /\ y = m - n
    BY <1>1, Zenon DEF CopiedOn
  <2>2. m \in Nat /\ l \in Nat /\ m <= l /\ j = l - m
    BY <1>2, <1>3, Zenon
  <2> QED BY <2>1, <2>2
<1>5. Wrote(u, CopyFromSelf(t, f, n))
  BY <1>2, <1>3, Zenon DEF CopiedOn
<1>6. CopyFromSelf(t, f, n) = CopyFromSelf(o, f, j + n) /\ Len(CopyFromSelf(o, f, j + n)) = Len(o) + j + n
  <2>1. o \in Seq(Byte) /\ f \in 1 .. Len(o) /\ t = CopyFromSelf(o, f, j)
    BY <1>2, <1>3, Zenon
  <2>2. /\ CopyFromSelf(CopyFromSelf(o, f, j), f, n) = CopyFromSelf(o, f, j + n)
        /\ Len(CopyFromSelf(o, f, j + n)) = Len(o) + j + n
    BY <2>1, CopyInParts, Zenon
  <2> QED BY <2>1, <2>2, Zenon
<1>7. Wrote(u, CopyFromSelf(o, f, l - y))
  BY <1>4, <1>5, <1>6, Zenon
<1>8. u.total = w.total + n
  <2>1. PICK a \in Nat : a = Len(o)
    BY <1>2
  <2>2. u.total = a + j + n
    BY <1>5, <1>6, <2>1 DEF Wrote
  <2>3. w.total = a + j
    BY <1>2, <1>3, <2>1
  <2> QED BY <2>2, <2>3
<1>9. y > 0 => Starts(u.lens)[c.from.b] + c.from.at = u.total - f
  <2>1. PICK a \in Nat, x \in {Starts(w.lens)[copy.from.b] + copy.from.at} :
          a = w.total /\ x = Starts(w.lens)[copy.from.b] + copy.from.at
    BY <1>2
  <2>2. x = a - f /\ u.total = a + n
    BY <1>2, <1>8, <2>1
  <2>3. x + n = (a + n) - f
    BY <1>2, <2>2
  <2>4. y > 0 => Starts(u.lens)[c.from.b] + c.from.at = x + n
    BY <1>1, <2>1, Zenon DEF CopiedOn
  <2> QED BY <2>2, <2>3, <2>4, Zenon
<1>10. CopyPart(o, u, c, f, l)
  <2>1. Reaches(o, f)
    BY <1>2 DEF Reaches
  <2> QED BY <1>1, <1>4, <1>7, <1>9, <2>1, Zenon DEF CopyPart
<1>11. k \in 0 .. Len(given.bytes) /\ ReaderAfter(k).at = Here /\ Kind(Tag) # LITERAL
  BY DEF MidCopy
<1> QED BY <1>1, <1>10, <1>11, Zenon DEF MidCopy

\* Bytes of an earlier buffer are appended.
LEMMA CopyAcrossDecodes ==
  ASSUME Now, CopyAcross, Steady
  PROVE  DecodesInv'
<1>1. /\ Reader /\ GivenOK /\ Fits(w) /\ CopyOK /\ Copying
      /\ copy.from.b # w.cur /\ pc' = pc /\ UNCHANGED <<source, tag>>
  BY DEF Now, CopyAcross
<1>2. /\ pc = "copying" /\ w.kind = "iovec" /\ w \in Writer /\ BuffersOK(w)
      /\ copy.len \in Nat /\ 1 <= copy.len
      /\ copy.from.b \in Nat /\ copy.from.at \in Nat
      /\ w.cur \in Nat /\ 1 <= w.cur /\ w.lens \in Seq(Nat) /\ Len(w.lens) \in Nat
      /\ copy.from.b \in 1 .. w.cur /\ copy.from.at <= w.lens[copy.from.b]
      /\ copy.len <= w.limit - w.total
      /\ w.cur \in 1 .. Len(w.lens) /\ w.total \in Nat /\ w.limit \in Nat
      /\ copy.from.b \in 1 .. Len(w.lens) /\ w.lens[copy.from.b] \in Nat
  BY <1>1, AtCopy
<1>3. PICK b \in Nat, at \in Nat, len \in Nat, room \in Nat :
        b = copy.from.b /\ at = copy.from.at /\ len = copy.len /\ room = w.lens[copy.from.b]
  BY <1>2, Zenon
<1>4. PICK d \in Nat, top \in Nat, h \in Nat, last \in Nat :
        d = w.cur /\ top = w.limit /\ h = w.total /\ last = Len(w.lens)
  BY <1>2, Zenon
<1>5. at <= room /\ 1 <= len /\ len <= top - h /\ b < d /\ d <= last /\ 1 <= b
  <2>1. at <= room /\ 1 <= len /\ len <= top - h
    BY <1>2, <1>3, <1>4
  <2>2. b \in 1 .. d /\ b # d /\ d \in 1 .. last
    BY <1>1, <1>2, <1>3, <1>4
  <2> QED BY <2>1, <2>2
<1>6. PICK n \in Nat : n = SmallerOf(room - at, len) /\ n <= len /\ at + n <= room
                       /\ (n < len => at + n = room)
  BY <1>5 DEF SmallerOf
<1>7. PICK s : s = Load(w, b, at, n)
  OBVIOUS
<1>8. PICK c : c = [from |-> [b |-> b + 1, at |-> 0], len |-> len - n]
  OBVIOUS
<1>9. w' = AppendBytes(w, s).w /\ copy' = c
  BY <1>3, <1>6, <1>7, <1>8 DEF CopyAcross
<1>10. c.len = len - n /\ c.from.b = b + 1 /\ c.from.at = 0
  BY <1>8
<1>11. PICK u : u = AppendBytes(w, s).w
  OBVIOUS
<1>12. SameTask(u, w)
  <2>1. s \in Seq(Cells)
    <3>1. PICK q : q = w.bufs[b]
      OBVIOUS
    <3>2. q \in Seq(Cells) /\ Len(q) = room + Slack
      <4>1. q \in Seq(Cells) /\ Len(q) = w.lens[b] + Slack
        BY <1>2, <1>3, <3>1, BufferCells
      <4> QED BY <1>3, <4>1
    <3>3. PICK z \in Nat : z = at + n
      OBVIOUS
    <3>4. at <= z /\ z <= Len(q)
      BY <1>6, <3>2, <3>3 DEF Slack
    <3>5. s = SubSeq(q, at + 1, z)
      BY <1>7, <3>1, <3>3 DEF Load
    <3> QED BY <3>2, <3>4, <3>5, PartIs
  <2> QED BY <1>1, <1>11, <2>1, AppendFits
<1>13. ASSUME Enough(u) PROVE \E k : MidCopy(k, u, c)
  <2>1. Enough(w)
    BY <1>12, <1>13, SameRoom
  <2>2. PICK k : MidCopy(k, w, copy)
    BY <1>2, <2>1, AtCopyPart
  <2>3. ASSUME NEW t \in Seq(Byte), NEW f \in 1 .. w.total,
               Wrote(w, t), Starts(w.lens)[copy.from.b] + copy.from.at = w.total - f
        PROVE  Wrote(u, CopyFromSelf(t, f, n))
    <3>1. /\ b \in 1 .. Len(w.lens) /\ b < w.cur /\ at + n <= w.lens[b] /\ w.total + n <= w.limit
          /\ Starts(w.lens)[b] + at = w.total - f
      <4>1. h + n <= top
        BY <1>5, <1>6
      <4> QED BY <1>2, <1>3, <1>4, <1>5, <1>6, <2>3, <4>1
    <3>2. Byte \subseteq Cells
      BY DEF Cells
    <3>3. Fits(w) /\ w.kind = "iovec"
      BY <1>1, <1>2
    <3>4. Wrote(AppendBytes(w, Load(w, b, at, n)).w, CopyFromSelf(t, f, n))
      BY <2>1, <2>3, <3>1, <3>2, <3>3, AcrossWrites
    <3> QED BY <1>7, <1>11, <3>4, Zenon
  <2>4. c.len > 0 => Starts(u.lens)[c.from.b] + c.from.at
                       = Starts(w.lens)[copy.from.b] + copy.from.at + n
    <3>1. SUFFICES ASSUME n < len
          PROVE  Starts(u.lens)[b + 1] + 0 = Starts(w.lens)[b] + at + n
      BY <1>3, <1>6, <1>10
    <3>2. u.lens = w.lens
      BY <1>12 DEF SameTask
    <3>3. PICK e \in Nat : e = b + 1
      OBVIOUS
    <3>4. e \in 2 .. last /\ e - 1 = b /\ b \in 1 .. last
      BY <1>5, <3>3
    <3>5. Starts(w.lens)[e] = Starts(w.lens)[e - 1] + w.lens[e - 1]
      BY <1>2, <1>4, <3>4, StartsIs
    <3>6. Starts(w.lens)[b] \in Nat
      BY <1>2, <1>4, <3>4, StartOf
    <3>7. PICK x \in Nat : x = Starts(w.lens)[b]
      BY <3>6
    <3>8. Starts(u.lens)[e] = x + room
      BY <1>3, <3>2, <3>4, <3>5, <3>7
    <3>9. x + room + 0 = x + at + n
      BY <1>6, <3>1
    <3> QED BY <3>3, <3>7, <3>8, <3>9
  <2>5. /\ GivenOK /\ Reader /\ pc = "copying" /\ Fits(w) /\ CopyOK /\ Copying
        /\ n <= copy.len /\ c.len = copy.len - n
    BY <1>1, <1>2, <1>3, <1>6, <1>10
  <2>6. CopiedOn(u, c, n)
    BY <2>3, <2>4, <2>5, Zenon DEF CopiedOn
  <2>7. MidCopy(k, u, c)
    BY <2>2, <2>5, <2>6, CopyGrows
  <2> QED BY <2>7
<1> QED BY <1>1, <1>2, <1>9, <1>11, <1>12, <1>13, InCopyNext

\* Bytes of the current buffer are copied inside it.
LEMMA CopyWithinDecodes ==
  ASSUME Now, CopyWithin, Steady
  PROVE  DecodesInv'
<1>1. /\ Reader /\ GivenOK /\ Fits(w) /\ CopyOK /\ Copying
      /\ copy.from.b = w.cur /\ Within > 0 /\ pc' = pc /\ UNCHANGED <<source, tag>>
      /\ w' = Advance(IncrementalCopy(w, w.cur, copy.from.at, w.at, Within), Within)
      /\ copy' = [copy EXCEPT !.from.at = @ + Within, !.len = @ - Within]
  BY DEF Now, CopyWithin
<1>2. /\ pc = "copying" /\ w.kind = "iovec" /\ w \in Writer /\ BuffersOK(w)
      /\ copy.len \in Nat /\ 1 <= copy.len
      /\ w.cur \in Nat /\ 1 <= w.cur /\ Len(w.lens) \in Nat
      /\ copy.from.at \in Nat /\ copy.from.at <= w.at
      /\ copy.len <= w.limit - w.total
      /\ w.cur \in 1 .. Len(w.lens) /\ w.at \in Nat /\ w.total \in Nat /\ w.limit \in Nat
      /\ w.lens[w.cur] \in Nat /\ w.at <= w.lens[w.cur] /\ w.lens \in Seq(Nat)
      /\ copy = [from |-> [b |-> copy.from.b, at |-> copy.from.at], len |-> copy.len]
  BY <1>1, AtCopy
<1>3. PICK from \in Nat, at \in Nat, len \in Nat, room \in Nat, d \in Nat :
        from = copy.from.at /\ at = w.at /\ len = copy.len /\ room = w.lens[w.cur] /\ d = w.cur
  BY <1>2, Zenon
<1>4. PICK top \in Nat, h \in Nat : top = w.limit /\ h = w.total
  BY <1>2, Zenon
<1>5. from <= at /\ at <= room /\ 1 <= d /\ len <= top - h
  BY <1>2, <1>3, <1>4
<1>6. PICK n \in Nat : n = Within /\ n <= len /\ at + n <= room /\ from + n <= room
  <2>1. Within = SmallerOf(room - at, len)
    BY <1>3 DEF Within
  <2> QED BY <1>5, <2>1 DEF SmallerOf
<1>7. h + n <= top
  BY <1>5, <1>6
<1>8. PICK i : i = IncrementalCopy(w, w.cur, from, at, n)
  OBVIOUS
<1>9. PICK u : u = Advance(i, n)
  OBVIOUS
<1>10. PICK c : c = [from |-> [b |-> d, at |-> from + n], len |-> len - n]
  OBVIOUS
<1>11. w' = u /\ copy' = c
  <2>1. copy = [from |-> [b |-> d, at |-> from], len |-> len]
    BY <1>1, <1>2, <1>3
  <2>2. copy' = [copy EXCEPT !.from.at = @ + n, !.len = @ - n]
    BY <1>1, <1>6
  <2>3. copy' = [from |-> [b |-> d, at |-> from + n], len |-> len - n]
    BY <2>1, <2>2
  <2>4. w' = u
    BY <1>1, <1>3, <1>6, <1>8, <1>9
  <2> QED BY <1>10, <2>3, <2>4, Zenon
<1>12. c.len = len - n /\ c.from.b = d /\ c.from.at = from + n
  BY <1>10
<1>13. SameTask(u, w)
  <2>1. from + n <= w.lens[w.cur] /\ at + n <= w.lens[w.cur]
    BY <1>3, <1>6
  <2>2. i \in Alike(w)
    BY <1>2, <1>3, <1>8, <2>1, IncrementalCopyKeeps
  <2>3. w.total + n <= w.limit
    BY <1>4, <1>7
  <2>4. w.at + n <= w.lens[w.cur] /\ w.kind # "validator"
    BY <1>2, <1>3, <1>6
  <2> QED BY <1>1, <1>9, <2>2, <2>3, <2>4, AdvanceFits
<1>14. ASSUME Enough(u) PROVE \E k : MidCopy(k, u, c)
  <2>1. Enough(w)
    BY <1>13, <1>14, SameRoom
  <2>2. PICK k : MidCopy(k, w, copy)
    BY <1>2, <2>1, AtCopyPart
  <2>3. ASSUME NEW t \in Seq(Byte), NEW f \in 1 .. w.total,
               Wrote(w, t), Starts(w.lens)[copy.from.b] + copy.from.at = w.total - f
        PROVE  Wrote(u, CopyFromSelf(t, f, n))
    <3>1. /\ from <= w.at /\ w.at + n <= w.lens[w.cur] /\ w.total + n <= w.limit
          /\ Starts(w.lens)[w.cur] + from = w.total - f
      BY <1>1, <1>3, <1>4, <1>5, <1>6, <1>7, <2>3
    <3>2. Byte \subseteq Cells
      BY DEF Cells
    <3>3. Fits(w) /\ w.kind = "iovec"
      BY <1>1, <1>2
    <3>4. Wrote(Advance(IncrementalCopy(w, w.cur, from, w.at, n), n), CopyFromSelf(t, f, n))
      BY <2>3, <3>1, <3>2, <3>3, WithinWrites
    <3> QED BY <1>3, <1>8, <1>9, <3>4, Zenon
  <2>4. Starts(u.lens)[c.from.b] + c.from.at = Starts(w.lens)[copy.from.b] + copy.from.at + n
    <3>1. u.lens = w.lens
      BY <1>13 DEF SameTask
    <3>2. Starts(w.lens)[d] \in Nat
      BY <1>2, <1>3, StartOf
    <3>3. PICK x \in Nat : x = Starts(w.lens)[d]
      BY <3>2
    <3>4. x + (from + n) = x + from + n
      OBVIOUS
    <3>5. copy.from.b = d /\ copy.from.at = from
      BY <1>1, <1>3
    <3> QED BY <1>12, <3>1, <3>3, <3>4, <3>5, Zenon
  <2>5. /\ GivenOK /\ Reader /\ pc = "copying" /\ Fits(w) /\ CopyOK /\ Copying
        /\ n <= copy.len /\ c.len = copy.len - n
    BY <1>1, <1>2, <1>3, <1>6, <1>12
  <2>6. CopiedOn(u, c, n)
    BY <2>3, <2>4, <2>5, Zenon DEF CopiedOn
  <2>7. MidCopy(k, u, c)
    BY <2>2, <2>5, <2>6, CopyGrows
  <2> QED BY <2>7
<1> QED BY <1>1, <1>2, <1>11, <1>13, <1>14, InCopyNext

\* The writer goes on to the next buffer: what is written stays as it is.
LEMMA CopyOnwardDecodes ==
  ASSUME Now, CopyOnward, Steady
  PROVE  DecodesInv'
<1>1. /\ Fits(w) /\ CopyOK /\ Copying /\ pc = "copying" /\ pc' = pc /\ UNCHANGED <<source, tag>>
      /\ w' = [w EXCEPT !.cur = @ + 1, !.at = 0] /\ copy' = copy
  BY DEF Now, CopyOnward, Copying
<1>2. w \in Writer
  BY <1>1 DEF Fits
<1>3. PICK u : u = [w EXCEPT !.cur = @ + 1, !.at = 0]
  OBVIOUS
<1>4. u.kind = w.kind /\ u.lens = w.lens /\ u.limit = w.limit /\ u.total = w.total
  BY <1>2, <1>3 DEF Writer
<1>5. SameTask(u, w)
  BY <1>4 DEF SameTask
<1>6. ASSUME Enough(u) PROVE \E n : MidCopy(n, u, copy)
  <2>1. Enough(w)
    BY <1>5, <1>6, SameRoom
  <2>2. PICK n : MidCopy(n, w, copy)
    BY <1>1, <2>1, AtCopyPart
  <2>3. PICK o, f, l : o = ReaderAfter(n).out /\ f = Offset /\ l = EntryLength(Tag)
    OBVIOUS
  <2>4. /\ Reaches(o, f) /\ copy.len <= l /\ Wrote(w, CopyFromSelf(o, f, l - copy.len))
        /\ copy.len > 0 => Starts(w.lens)[copy.from.b] + copy.from.at = w.total - f
    BY <2>2, <2>3, Zenon DEF MidCopy, CopyPart
  <2>5. Wrote(u, CopyFromSelf(o, f, l - copy.len))
    BY <1>2, <1>3, <2>4, OnwardWrites
  <2>6. CopyPart(o, u, copy, f, l)
    BY <1>4, <2>4, <2>5, Zenon DEF CopyPart
  <2> QED BY <2>2, <2>3, <2>6, Zenon DEF MidCopy
<1>7. PICK c : c = copy
  OBVIOUS
<1> QED BY <1>1, <1>3, <1>5, <1>6, <1>7, InCopyNext

\* There is no next buffer: there was never room for all that was announced.
LEMMA CopyNoRoomDecodes ==
  ASSUME Now, CopyNoRoom, Steady
  PROVE  DecodesInv'
<1>1. /\ Reader /\ StateOK /\ Fits(w) /\ CopyOK /\ Copying
      /\ copy.from.b = w.cur /\ Within = 0 /\ w.cur = Len(w.lens)
      /\ pc' = "done" /\ w' = w /\ given' = given /\ UNCHANGED <<status, result, eof>>
  BY DEF Now, DecodesInv, CopyNoRoom, Fail, Steady, lengthVars, tag
<1>2. /\ pc = "copying" /\ w.kind = "iovec" /\ copy.len \in Nat /\ 1 <= copy.len
      /\ w.at \in Nat /\ w.total \in Nat /\ w.limit \in Nat
      /\ w.lens[w.cur] \in Nat /\ w.at <= w.lens[w.cur] /\ copy.len <= w.limit - w.total
  BY <1>1, AtCopy
<1>3. StateOK' /\ eof = FALSE
  <2>1. /\ pc \notin {"called", "length", "done", "gone"} /\ pc' \notin {"called", "length", "gone"}
        /\ (eof' => pc' = "done")
    BY <1>1, <1>2
  <2> QED BY <1>1, <2>1, StateGoesOn
<1>4. ~Enough(w)
  <2>1. PICK at \in Nat, h \in Nat, top \in Nat, room \in Nat, len \in Nat :
          at = w.at /\ h = w.total /\ top = w.limit /\ room = w.lens[w.cur] /\ len = copy.len
    BY <1>2, Zenon
  <2>2. at = room
    <3>1. SmallerOf(room - at, len) = 0
      BY <1>1, <2>1 DEF Within
    <3> QED BY <1>2, <2>1, <3>1 DEF SmallerOf
  <2>3. Starts(w.lens)[w.cur] \in Nat /\ Starts(w.lens)[w.cur] + at = h
    <3>1. w.kind # "validator"
      BY <1>2
    <3> QED BY <1>1, <2>1, <3>1, PlaceTotal
  <2>4. Room(w) = h
    BY <1>1, <2>1, <2>2, <2>3 DEF Room
  <2>5. h < top
    BY <1>2, <2>1
  <2> QED BY <1>2, <2>1, <2>4, <2>5 DEF Enough
<1>5. ShownOK' /\ WrittenOK' /\ EndOK'
  <2>1. eof' = FALSE /\ (Enough(w) => Contents = {})
    BY <1>1, <1>3, <1>4
  <2> QED BY <1>1, <2>1, EndsBadly
<1> QED BY <1>3, <1>5 DEF DecodesInv

\* The copy of an iovec writer is all there.
LEMMA CopyEndDecodes ==
  ASSUME Now, CopyEnd, Steady
  PROVE  DecodesInv'
<1>1. /\ Reader /\ GivenOK /\ ShownOK /\ StateOK /\ Fits(w)
      /\ pc = "copying" /\ copy.len = 0 /\ w' = w /\ given' = given
      /\ Continue(ip + 1 + EntryExtra(Tag))
      /\ UNCHANGED <<status, result>> /\ eof' = eof
      /\ UNCHANGED <<pos, valid, region, limit, peeked, scratch, given>>
  BY DEF Now, DecodesInv, CopyEnd, Steady, lengthVars, tag
<1>2. pc \in Buffering /\ ~eof' /\ pc' \in {"refill", "tag"}
      /\ pc' \in Buffering \ {"called", "length"}
  <2>1. pc' \in {"refill", "tag"}
    BY <1>1 DEF Continue
  <2> QED BY <1>1, <2>1 DEF Buffering, StateOK
<1>3. /\ ip \in Nat /\ limit \in Nat /\ EntryLength(Tag) \in Nat
      /\ EntryExtra(Tag) \in Nat /\ ip + 1 + EntryExtra(Tag) <= limit /\ Here \in Nat
  <2>1. Here \in Nat
    BY <1>1, <1>2, HereIs
  <2> QED BY <1>1, <2>1, AtTag
<1>4. PICK e \in Nat, h \in Nat, i \in Nat, z \in Nat :
        e = EntryExtra(Tag) /\ h = Here /\ i = ip + 1 + e /\ z = h + 1 + e
  BY <1>3
<1>5. ip <= i /\ i <= limit /\ h + (i - ip) = z /\ ip' = i
  <2>1. ip' = i
    BY <1>1, <1>4 DEF Continue
  <2> QED BY <1>3, <1>4, <2>1
<1>6. ShownOK' /\ Here' = z
  BY <1>1, <1>2, <1>4, <1>5, ShownAhead
<1>7. StateOK'
  <2>1. pc \notin {"called", "length", "done", "gone"} /\ pc' \notin {"called", "length", "gone"}
    BY <1>1, <1>2
  <2> QED BY <1>1, <1>2, <2>1, StateGoesOn
<1>8. WrittenOK'
  <2>1. ASSUME Enough(w) PROVE \E n : ReaderAt(n, z, w)
    <3>1. PICK n : MidCopy(n, w, copy)
      BY <1>1, <2>1, AtCopyPart
    <3>2. PICK o, f, l : o = ReaderAfter(n).out /\ f = Offset /\ l = EntryLength(Tag)
      OBVIOUS
    <3>3. Reaches(o, f) /\ Wrote(w, CopyFromSelf(o, f, l - copy.len))
      BY <3>1, <3>2, Zenon DEF MidCopy, CopyPart
    <3>4. l - copy.len = l
      BY <1>1, <1>3, <3>2
    <3>5. Reaches(ReaderAfter(n).out, Offset)
          /\ Wrote(w, CopyFromSelf(ReaderAfter(n).out, Offset, EntryLength(Tag)))
      BY <3>2, <3>3, <3>4, Zenon
    <3>6. n \in 0 .. Len(given.bytes) /\ ReaderAfter(n).at = Here /\ Kind(Tag) # LITERAL
      BY <3>1 DEF MidCopy
    <3>7. ReaderAt(n + 1, Here + 1 + EntryExtra(Tag), w)
      BY <1>1, <3>5, <3>6, CopyDone
    <3> QED BY <1>4, <3>7, Zenon
  <2>2. pc' \in {"called", "length", "refill", "needed", "tag"}
    BY <1>2
  <2> QED BY <1>1, <1>6, <2>1, <2>2, AtNext
<1>9. EndOK'
  BY <1>2, NotEnded
<1> QED BY <1>6, <1>7, <1>8, <1>9 DEF DecodesInv

----------------------------------------------------------------------------
(* Every step *)

\* The steps of RefillTag and of the literals.
LEMMA ReadingDecodes ==
  ASSUME Now, LengthTypeOK, Reading, Steady
  PROVE  DecodesInv'
<1>1. CASE Fetch
  BY <1>1, FetchDecodes
<1>2. CASE NoFetch \/ UseBuffer
  BY <1>2, SameBufferDecodes
<1>3. CASE Stitch
  BY <1>3, StitchDecodes
<1>4. CASE Keep
  BY <1>4, KeepDecodes
<1>5. CASE StitchMore
  BY <1>5, StitchMoreDecodes
<1>6. CASE StitchFails
  BY <1>6, StitchFailsDecodes
<1>7. CASE StitchDone
  BY <1>7, StitchDoneDecodes
<1>8. CASE FastLiteral
  BY <1>8, FastLiteralDecodes
<1>9. CASE SlowLiteral
  BY <1>9, SlowLiteralDecodes
<1>10. CASE LiteralPart
  BY <1>10, LiteralPartDecodes
<1>11. CASE LiteralEnd
  BY <1>11, LiteralEndDecodes
<1>12. CASE LiteralFails
  BY <1>12, LiteralFailsDecodes
<1> QED
  BY <1>1, <1>2, <1>3, <1>4, <1>5, <1>6, <1>7, <1>8, <1>9, <1>10, <1>11, <1>12 DEF Reading

\* The steps of the decompressor.
LEMMA DecompressStepDecodes ==
  ASSUME Now, LengthTypeOK, Decompress, UNCHANGED given
  PROVE  DecodesInv'
<1>1. Steady
  BY DEF Decompress, Steady
<1>2. CASE Reading
  BY <1>1, <1>2, ReadingDecodes
<1>3. CASE Copy
  BY <1>1, <1>3, CopyDecodes
<1>4. CASE CopyFails
  BY <1>1, <1>4, CopyFailsDecodes
<1>5. CASE StartCopy
  BY <1>1, <1>5, StartCopyDecodes
<1>6. CASE StartCopyFails
  BY <1>1, <1>6, StartCopyFailsDecodes
<1>7. CASE CopyAcross
  BY <1>1, <1>7, CopyAcrossDecodes
<1>8. CASE CopyWithin
  BY <1>1, <1>8, CopyWithinDecodes
<1>9. CASE CopyOnward
  BY <1>1, <1>9, CopyOnwardDecodes
<1>10. CASE CopyNoRoom
  BY <1>1, <1>10, CopyNoRoomDecodes
<1>11. CASE CopyEnd
  BY <1>1, <1>11, CopyEndDecodes
<1> QED
  BY <1>2, <1>3, <1>4, <1>5, <1>6, <1>7, <1>8, <1>9, <1>10, <1>11 DEF Decompress

\* Nothing happens.
LEMMA StutterDecodes ==
  ASSUME DecodesInv, UNCHANGED vars
  PROVE  DecodesInv'
<1>1. /\ UNCHANGED <<given, w, copy, answer, pc>> /\ status' = status /\ result' = result
      /\ pos' = pos /\ valid' = valid /\ region' = region /\ ip' = ip /\ limit' = limit
      /\ peeked' = peeked /\ scratch' = scratch /\ nbuf' = nbuf /\ literal' = literal
      /\ eof' = eof
  BY DEF vars, source, tag, lengthVars
<1>2. ShownOK'
  <2>1. Here' = Here /\ \A i : At(i)' = At(i)
    BY <1>1 DEF Here, At, Shown
  <2> QED BY <1>1, <2>1 DEF DecodesInv, ShownOK
<1>3. StateOK'
  BY <1>1 DEF DecodesInv, StateOK
<1>4. \A n : ReaderAfter(n)' = ReaderAfter(n)
  BY <1>1 DEF ReaderAfter
<1>5. WrittenOK'
  <2>1. ElementAt' = ElementAt /\ Here' = Here /\ (Enough(w)' <=> Enough(w))
    BY <1>1 DEF ElementAt, Here, Enough
  <2>2. UNCHANGED <<source, tag, given>>
    BY <1>1 DEF source, tag
  <2>3. Tag' = Tag /\ Offset' = Offset /\ EntryLength(Tag)' = EntryLength(Tag)
    BY <2>2, TagStays
  <2>4. \A t : Wrote(w, t)' <=> Wrote(w, t)
    BY <1>1 DEF Wrote
  <2>5. \A s, r : InLiteral(s, r)' <=> InLiteral(s, r)
    BY <1>1, <2>1, <2>4, Zenon DEF InLiteral
  <2>6. \A out : InCopy(out)' <=> InCopy(out)
    BY <1>1, <2>3, <2>4, Zenon DEF InCopy, Kind
  <2> QED BY <1>1, <1>4, <2>1, <2>4, <2>5, <2>6, Zenon DEF DecodesInv, WrittenOK
<1>6. EndOK'
  <2>1. Contents' = Contents /\ (Enough(w)' <=> Enough(w))
    BY <1>1 DEF Contents, Enough
  <2>2. \A t : Wrote(w, t)' <=> Wrote(w, t)
    BY <1>1 DEF Wrote
  <2> QED BY <1>1, <1>4, <2>1, <2>2, Zenon DEF DecodesInv, EndOK
<1> QED BY <1>2, <1>3, <1>5, <1>6 DEF DecodesInv

\* Every step keeps the invariant.
LEMMA NextDecodes ==
  ASSUME DecompressInv, DecodesInv, [Next]_vars, DecompressInv'
  PROVE  DecodesInv'
<1>1. Reader /\ GivenOK /\ CopyOK /\ WriterOK /\ LengthTypeOK
  BY InvParts DEF DecompressInv, TypeOK
<1>2. Now
  BY <1>1, WriterFits DEF Now
<1>3. CASE UNCHANGED vars
  BY <1>3, StutterDecodes
<1>4. CASE Next
  <2>1. UNCHANGED given
    BY <1>4 DEF Next
  <2>2. CASE Refuse \/ Answer
    BY <2>1, <2>2, GoneDecodes
  <2>3. CASE Start
    BY <2>1, <2>3, StartDecodes
  <2>4. CASE ReadLength
    BY <2>1, <2>4, ReadLengthDecodes
  <2>5. CASE NoLength
    BY <2>1, <2>5, NoLengthDecodes
  <2>6. CASE SetExpectedLength
    BY <2>1, <2>6, SetLengthDecodes
  <2>7. CASE Decompress
    BY <1>1, <1>2, <2>1, <2>7, DecompressStepDecodes
  <2> QED BY <1>4, <2>2, <2>3, <2>4, <2>5, <2>6, <2>7 DEF Next
<1> QED BY <1>3, <1>4

\* No step but Refuse and Answer ends a call.
LEMMA OthersGoOn ==
  ASSUME Next, ~Refuse, ~Answer
  PROVE  pc' # "gone"
<1>1. CASE Start \/ ReadLength \/ NoLength \/ SetExpectedLength
  BY <1>1 DEF Start, ReadLength, NoLength, SetExpectedLength
<1>2. CASE Reading
  <2>1. CASE Fetch \/ NoFetch \/ Stitch \/ Keep \/ UseBuffer
    BY <2>1 DEF Fetch, NoFetch, Stitch, Keep, UseBuffer
  <2>2. CASE StitchMore \/ StitchFails \/ StitchDone
    BY <2>2 DEF StitchMore, StitchFails, StitchDone, Fail
  <2>3. CASE FastLiteral \/ SlowLiteral \/ LiteralPart
    BY <2>3 DEF FastLiteral, SlowLiteral, LiteralPart
  <2>4. CASE LiteralEnd \/ LiteralFails
    BY <2>4 DEF LiteralEnd, LiteralFails, Continue, Fail
  <2> QED BY <1>2, <2>1, <2>2, <2>3, <2>4 DEF Reading
<1>3. CASE Copy \/ CopyFails \/ CopyEnd
  BY <1>3 DEF Copy, CopyFails, CopyEnd, Continue, Fail
<1>4. CASE StartCopy \/ StartCopyFails \/ CopyAcross \/ CopyWithin \/ CopyOnward \/ CopyNoRoom
  BY <1>4 DEF StartCopy, StartCopyFails, CopyAcross, CopyWithin, CopyOnward, CopyNoRoom, Copying, Fail
<1> QED BY <1>1, <1>2, <1>3, <1>4 DEF Next, Decompress

\* Every step keeps the promise of the call.
LEMMA NextKeepsPromise ==
  ASSUME DecompressInv, DecodesInv, DecodesStream, [Next]_vars
  PROVE  DecodesStream'
<1>1. CASE UNCHANGED vars
  <2>1. UNCHANGED <<given, w, answer, pc, pos>> /\ status' = status /\ result' = result
    BY <1>1 DEF vars, source, lengthVars
  <2>2. Contents' = Contents /\ Room(w)' = Room(w) /\ Held(w)' = Held(w)
    <3>1. Contents' = Contents
      BY <2>1 DEF Contents
    <3>2. Held(w)' = Held(w)
      BY <2>1 DEF Held
    <3>3. Room(w)' = Room(w)
      BY <2>1 DEF Room
    <3> QED BY <3>1, <3>2, <3>3
  <2> QED BY <2>1, <2>2 DEF DecodesStream
<1>2. CASE Next
  <2>1. CASE Answer
    <3>1. UNCHANGED given
      BY <1>2 DEF Next
    <3> QED BY <2>1, <3>1, AnswerDecodes
  <2>2. CASE Refuse
    <3>1. status' = "reading"
      BY <2>2 DEF Refuse, DecodesInv, StateOK, lengthVars
    <3> QED BY <3>1 DEF DecodesStream
  <2>3. CASE ~Refuse /\ ~Answer
    <3>1. pc' # "gone"
      BY <1>2, <2>3, OthersGoOn
    <3> QED BY <3>1 DEF DecodesStream
  <2> QED BY <2>1, <2>2, <2>3
<1> QED BY <1>1, <1>2

----------------------------------------------------------------------------
(* What is decompressed is what the stream stands for *)

\* What has been written is what a reader of the stream has put out, after every
\* step of a call, and a call that stops early has met a bad element or more than
\* was announced.
THEOREM DecodesInvCorrect ==
  ASSUME ExactSources
  PROVE  Spec => []DecodesInv
<1>1. Init => DecodesInv
  BY InitDecodes
<1>2. DecompressInv /\ DecompressInv' /\ DecodesInv /\ [Next]_vars => DecodesInv'
  BY NextDecodes
<1> QED BY <1>1, <1>2, DecompressInvCorrect, PTL DEF Spec

\* A call succeeds if and only if the stream stands for contents of the length read
\* and the buffers have room for them; they then hold them.
THEOREM DecodesStreamCorrect ==
  ASSUME ExactSources
  PROVE  Spec => []DecodesStream
<1>1. Init => DecodesStream
  <2>1. Init => pc # "gone"
    BY DEF Init
  <2> QED BY <2>1 DEF DecodesStream
<1>2. DecompressInv /\ DecodesInv /\ DecodesStream /\ [Next]_vars => DecodesStream'
  BY NextKeepsPromise
<1> QED BY <1>1, <1>2, DecompressInvCorrect, DecodesInvCorrect, PTL DEF Spec
=============================================================================
