--------------------------- MODULE OscRelay_proofs ---------------------------
(***************************************************************************)
(* Proofs about OscRelay, for any limit, reports and length of the output. *)
(* The invariant says where in the output the scanner is: within a string  *)
(* that is open at the end of it, just after an ESCAPE, or neither.        *)
(***************************************************************************)
EXTENDS OscRelay, SequenceTheorems, TLAPS

\* A string whose body begins at byte i of s is open after byte m.
Open(s, i, m) ==
    /\ i \in 3..(m + 1) /\ s[i - 2] = "escape" /\ s[i - 1] = "]"
    /\ \A k \in i..m : s[k] \notin Enders

Escaped(s) == Len(s) > 0 /\ s[Len(s)] = "escape"

\* The scanner has kept the bytes i to m of s, or some were too many.
Keeps(sc, s, i, m) ==
    /\ sc.overflowed <=> m - i + 1 > MaxOscBytes
    /\ ~sc.overflowed =>
           /\ Len(sc.body) = m - i + 1
           /\ \A k \in 1..(m - i + 1) : sc.body[k] = s[i + k - 1]

\* sc is the scanner after the output s.
ScannerOf(sc, s) ==
    /\ sc.state \in {"Escape", "OscEscape"} <=> Escaped(s)
    /\ sc.state = "Osc" <=> \E i \in Int : Open(s, i, Len(s))
    /\ sc.state = "OscEscape" <=>
           Escaped(s) /\ \E i \in Int : Open(s, i, Len(s) - 1)
    /\ sc.state = "Osc" =>
           \A i \in Int : Open(s, i, Len(s)) => Keeps(sc, s, i, Len(s))
    /\ sc.state = "OscEscape" =>
           \A i \in Int : Open(s, i, Len(s) - 1) => Keeps(sc, s, i, Len(s) - 1)

Kept(sc) == sc \in Scanners /\ Len(sc.body) <= MaxOscBytes

IInv ==
    /\ TypeOK
    /\ ScannerOf(scanner, stream)
    /\ ended => unread = 0
    /\ ReportsExact

-----------------------------------------------------------------------------
(* The byte classes, and what a further byte changes in what is open *)

LEMMA ByteFacts ==
    /\ "escape" \in Bytes /\ "bell" \in Bytes /\ "cancel" \in Bytes
    /\ "]" \in Bytes \ Enders /\ "\\" \in Bytes \ Enders
    /\ \A x \in Reports : x \in Bytes \ Enders /\ x # "]" /\ x # "\\" /\ x # "clear"
    /\ Enders \subseteq Bytes
    /\ MaxOscBytes \in Nat
BY RelayAssumption DEF Bytes, Enders

\* A further byte does not change what came before it.
LEMMA OpenBefore ==
    ASSUME NEW s \in Seq(Bytes), NEW b \in Bytes, NEW i \in Int,
           NEW m \in Int, m <= Len(s)
    PROVE  Open(Append(s, b), i, m) <=> Open(s, i, m)
<1>1. \A k \in 1..Len(s) : Append(s, b)[k] = s[k]
  BY AppendProperties
<1>2. Len(s) \in Nat
  BY LenProperties
<1>3. i \in 3..(m + 1) => i - 2 \in 1..Len(s) /\ i - 1 \in 1..Len(s)
                          /\ \A k \in i..m : k \in 1..Len(s)
  BY <1>2
<1> QED
  BY <1>1, <1>3 DEF Open

\* An ESCAPE, a terminator or a cancellation closes every string.
LEMMA OpenAfterEnder ==
    ASSUME NEW s \in Seq(Bytes), NEW b \in Enders, NEW i \in Int
    PROVE  ~Open(Append(s, b), i, Len(s) + 1)
<1>1. b \in Bytes /\ b # "]"
  BY ByteFacts
<1>2. Append(s, b)[Len(s) + 1] = b /\ Len(s) \in Nat
  BY <1>1, AppendProperties, LenProperties
<1>3. SUFFICES ASSUME Open(Append(s, b), i, Len(s) + 1)
               PROVE  FALSE
  OBVIOUS
<1>4. CASE i = Len(s) + 2
  BY <1>1, <1>2, <1>3, <1>4 DEF Open
<1>5. CASE i # Len(s) + 2
  <2>1. Len(s) + 1 \in i..(Len(s) + 1)
    BY <1>2, <1>3, <1>5 DEF Open
  <2> QED
    BY <1>2, <1>3, <2>1 DEF Open
<1> QED
  BY <1>4, <1>5

\* Any other byte leaves strings open, and "]" after an ESCAPE opens one.
LEMMA OpenAfterOther ==
    ASSUME NEW s \in Seq(Bytes), NEW b \in Bytes \ Enders, NEW i \in Int
    PROVE  Open(Append(s, b), i, Len(s) + 1)
             <=> \/ Open(s, i, Len(s))
                 \/ i = Len(s) + 2 /\ Escaped(s) /\ b = "]"
<1>1. /\ \A k \in 1..Len(s) : Append(s, b)[k] = s[k]
      /\ Append(s, b)[Len(s) + 1] = b /\ Len(s) \in Nat
  BY AppendProperties, LenProperties
<1>2. CASE i \in 3..(Len(s) + 1)
  <2>1. i - 2 \in 1..Len(s) /\ i - 1 \in 1..Len(s)
    BY <1>1, <1>2
  <2>2. (\A k \in i..(Len(s) + 1) : Append(s, b)[k] \notin Enders)
          <=> (\A k \in i..Len(s) : s[k] \notin Enders)
    <3>1. i..(Len(s) + 1) = (i..Len(s)) \cup {Len(s) + 1}
      BY <1>1, <1>2
    <3>2. \A k \in i..Len(s) : Append(s, b)[k] = s[k]
      BY <1>1, <1>2
    <3> QED
      BY <1>1, <3>1, <3>2
  <2>3. i # Len(s) + 2 /\ i \in 3..((Len(s) + 1) + 1)
    BY <1>1, <1>2
  <2>4. Append(s, b)[i - 2] = s[i - 2] /\ Append(s, b)[i - 1] = s[i - 1]
    BY <1>1, <2>1
  <2>5. Open(Append(s, b), i, Len(s) + 1)
          <=> /\ s[i - 2] = "escape" /\ s[i - 1] = "]"
              /\ \A k \in i..Len(s) : s[k] \notin Enders
    BY <2>2, <2>3, <2>4 DEF Open
  <2> QED
    BY <1>2, <2>3, <2>5 DEF Open
<1>3. CASE i = Len(s) + 2
  <2>1. i - 2 = Len(s) /\ i - 1 = Len(s) + 1 /\ i \notin 3..(Len(s) + 1)
        /\ (i \in 3..((Len(s) + 1) + 1) <=> Len(s) > 0)
        /\ \A k \in i..(Len(s) + 1) : FALSE
    BY <1>1, <1>3
  <2>2. Len(s) > 0 => Append(s, b)[Len(s)] = s[Len(s)]
    BY <1>1
  <2> QED
    BY <1>1, <1>3, <2>1, <2>2 DEF Open, Escaped
<1>4. CASE i \notin 3..(Len(s) + 2)
  BY <1>1, <1>4 DEF Open, Escaped
<1> QED
  BY <1>1, <1>2, <1>3, <1>4

\* No string is open after an ESCAPE.
LEMMA NotOpenEscaped ==
    ASSUME NEW s \in Seq(Bytes), NEW i \in Int, Escaped(s)
    PROVE  ~Open(s, i, Len(s))
<1>1. Len(s) \in Nat /\ s[Len(s)] \in Enders /\ s[Len(s)] # "]"
  BY LenProperties DEF Escaped, Enders
<1>2. CASE i = Len(s) + 1
  <2>1. i - 1 = Len(s)
    BY <1>1, <1>2
  <2> QED
    BY <1>1, <2>1 DEF Open
<1>3. CASE i # Len(s) + 1
  <2>1. i \in 3..(Len(s) + 1) => Len(s) \in i..Len(s)
    BY <1>1, <1>3
  <2> QED
    BY <1>1, <2>1 DEF Open
<1> QED
  BY <1>2, <1>3

LEMMA EscapedAfter ==
    ASSUME NEW s \in Seq(Bytes), NEW b \in Bytes
    PROVE  Escaped(Append(s, b)) <=> b = "escape"
BY AppendProperties, LenProperties DEF Escaped

-----------------------------------------------------------------------------
(* The scanner after a further byte *)

LEMMA PushedTyped ==
    ASSUME NEW sc, Kept(sc), NEW b \in Bytes
    PROVE  Kept(Pushed(sc, b))
<1>1. /\ sc.body \in Seq(Bytes \ Enders) /\ Len(sc.body) <= MaxOscBytes
      /\ sc.state \in ScanStates /\ sc.overflowed \in BOOLEAN
      /\ sc = [state |-> sc.state, body |-> sc.body, overflowed |-> sc.overflowed]
  BY DEF Kept, Scanners
<1>2. \A t \in ScanStates : Kept(Goes(sc, t))
  BY <1>1 DEF Kept, Scanners, Goes
<1>3. Kept(StartOsc(sc)) /\ Kept(FinishOsc(sc))
  <2>1. <<>> \in Seq(Bytes \ Enders) /\ Len(<<>>) = 0 /\ MaxOscBytes \in Nat
    BY ByteFacts, EmptySeq
  <2>2. Kept(StartOsc(sc))
    BY <2>1 DEF Kept, Scanners, StartOsc, ScanStates
  <2>3. Kept(FinishOsc(sc))
    <3> DEFINE new == [sc EXCEPT !.state = "Ground", !.body = <<>>]
    <3>0. /\ new \in [state : ScanStates, body : Seq(Bytes \ Enders), overflowed : BOOLEAN]
          /\ new.body = <<>>
      BY <2>1 DEF Kept, Scanners, ScanStates
    <3>1. Kept(new)
      BY <2>1, <3>0 DEF Kept, Scanners
    <3> QED
      BY <1>2, <3>1 DEF FinishOsc, ScanStates
  <2> QED
    BY <2>2, <2>3
<1>4. ASSUME b \notin Enders
      PROVE  Kept(PushOscByte(sc, b))
  <2>1. CASE Len(sc.body) < MaxOscBytes
    <3>1. Append(sc.body, b) \in Seq(Bytes \ Enders)
          /\ Len(Append(sc.body, b)) = Len(sc.body) + 1
      BY <1>1, <1>4, AppendProperties
    <3> QED
      BY <1>1, <2>1, <3>1, ByteFacts, LenProperties DEF Kept, Scanners, PushOscByte
  <2>2. CASE ~(Len(sc.body) < MaxOscBytes)
    BY <1>1, <2>2 DEF Kept, Scanners, PushOscByte
  <2> QED
    BY <2>1, <2>2
<1> QED
  BY <1>1, <1>2, <1>3, <1>4
     DEF Pushed, ScanEscape, ScanOsc, ScanStates, Kept, Enders

\* A byte that goes into an open string is kept, or marks it as too long.
LEMMA KeepsPushed ==
    ASSUME NEW sc, Kept(sc), NEW s \in Seq(Bytes), NEW b \in Bytes \ Enders,
           NEW i \in 1..(Len(s) + 1), Keeps(sc, s, i, Len(s))
    PROVE  Keeps(PushOscByte(sc, b), Append(s, b), i, Len(s) + 1)
<1>1. /\ \A k \in 1..Len(s) : Append(s, b)[k] = s[k]
      /\ Append(s, b)[Len(s) + 1] = b /\ Len(s) \in Nat
      /\ sc.body \in Seq(Bytes \ Enders) /\ Len(sc.body) \in Nat
      /\ Len(sc.body) <= MaxOscBytes /\ MaxOscBytes \in Nat
      /\ sc.overflowed \in BOOLEAN
      /\ sc = [state |-> sc.state, body |-> sc.body, overflowed |-> sc.overflowed]
  BY AppendProperties, LenProperties, ByteFacts DEF Kept, Scanners
<1>2. CASE sc.overflowed
  <2>1. PushOscByte(sc, b).overflowed
    BY <1>1, <1>2 DEF PushOscByte
  <2> QED
    BY <1>1, <1>2, <2>1 DEF Keeps
<1>3. CASE ~sc.overflowed /\ Len(sc.body) < MaxOscBytes
  <2>1. /\ ~PushOscByte(sc, b).overflowed
        /\ PushOscByte(sc, b).body = Append(sc.body, b)
    BY <1>1, <1>3 DEF PushOscByte
  <2>2. /\ Len(sc.body) = Len(s) - i + 1
        /\ \A k \in 1..(Len(s) - i + 1) : sc.body[k] = s[i + k - 1]
    BY <1>3 DEF Keeps
  <2>3. /\ Len(Append(sc.body, b)) = Len(sc.body) + 1
        /\ \A k \in 1..Len(sc.body) : Append(sc.body, b)[k] = sc.body[k]
        /\ Append(sc.body, b)[Len(sc.body) + 1] = b
    BY <1>1, AppendProperties
  <2>4. ASSUME NEW k \in 1..(Len(s) + 1 - i + 1)
        PROVE  Append(sc.body, b)[k] = Append(s, b)[i + k - 1]
    <3>0. k \in Int /\ 1 <= k /\ k <= Len(s) - i + 2 /\ i \in Int
          /\ Len(s) \in Int /\ Len(sc.body) = Len(s) - i + 1
      BY <1>1, <2>2
    <3>1. CASE k <= Len(sc.body)
      <4>1. k \in 1..Len(sc.body) /\ k \in 1..(Len(s) - i + 1)
            /\ i + k - 1 \in 1..Len(s)
        BY <1>1, <2>2, <3>1
      <4> QED
        BY <1>1, <2>2, <2>3, <4>1
    <3>2. CASE k > Len(sc.body)
      <4>1. k = Len(sc.body) + 1 /\ i + k - 1 = Len(s) + 1
        BY <3>0, <3>2
      <4> QED
        BY <1>1, <2>3, <4>1
    <3> QED
      BY <3>0, <3>1, <3>2
  <2>5. Len(Append(sc.body, b)) = Len(s) + 1 - i + 1 /\ ~(Len(s) + 1 - i + 1 > MaxOscBytes)
    <3>1. i \in Int /\ Len(sc.body) + 1 = Len(s) + 1 - i + 1
      BY <1>1, <2>2
    <3>2. ~(Len(sc.body) + 1 > MaxOscBytes)
      BY <1>1, <1>3
    <3> QED
      BY <2>3, <3>1, <3>2
  <2> DEFINE new == PushOscByte(sc, b)
             t == Append(s, b)
             m == Len(s) + 1
  <2>6. /\ new.overflowed <=> m - i + 1 > MaxOscBytes
        /\ Len(new.body) = m - i + 1
        /\ \A k \in 1..(m - i + 1) : new.body[k] = t[i + k - 1]
    BY <2>1, <2>4, <2>5
  <2> HIDE DEF new, t, m
  <2>7. Keeps(new, t, i, m)
    BY <2>6 DEF Keeps
  <2> QED
    BY <2>7 DEF new, t, m
<1>4. CASE ~sc.overflowed /\ ~(Len(sc.body) < MaxOscBytes)
  <2>1. PushOscByte(sc, b).overflowed
    BY <1>1, <1>4 DEF PushOscByte
  <2>2. Len(sc.body) = Len(s) - i + 1
    BY <1>4 DEF Keeps
  <2> QED
    BY <1>1, <1>4, <2>1, <2>2 DEF Keeps
<1> QED
  BY <1>2, <1>3, <1>4

\* What was kept stays so when a byte closes the string.
LEMMA KeepsBefore ==
    ASSUME NEW sc, NEW new, new.body = sc.body, new.overflowed = sc.overflowed,
           NEW s \in Seq(Bytes), NEW b \in Bytes,
           NEW i \in Nat \ {0}, Keeps(sc, s, i, Len(s))
    PROVE  Keeps(new, Append(s, b), i, Len(s))
<1>1. (\A k \in 1..Len(s) : Append(s, b)[k] = s[k]) /\ Len(s) \in Nat
  BY AppendProperties, LenProperties
<1>2. \A k \in 1..(Len(s) - i + 1) : i + k - 1 \in 1..Len(s)
  BY <1>1
<1> QED
  BY <1>1, <1>2 DEF Keeps

\* The scanner goes on to be where the output is.
LEMMA PushedScanner ==
    ASSUME NEW sc, Kept(sc), NEW s \in Seq(Bytes), NEW b \in Bytes, ScannerOf(sc, s)
    PROVE  ScannerOf(Pushed(sc, b), Append(s, b))
<1> DEFINE t == Append(s, b)
           new == Pushed(sc, b)
<1>1. Len(t) = Len(s) + 1 /\ Len(t) - 1 = Len(s) /\ Len(s) \in Nat
  BY AppendProperties, LenProperties
<1>2. Escaped(t) <=> b = "escape"
  BY EscapedAfter
<1>3. sc.state \in ScanStates /\ sc \in Scanners
  BY DEF Kept, Scanners
<1>4. \A i \in Int : Open(t, i, Len(s)) <=> Open(s, i, Len(s))
  BY <1>1, OpenBefore
<1>5. CASE b = "escape"
  <2>1. \A i \in Int : ~Open(t, i, Len(s) + 1)
    BY <1>5, OpenAfterEnder DEF Enders
  <2>2. /\ new.state = IF sc.state = "Osc" THEN "OscEscape" ELSE "Escape"
        /\ new.body = sc.body /\ new.overflowed = sc.overflowed
    BY <1>3, <1>5 DEF Pushed, ScanEscape, ScanOsc, Goes, ScanStates, Scanners
  <2>3. ASSUME sc.state = "Osc", NEW i \in Int, Open(t, i, Len(s))
        PROVE  Keeps(new, t, i, Len(s))
    <3>1. Open(s, i, Len(s)) /\ Keeps(sc, s, i, Len(s))
      BY <1>4, <2>3 DEF ScannerOf
    <3>2. i \in Nat \ {0}
      BY <1>1, <3>1 DEF Open
    <3> QED
      BY <2>2, <3>1, <3>2, KeepsBefore
  <2>4. new.state \in {"Escape", "OscEscape"} /\ new.state # "Osc"
    BY <2>2
  <2>5. new.state = "OscEscape" <=> \E i \in Int : Open(t, i, Len(s))
    BY <1>4, <2>2 DEF ScannerOf
  <2>6. new.state = "OscEscape" => sc.state = "Osc"
    BY <2>2
  <2> QED
    BY <1>1, <1>2, <1>5, <2>1, <2>3, <2>4, <2>5, <2>6 DEF ScannerOf
<1>6. CASE b \in {"bell", "cancel"}
  <2>1. \A i \in Int : ~Open(t, i, Len(s) + 1)
    BY <1>6, OpenAfterEnder DEF Enders
  <2>2. new.state = "Ground"
    BY <1>3, <1>6 DEF Pushed, ScanEscape, ScanOsc, FinishOsc, Goes, ScanStates, Scanners
  <2> QED
    BY <1>1, <1>2, <1>6, <2>1, <2>2 DEF ScannerOf
<1>7. CASE b \notin Enders /\ Escaped(s)
  <2>1. sc.state \in {"Escape", "OscEscape"}
    BY <1>7 DEF ScannerOf
  <2>2. \A i \in Int : Open(t, i, Len(s) + 1) <=> i = Len(s) + 2 /\ b = "]"
    BY <1>7, OpenAfterOther, NotOpenEscaped
  <2>3. b # "escape" /\ ~Escaped(t)
    BY <1>2, <1>7 DEF Enders
  <2>4. CASE b = "]"
    <3>1. new = StartOsc(sc)
      BY <2>1, <2>4 DEF Pushed, ScanEscape
    <3>2. new.state = "Osc" /\ new.body = <<>> /\ ~new.overflowed
      BY <3>1 DEF StartOsc
    <3>3. Keeps(new, t, Len(s) + 2, Len(s) + 1)
      <4>1. (Len(s) + 1) - (Len(s) + 2) + 1 = 0 /\ ~(0 > MaxOscBytes) /\ 1..0 = {}
        BY <1>1, ByteFacts
      <4> QED
        BY <3>2, <4>1, EmptySeq DEF Keeps
    <3>4. Len(s) + 2 \in Int
      BY <1>1
    <3> QED
      BY <1>1, <2>2, <2>3, <2>4, <3>2, <3>3, <3>4 DEF ScannerOf
  <2>5. CASE b # "]"
    <3>1. new.state = "Ground"
      BY <1>3, <2>1, <2>3, <2>5
         DEF Pushed, ScanEscape, FinishOsc, Goes, ScanStates, Scanners
    <3> QED
      BY <1>1, <2>2, <2>3, <2>5, <3>1 DEF ScannerOf
  <2> QED
    BY <2>4, <2>5
<1>8. CASE b \notin Enders /\ ~Escaped(s)
  <2>1. sc.state \in {"Ground", "Osc"}
    BY <1>3, <1>8 DEF ScannerOf, ScanStates
  <2>2. \A i \in Int : Open(t, i, Len(s) + 1) <=> Open(s, i, Len(s))
    BY <1>8, OpenAfterOther
  <2>3. b # "escape" /\ ~Escaped(t)
    BY <1>2, <1>8 DEF Enders
  <2>4. CASE sc.state = "Ground"
    <3>1. new.state = "Ground"
      BY <2>3, <2>4 DEF Pushed
    <3> QED
      BY <1>1, <2>2, <2>3, <2>4, <3>1 DEF ScannerOf
  <2>5. CASE sc.state = "Osc"
    <3>1. new = PushOscByte(sc, b)
      BY <1>8, <2>5 DEF Pushed, ScanOsc, Enders
    <3>2. new.state = "Osc"
      BY <1>3, <2>5, <3>1 DEF PushOscByte, Scanners
    <3>3. ASSUME NEW i \in Int, Open(s, i, Len(s))
          PROVE  Keeps(new, t, i, Len(s) + 1)
      <4>1. Keeps(sc, s, i, Len(s))
        BY <2>5, <3>3 DEF ScannerOf
      <4>2. i \in 1..(Len(s) + 1)
        BY <1>1, <3>3 DEF Open
      <4> QED
        BY <1>8, <3>1, <4>1, <4>2, KeepsPushed
    <3>4. \E i \in Int : Open(s, i, Len(s))
      BY <2>5 DEF ScannerOf
    <3> QED
      BY <1>1, <2>2, <2>3, <3>2, <3>3, <3>4 DEF ScannerOf
  <2> QED
    BY <2>1, <2>4, <2>5
<1> QED
  BY <1>5, <1>6, <1>7, <1>8 DEF Enders

-----------------------------------------------------------------------------
(* The reports an output contains *)

\* Byte e of s completes a report of x.
Ends(s, e, x) ==
    \E i \in 3..e :
        /\ IsOscString(s, i, e)
        /\ BodyEnd(s, e) - i + 1 <= MaxOscBytes
        /\ SubSeq(s, i, BodyEnd(s, e)) = <<x>>

LEMMA OneByte ==
    ASSUME NEW S, NEW body \in Seq(S), NEW x \in S
    PROVE  body = <<x>> <=> Len(body) = 1 /\ body[1] = x
<1>1. <<x>> \in Seq(S) /\ Len(<<x>>) = 1 /\ <<x>>[1] = x
  OBVIOUS
<1>2. ASSUME Len(body) = 1, body[1] = x
      PROVE  body = <<x>>
  <2>1. \A i \in 1..Len(body) : body[i] = <<x>>[i]
    BY <1>1, <1>2
  <2> QED
    BY <1>1, <1>2, <2>1, SeqEqual
<1> QED
  BY <1>1, <1>2

\* A report is one byte, between "]" and the terminator.
LEMMA EndsSimple ==
    ASSUME NEW s \in Seq(Bytes), NEW e \in 1..Len(s), NEW x \in Reports
    PROVE  Ends(s, e, x) <=>
             \E i \in 3..e : /\ IsOscString(s, i, e) /\ BodyEnd(s, e) = i
                            /\ s[i] = x /\ 1 <= MaxOscBytes
<1>1. /\ Len(s) \in Nat /\ MaxOscBytes \in Nat /\ x \in Bytes
      /\ \A k \in 1..Len(s) : s[k] \in Bytes
      /\ BodyEnd(s, e) \in Int /\ BodyEnd(s, e) <= e
  BY LenProperties, ByteFacts, ElementOfSeq DEF BodyEnd
<1>2. ASSUME NEW i \in 3..e
      PROVE  BodyEnd(s, e) - i + 1 <= MaxOscBytes /\ SubSeq(s, i, BodyEnd(s, e)) = <<x>>
               <=> BodyEnd(s, e) = i /\ s[i] = x /\ 1 <= MaxOscBytes
  <2> DEFINE j == BodyEnd(s, e)
             body == SubSeq(s, i, j)
  <2>1. \A k \in i..j : k \in 1..Len(s)
    BY <1>1
  <2>2. \A k \in i..j : s[k] \in Bytes
    BY <1>1, <2>1
  <2>3. /\ body \in Seq(Bytes)
        /\ Len(body) = IF i <= j THEN j - i + 1 ELSE 0
        /\ \A k \in 1..(j - i + 1) : body[k] = s[i + k - 1]
    <3> HIDE DEF j
    <3> QED
      BY <1>1, <2>2, SubSeqProperties DEF j
  <2> HIDE DEF body
  <2>4. body = <<x>> <=> Len(body) = 1 /\ body[1] = x
    <3>1. body \in Seq(Bytes) /\ x \in Bytes
      BY <1>1, <2>3
    <3> QED
      BY <3>1, OneByte
  <2>5. Len(body) = 1 <=> j = i
    BY <1>1, <2>3
  <2>6. j = i => body[1] = s[i] /\ j - i + 1 = 1
    BY <1>1, <2>3
  <2> HIDE DEF j
  <2>7. j - i + 1 <= MaxOscBytes /\ body = <<x>>
          <=> j = i /\ s[i] = x /\ 1 <= MaxOscBytes
    BY <2>4, <2>5, <2>6
  <2> QED
    BY <2>7 DEF j, body
<1> QED
  BY <1>2 DEF Ends

\* A further byte changes no report that was complete before.
LEMMA EndsBefore ==
    ASSUME NEW s \in Seq(Bytes), NEW b \in Bytes, NEW e \in 1..Len(s), NEW x \in Reports
    PROVE  Ends(Append(s, b), e, x) <=> Ends(s, e, x)
<1> DEFINE t == Append(s, b)
<1>1. /\ \A k \in 1..Len(s) : t[k] = s[k]
      /\ Len(s) \in Nat /\ t \in Seq(Bytes) /\ e \in 1..Len(t) /\ Len(t) = Len(s) + 1
  BY AppendProperties, LenProperties
<1>2. ASSUME NEW i \in 3..e
      PROVE  /\ IsOscString(t, i, e) <=> IsOscString(s, i, e)
             /\ BodyEnd(t, e) = BodyEnd(s, e) /\ t[i] = s[i]
  <2>1. /\ i - 2 \in 1..Len(s) /\ i - 1 \in 1..Len(s) /\ i \in 1..Len(s)
        /\ e - 1 \in 1..Len(s)
        /\ \A k \in i..(e - 1) : k \in 1..Len(s)
        /\ \A k \in i..(e - 2) : k \in 1..Len(s)
    BY <1>1
  <2> HIDE DEF t
  <2> QED
    BY <1>1, <2>1 DEF IsOscString, BodyEnd
<1>3. Ends(t, e, x) <=>
        \E i \in 3..e : /\ IsOscString(t, i, e) /\ BodyEnd(t, e) = i
                       /\ t[i] = x /\ 1 <= MaxOscBytes
  BY <1>1, EndsSimple
<1> HIDE DEF t
<1>4. Ends(s, e, x) <=>
        \E i \in 3..e : /\ IsOscString(s, i, e) /\ BodyEnd(s, e) = i
                       /\ s[i] = x /\ 1 <= MaxOscBytes
  BY EndsSimple
<1>5. Ends(t, e, x) <=> Ends(s, e, x)
  BY <1>2, <1>3, <1>4
<1> QED
  BY <1>5 DEF t

\* A string that was kept is the report it reads as.
LEMMA KeptReport ==
    ASSUME NEW sc, Kept(sc), NEW s, NEW i \in Int, NEW m \in Int, Keeps(sc, s, i, m),
           NEW x \in Reports
    PROVE  ~sc.overflowed /\ sc.body = <<x>> <=> m = i /\ s[i] = x /\ 1 <= MaxOscBytes
<1>1. /\ sc.body \in Seq(Bytes) /\ Len(sc.body) \in Nat /\ x \in Bytes
      /\ sc.overflowed \in BOOLEAN /\ MaxOscBytes \in Nat
  <2>1. sc.body \in Seq(Bytes \ Enders) /\ Bytes \ Enders \subseteq Bytes
    BY DEF Kept, Scanners
  <2>2. sc.body \in Seq(Bytes)
    BY <2>1, SeqMonotonic
  <2> QED
    BY <2>2, LenProperties, ByteFacts DEF Kept, Scanners
<1>2. sc.body = <<x>> <=> Len(sc.body) = 1 /\ sc.body[1] = x
  <2> DEFINE body == sc.body
  <2>1. body \in Seq(Bytes) /\ x \in Bytes
    BY <1>1
  <2> HIDE DEF body
  <2>2. body = <<x>> <=> Len(body) = 1 /\ body[1] = x
    BY <2>1, OneByte
  <2> QED
    BY <2>2 DEF body
<1>3. sc.overflowed <=> m - i + 1 > MaxOscBytes
  BY DEF Keeps
<1>4. ~sc.overflowed => /\ Len(sc.body) = m - i + 1
                        /\ m = i => sc.body[1] = s[i]
  <2>1. m = i => 1 \in 1..(m - i + 1) /\ i + 1 - 1 = i
    OBVIOUS
  <2> QED
    BY <2>1 DEF Keeps
<1>5. Len(sc.body) = m - i + 1 => (Len(sc.body) = 1 <=> m = i)
  BY <1>1
<1>6. m = i => (m - i + 1 > MaxOscBytes <=> ~(1 <= MaxOscBytes))
  BY <1>1
<1> QED
  BY <1>2, <1>3, <1>4, <1>5, <1>6

\* The byte that is scanned completes the report that is sent for it.
LEMMA EndsNow ==
    ASSUME NEW sc, Kept(sc), NEW s \in Seq(Bytes), NEW b \in Bytes, ScannerOf(sc, s),
           NEW x \in Reports
    PROVE  Ends(Append(s, b), Len(s) + 1, x)
             <=> Finishes(sc, b) /\ x \in Reported(sc.body)
<1> DEFINE t == Append(s, b)
           n == Len(s)
<1>1. /\ \A k \in 1..n : t[k] = s[k]
      /\ t[n + 1] = b /\ n \in Nat /\ t \in Seq(Bytes) /\ Len(t) = n + 1
      /\ n + 1 \in 1..Len(t)
  BY AppendProperties, LenProperties
<1>2. \A i \in Int : /\ Open(t, i, n) <=> Open(s, i, n)
                     /\ Open(t, i, n - 1) <=> Open(s, i, n - 1)
  BY <1>1, OpenBefore
<1>3. Ends(t, n + 1, x) <=>
        \E i \in 3..(n + 1) : /\ IsOscString(t, i, n + 1) /\ BodyEnd(t, n + 1) = i
                             /\ t[i] = x /\ 1 <= MaxOscBytes
  BY <1>1, EndsSimple
<1>4. Finishes(sc, b) /\ x \in Reported(sc.body)
        <=> /\ ~sc.overflowed /\ sc.body = <<x>>
            /\ \/ sc.state = "Osc" /\ b = "bell"
               \/ sc.state = "OscEscape" /\ b = "\\"
  BY DEF Finishes, Reported
<1>5. (n + 1) - 1 = n /\ (n + 1) - 2 = n - 1 /\ n - 1 \in Int
  BY <1>1
<1> HIDE DEF t, n
<1>6. CASE b = "bell"
  <2>1. \A i \in 3..(n + 1) : IsOscString(t, i, n + 1) <=> Open(s, i, n)
    BY <1>1, <1>2, <1>5, <1>6 DEF IsOscString, Open
  <2>2. BodyEnd(t, n + 1) = n
    BY <1>1, <1>5, <1>6 DEF BodyEnd
  <2>3. \A i \in Int : Open(s, i, n) => i \in 3..(n + 1)
    BY DEF Open
  <2>4. Ends(t, n + 1, x) <=>
          \E i \in Int : Open(s, i, n) /\ n = i /\ s[i] = x /\ 1 <= MaxOscBytes
    <3>1. \A i \in 3..(n + 1) : n = i => t[i] = s[i]
      BY <1>1
    <3> QED
      BY <1>3, <2>1, <2>2, <2>3, <3>1
  <2>5. ASSUME sc.state = "Osc", NEW i \in Int, Open(s, i, n)
        PROVE  ~sc.overflowed /\ sc.body = <<x>>
                 <=> n = i /\ s[i] = x /\ 1 <= MaxOscBytes
    <3>1. Keeps(sc, s, i, n)
      BY <2>5 DEF ScannerOf, n
    <3> QED
      BY <1>1, <3>1, KeptReport
  <2>6. sc.state = "Osc" <=> \E i \in Int : Open(s, i, n)
    BY DEF ScannerOf, n
  <2>7. Ends(t, n + 1, x) <=> Finishes(sc, b) /\ x \in Reported(sc.body)
    BY <1>4, <1>6, <2>4, <2>5, <2>6
  <2> QED
    BY <2>7 DEF t, n
<1>7. CASE b = "\\"
  <2>1. \A i \in 3..(n + 1) :
            IsOscString(t, i, n + 1) <=> Escaped(s) /\ Open(s, i, n - 1)
    <3>1. ASSUME NEW i \in 3..(n + 1)
          PROVE  IsOscString(t, i, n + 1) <=> Escaped(s) /\ Open(s, i, n - 1)
      <4>1. IsOscString(t, i, n + 1)
              <=> /\ i \in 3..(n + 1) /\ t[i - 2] = "escape" /\ t[i - 1] = "]"
                  /\ i < n + 1 /\ t[n] = "escape"
                  /\ \A k \in i..(n - 1) : t[k] \notin Enders
        BY <1>1, <1>5, <1>7 DEF IsOscString
      <4>2. i < n + 1 <=> i \in 3..((n - 1) + 1)
        BY <1>1
      <4>3. IsOscString(t, i, n + 1) <=> t[n] = "escape" /\ Open(t, i, n - 1)
        BY <4>1, <4>2 DEF Open
      <4>4. i < n + 1 => n > 0 /\ t[n] = s[n]
        BY <1>1
      <4>5. Open(s, i, n - 1) => i < n + 1
        BY <1>1 DEF Open
      <4> QED
        BY <1>2, <4>1, <4>3, <4>4, <4>5 DEF Escaped, n
    <3> QED
      BY <3>1
  <2>2. BodyEnd(t, n + 1) = n - 1
    BY <1>1, <1>5, <1>7 DEF BodyEnd
  <2>3. \A i \in Int : Open(s, i, n - 1) => i \in 3..(n + 1)
    BY <1>1 DEF Open
  <2>4. Ends(t, n + 1, x) <=>
          \E i \in Int : /\ Escaped(s) /\ Open(s, i, n - 1)
                         /\ n - 1 = i /\ s[i] = x /\ 1 <= MaxOscBytes
    <3>1. \A i \in 3..(n + 1) : n - 1 = i => t[i] = s[i]
      BY <1>1
    <3> QED
      BY <1>3, <2>1, <2>2, <2>3, <3>1
  <2>5. ASSUME sc.state = "OscEscape", NEW i \in Int, Open(s, i, n - 1)
        PROVE  ~sc.overflowed /\ sc.body = <<x>>
                 <=> n - 1 = i /\ s[i] = x /\ 1 <= MaxOscBytes
    <3>1. Keeps(sc, s, i, n - 1)
      BY <2>5 DEF ScannerOf, n
    <3> QED
      BY <1>5, <3>1, KeptReport
  <2>6. sc.state = "OscEscape" <=> Escaped(s) /\ \E i \in Int : Open(s, i, n - 1)
    BY DEF ScannerOf, n
  <2>7. Ends(t, n + 1, x) <=> Finishes(sc, b) /\ x \in Reported(sc.body)
    BY <1>4, <1>7, <2>4, <2>5, <2>6
  <2> QED
    BY <2>7 DEF t, n
<1>8. CASE b # "bell" /\ b # "\\"
  <2>1. ~Ends(t, n + 1, x)
    BY <1>1, <1>3, <1>8 DEF IsOscString
  <2> QED
    BY <1>4, <1>8, <2>1 DEF t, n
<1> QED
  BY <1>6, <1>7, <1>8

LEMMA ContainedEnds ==
    ASSUME NEW s
    PROVE  Contained(s) = {m \in [at : 1..Len(s), state : Reports] : Ends(s, m.at, m.state)}
BY DEF Contained, Ends

\* A further byte adds to the reports of an output the one it completes.
LEMMA ContainedAfter ==
    ASSUME NEW sc, Kept(sc), NEW s \in Seq(Bytes), NEW b \in Bytes, ScannerOf(sc, s)
    PROVE  Contained(Append(s, b)) =
             Contained(s) \cup (IF Finishes(sc, b)
                               THEN [at : {Len(s) + 1}, state : Reported(sc.body)]
                               ELSE {})
<1> DEFINE t == Append(s, b)
           now == IF Finishes(sc, b)
                  THEN [at : {Len(s) + 1}, state : Reported(sc.body)] ELSE {}
<1>1. Len(t) = Len(s) + 1 /\ Len(s) \in Nat
  BY AppendProperties, LenProperties
<1>2. \A e \in 1..Len(s), x \in Reports : Ends(t, e, x) <=> Ends(s, e, x)
  BY EndsBefore
<1>3. \A x \in Reports :
        Ends(t, Len(s) + 1, x) <=> Finishes(sc, b) /\ x \in Reported(sc.body)
  BY EndsNow
<1>4. Reported(sc.body) \subseteq Reports
  BY DEF Reported
<1>5. \A e : e \in 1..Len(t) <=> e \in 1..Len(s) \/ e = Len(s) + 1
  BY <1>1
<1>6. Len(s) + 1 \notin 1..Len(s)
  BY <1>1
<1> HIDE DEF t
<1>7. ASSUME NEW e, NEW x
      PROVE  [at |-> e, state |-> x] \in Contained(t)
               <=> [at |-> e, state |-> x] \in Contained(s) \cup now
  <2>1. [at |-> e, state |-> x] \in Contained(t)
          <=> e \in 1..Len(t) /\ x \in Reports /\ Ends(t, e, x)
    BY ContainedEnds
  <2>2. [at |-> e, state |-> x] \in Contained(s)
          <=> e \in 1..Len(s) /\ x \in Reports /\ Ends(s, e, x)
    BY ContainedEnds
  <2>3. [at |-> e, state |-> x] \in now
          <=> Finishes(sc, b) /\ e = Len(s) + 1 /\ x \in Reported(sc.body)
    OBVIOUS
  <2> QED
    BY <1>2, <1>3, <1>4, <1>5, <1>6, <2>1, <2>2, <2>3
<1>8. ASSUME NEW m
      PROVE  m \in Contained(t) \/ m \in Contained(s) \cup now
               => m = [at |-> m.at, state |-> m.state]
  BY DEF Contained
<1>9. Contained(t) = Contained(s) \cup now
  <2> HIDE DEF now
  <2>1. ASSUME NEW m
        PROVE  m \in Contained(t) <=> m \in Contained(s) \cup now
    <3>1. [at |-> m.at, state |-> m.state] \in Contained(t)
            <=> [at |-> m.at, state |-> m.state] \in Contained(s) \cup now
      BY <1>7
    <3>2. m \in Contained(t) \/ m \in Contained(s) \cup now
            => m = [at |-> m.at, state |-> m.state]
      BY <1>8
    <3> QED
      BY <3>1, <3>2, Zenon
  <2> QED
    BY <2>1
<1> QED
  BY <1>9 DEF t

-----------------------------------------------------------------------------
(* The relay *)

LEMMA InitIInv == Init => IInv
<1> SUFFICES ASSUME Init
             PROVE  IInv
  OBVIOUS
<1>1. stream = <<>> /\ Len(stream) = 0 /\ stream \in Seq(Bytes)
  BY EmptySeq DEF Init
<1>2. scanner \in Scanners /\ Len(scanner.body) = 0 /\ scanner.state = "Ground"
  BY EmptySeq DEF Init, NewScanner, Scanners, ScanStates
<1>3. TypeOK
  <2>1. unread = 0 /\ ended = FALSE /\ sent = {}
    BY DEF Init
  <2>2. 0 \in 0..MaxRead /\ 0 <= MaxOscBytes
    BY RelayAssumption
  <2> QED
    BY <1>1, <1>2, <2>1, <2>2 DEF TypeOK
<1>4. ScannerOf(scanner, stream)
  <2>1. ~Escaped(stream)
    BY <1>1 DEF Escaped
  <2>2. \A i \in Int : ~Open(stream, i, Len(stream))
    BY <1>1 DEF Open
  <2> QED
    BY <1>2, <2>1, <2>2 DEF ScannerOf
<1>5. ReportsExact
  BY <1>1 DEF Init, ReportsExact, Contained
<1> QED
  BY <1>3, <1>4, <1>5 DEF IInv, Init

LEMMA NextIInv == IInv /\ [Next]_vars => IInv'
<1> SUFFICES ASSUME IInv, [Next]_vars
             PROVE  IInv'
  OBVIOUS
<1> USE DEF IInv
<1>1. CASE Read
  <2>1. TypeOK'
    BY <1>1, RelayAssumption DEF Read, TypeOK
  <2> QED
    BY <1>1, <2>1 DEF Read, ReportsExact
<1>2. ASSUME NEW b \in Bytes, Push(b)
      PROVE  IInv'
  <2>1. Kept(scanner) /\ stream \in Seq(Bytes) /\ ScannerOf(scanner, stream)
    BY DEF TypeOK, Kept
  <2>2. stream' = Append(stream, b) /\ scanner' = Pushed(scanner, b)
    BY <1>2 DEF Push
  <2>3. ~ended /\ ~ended' /\ unread' \in 0..MaxRead
    BY <1>2, RelayAssumption DEF Push, TypeOK
  <2>4. ScannerOf(scanner, stream)'
    BY <2>1, <2>2, PushedScanner
  <2>5. ReportsExact'
    <3>1. sent = Contained(stream)
      BY <2>3 DEF ReportsExact
    <3>2. sent' = sent \cup (IF Finishes(scanner, b)
                             THEN [at : {Len(stream) + 1}, state : Reported(scanner.body)]
                             ELSE {})
      BY <1>2 DEF Push
    <3>3. sent' = Contained(stream')
      BY <2>1, <2>2, <3>1, <3>2, ContainedAfter
    <3> QED
      BY <2>3, <3>3 DEF ReportsExact
  <2>6. TypeOK'
    <3>1. stream' \in Seq(Bytes) /\ Len(stream) \in Nat
      BY <2>1, <2>2, AppendProperties, LenProperties
    <3>2. Kept(scanner')
      BY <2>1, <2>2, PushedTyped
    <3>3. sent' \subseteq [at : Nat, state : States]
      BY <1>2, <3>1 DEF Push, TypeOK, Reported, States
    <3> QED
      <4>1. ended' \in BOOLEAN
        BY <1>2 DEF Push, TypeOK
      <4> QED
        BY <2>3, <3>1, <3>2, <3>3, <4>1 DEF TypeOK, Kept
  <2> QED
    BY <2>3, <2>4, <2>5, <2>6
<1>3. CASE Withdraw
  <2>1. stream \in Seq(Bytes) /\ Len(stream) \in Nat
    BY LenProperties DEF TypeOK
  <2>2. TypeOK'
    BY <1>3, <2>1 DEF Withdraw, TypeOK, States
  <2>3. ReportsExact'
    <3>1. sent = Contained(stream)
      BY <1>3 DEF Withdraw, ReportsExact
    <3>2. [at : {Len(stream) + 1}, state : {"clear"}]
            = {[at |-> Len(stream) + 1, state |-> "clear"]}
      <4> DEFINE n == Len(stream) + 1
      <4>1. \A m \in [at : {n}, state : {"clear"}] : m = [at |-> n, state |-> "clear"]
        OBVIOUS
      <4>2. [at |-> n, state |-> "clear"] \in [at : {n}, state : {"clear"}]
        OBVIOUS
      <4> QED
        BY <4>1, <4>2
    <3> QED
      BY <1>3, <3>1, <3>2 DEF Withdraw, ReportsExact
  <2> QED
    BY <1>3, <2>2, <2>3 DEF Withdraw
<1>4. CASE UNCHANGED vars
  BY <1>4 DEF vars, TypeOK, ReportsExact
<1> QED
  BY <1>1, <1>2, <1>3, <1>4 DEF Next

\* Every reachable state is well typed; in particular the scanner never keeps
\* more than MAX_OSC_BYTES.
THEOREM TypeCorrect == Spec => []TypeOK
<1>1. IInv => TypeOK
  BY DEF IInv
<1> QED
  BY <1>1, InitIInv, NextIInv, PTL DEF Spec

\* The relay sends exactly the reports its input contains (forward_reports), and
\* after them the withdrawal (relay), for any output, limit and size of reads.
THEOREM ExactReports == Spec => []ReportsExact
<1>1. IInv => ReportsExact
  BY DEF IInv
<1> QED
  BY <1>1, InitIInv, NextIInv, PTL DEF Spec
=============================================================================
