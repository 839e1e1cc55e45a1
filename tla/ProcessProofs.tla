---------------------------- MODULE ProcessProofs ----------------------------
(***************************************************************************)
(* Proofs about the parts of Workspace that the shell serves while the     *)
(* user goes on: tunnels and transfers, and who can still reach their      *)
(* processes; the commands that wait for the shell; the forms of the host  *)
(* editor and the installation of a key. Then what holds of all parts      *)
(* together: their types, and that the latest choice counts.               *)
(***************************************************************************)
EXTENDS WorkspaceProofs, FunctionTheorems, WellFoundedInduction

------------------------------------------------------------------------------
(* The commands that wait for the main thread of the shell                 *)

(* Of a message in a sequence: it is there, once only, before another.     *)
Has(s, m) == \E i \in DOMAIN s : s[i] = m
Once(s, m) == \A i, j \in DOMAIN s : s[i] = m /\ s[j] = m => i = j
Before(s, m, n) == \A i, j \in DOMAIN s : s[i] = m /\ s[j] = n => i < j

(* What a sequence says of the messages m and n is said by another.        *)
Same(s, t, m, n) ==
  /\ Has(t, m) <=> Has(s, m)
  /\ Has(t, n) <=> Has(s, n)
  /\ Once(s, m) => Once(t, m)
  /\ Before(s, m, n) => Before(t, m, n)

LEMMA SameStill == \A s, m, n : Same(s, s, m, n)
BY DEF Same

LEMMA SameTwice ==
  ASSUME NEW s, NEW t, NEW u, NEW m, NEW n, Same(s, t, m, n), Same(t, u, m, n)
  PROVE  Same(s, u, m, n)
BY DEF Same

LEMMA LastSent ==
  ASSUME NEW S, NEW s \in Seq(S), NEW f \in S
  PROVE  /\ Append(s, f) \in Seq(S)
         /\ \A m : Has(Append(s, f), m) <=> Has(s, m) \/ m = f
         /\ \A m : (~Has(s, m) \/ (m # f /\ Once(s, m))) => Once(Append(s, f), m)
         /\ \A m, n : m # f /\ Before(s, m, n) => Before(Append(s, f), m, n)
         /\ \A m, n : ~Has(s, n) /\ n # f => Before(Append(s, f), m, n)
<1> DEFINE t == Append(s, f)
<1> DEFINE l == Len(s)
<1>1. l \in Nat /\ DOMAIN s = 1 .. l
  OBVIOUS
<1>2. t \in Seq(S) /\ DOMAIN t = 1 .. l + 1
  OBVIOUS
<1>3. t[l + 1] = f /\ \A j \in 1 .. l : t[j] = s[j]
  OBVIOUS
<1> HIDE DEF l, t
<1>4. \A j \in 1 .. l + 1 : j \in 1 .. l \/ j = l + 1
  BY <1>1
<1>5. \A j \in 1 .. l : j \in 1 .. l + 1 /\ j < l + 1
  BY <1>1
<1>6. l + 1 \in 1 .. l + 1
  BY <1>1
<1>7. \A m : Has(t, m) <=> Has(s, m) \/ m = f
  BY <1>1, <1>2, <1>3, <1>4, <1>5, <1>6 DEF Has
<1>8. ASSUME NEW m, ~Has(s, m) \/ (m # f /\ Once(s, m)) PROVE Once(t, m)
  <2>1. CASE ~Has(s, m)
    <3>1. \A i \in 1 .. l + 1 : t[i] = m => i = l + 1
      BY <2>1, <1>1, <1>3, <1>4 DEF Has
    <3> QED BY <3>1, <1>2 DEF Once
  <2>2. CASE m # f /\ Once(s, m)
    <3>1. \A i \in 1 .. l + 1 : t[i] = m => i \in 1 .. l /\ s[i] = m
      BY <2>2, <1>3, <1>4
    <3> QED BY <3>1, <2>2, <1>1, <1>2 DEF Once
  <2> QED BY <1>8, <2>1, <2>2
<1>9. ASSUME NEW m, NEW n, m # f, Before(s, m, n) PROVE Before(t, m, n)
  <2>1. \A i \in 1 .. l + 1 : t[i] = m => i \in 1 .. l /\ s[i] = m
    BY <1>9, <1>3, <1>4
  <2>2. ASSUME NEW i \in 1 .. l + 1, NEW j \in 1 .. l + 1, t[i] = m, t[j] = n PROVE i < j
    <3>1. i \in 1 .. l /\ s[i] = m
      BY <2>1, <2>2
    <3>2. CASE j \in 1 .. l
      BY <3>1, <3>2, <2>2, <1>1, <1>3, <1>9 DEF Before
    <3>3. CASE j = l + 1
      BY <3>1, <3>3, <1>5
    <3> QED BY <3>2, <3>3, <1>4
  <2> QED BY <2>2, <1>2 DEF Before
<1>10. ASSUME NEW m, NEW n, ~Has(s, n), n # f PROVE Before(t, m, n)
  BY <1>10, <1>7 DEF Has, Before
<1> QED BY <1>2, <1>7, <1>8, <1>9, <1>10 DEF t

LEMMA FirstRun ==
  ASSUME NEW S, NEW s \in Seq(S), s # <<>>, NEW t, t = Tail(s)
  PROVE  /\ t \in Seq(S)
         /\ \A m : Has(t, m) => Has(s, m)
         /\ \A m : m # Head(s) => (Has(t, m) <=> Has(s, m))
         /\ \A m : Once(s, m) => Once(t, m)
         /\ Once(s, Head(s)) => ~Has(t, Head(s))
         /\ \A m, n : Before(s, m, n) => Before(t, m, n)
         /\ \A m : Before(s, m, Head(s)) => ~Has(s, m)
<1> DEFINE l == Len(s)
<1>1. l \in Nat /\ DOMAIN s = 1 .. l /\ l >= 1 /\ Head(s) = s[1]
  BY EmptySeq
<1>2. t \in Seq(S) /\ DOMAIN t = 1 .. l - 1 /\ \A j \in 1 .. l - 1 : t[j] = s[j + 1]
  <2>1. t \in Seq(S) /\ Len(t) = l - 1 /\ \A j \in 1 .. Len(t) : t[j] = s[j + 1]
    BY HeadTailProperties
  <2> QED BY <2>1
<1> HIDE DEF l
<1>3. \A j \in 1 .. l - 1 : j + 1 \in 1 .. l /\ j + 1 # 1
  BY <1>1
<1>4. \A i \in 1 .. l : i = 1 \/ (i - 1 \in 1 .. l - 1 /\ (i - 1) + 1 = i)
  BY <1>1
<1>5. \A m : Has(t, m) => Has(s, m)
  BY <1>1, <1>2, <1>3 DEF Has
<1>6. ASSUME NEW m, m # Head(s), Has(s, m) PROVE Has(t, m)
  <2>1. PICK i \in 1 .. l : s[i] = m
    BY <1>1, <1>6 DEF Has
  <2>2. i # 1
    BY <1>1, <1>6, <2>1
  <2>3. i - 1 \in 1 .. l - 1 /\ t[i - 1] = m
    BY <2>1, <2>2, <1>2, <1>4
  <2> QED BY <2>3, <1>2 DEF Has
<1>7. ASSUME NEW m, Once(s, m) PROVE Once(t, m)
  <2>1. ASSUME NEW i \in 1 .. l - 1, NEW j \in 1 .. l - 1, t[i] = m, t[j] = m PROVE i = j
    <3>1. i + 1 = j + 1
      BY <2>1, <1>1, <1>2, <1>3, <1>7 DEF Once
    <3> QED BY <3>1
  <2> QED BY <2>1, <1>2 DEF Once
<1>8. ASSUME Once(s, Head(s)), Has(t, Head(s)) PROVE FALSE
  <2>1. PICK j \in 1 .. l - 1 : t[j] = Head(s)
    BY <1>2, <1>8 DEF Has
  <2>2. s[j + 1] = s[1] /\ j + 1 \in 1 .. l /\ 1 \in 1 .. l /\ j + 1 # 1
    BY <2>1, <1>1, <1>2, <1>3
  <2> QED BY <2>2, <1>1, <1>8 DEF Once
<1>9. ASSUME NEW m, NEW n, Before(s, m, n) PROVE Before(t, m, n)
  <2>1. ASSUME NEW i \in 1 .. l - 1, NEW j \in 1 .. l - 1, t[i] = m, t[j] = n PROVE i < j
    <3>1. i + 1 < j + 1
      BY <2>1, <1>1, <1>2, <1>3, <1>9 DEF Before
    <3> QED BY <3>1
  <2> QED BY <2>1, <1>2 DEF Before
<1>10. ASSUME NEW m, Before(s, m, Head(s)), Has(s, m) PROVE FALSE
  <2>1. PICK i \in 1 .. l : s[i] = m
    BY <1>1, <1>10 DEF Has
  <2>2. i < 1
    BY <2>1, <1>1, <1>10 DEF Before
  <2> QED BY <2>2
<1> QED BY <1>2, <1>5, <1>6, <1>7, <1>8, <1>9, <1>10

LEMMA MoreSent ==
  ASSUME NEW S, NEW s \in Seq(S), NEW u \in Seq(S), NEW t, t = s \o u
  PROVE  /\ t \in Seq(S)
         /\ \A m : Has(t, m) <=> Has(s, m) \/ Has(u, m)
         /\ \A m : ~Has(u, m) /\ Once(s, m) => Once(t, m)
         /\ \A m, n : ~Has(u, m) /\ Before(s, m, n) => Before(t, m, n)
<1> DEFINE k == Len(s)  l == Len(u)
<1>1. k \in Nat /\ l \in Nat /\ DOMAIN s = 1 .. k /\ DOMAIN u = 1 .. l
  OBVIOUS
<1>2. t \in Seq(S) /\ DOMAIN t = 1 .. k + l /\ \A i \in 1 .. k + l : t[i] = IF i <= k THEN s[i] ELSE u[i - k]
  BY ConcatProperties
<1> HIDE DEF k, l
<1>3. \A i \in 1 .. k : i \in 1 .. k + l /\ t[i] = s[i]
  BY <1>1, <1>2
<1>4. \A j \in 1 .. l : k + j \in 1 .. k + l /\ t[k + j] = u[j]
  <2>1. \A j \in 1 .. l : k + j \in 1 .. k + l /\ ~(k + j <= k) /\ (k + j) - k = j
    BY <1>1
  <2> QED BY <2>1, <1>2
<1>5. \A i \in 1 .. k + l : \/ i \in 1 .. k /\ t[i] = s[i]
                            \/ i > k /\ i - k \in 1 .. l /\ t[i] = u[i - k]
  BY <1>1, <1>2
<1>6. ASSUME NEW m PROVE Has(t, m) <=> Has(s, m) \/ Has(u, m)
  <2>1. Has(t, m) => Has(s, m) \/ Has(u, m)
    BY <1>1, <1>2, <1>5 DEF Has
  <2>2. Has(s, m) => Has(t, m)
    BY <1>1, <1>2, <1>3 DEF Has
  <2>3. Has(u, m) => Has(t, m)
    BY <1>1, <1>2, <1>4 DEF Has
  <2> QED BY <2>1, <2>2, <2>3
<1>7. ASSUME NEW m, ~Has(u, m) PROVE \A i \in 1 .. k + l : t[i] = m => i \in 1 .. k /\ s[i] = m
  BY <1>1, <1>5, <1>7 DEF Has
<1>8. \A m : ~Has(u, m) /\ Once(s, m) => Once(t, m)
  <2>1. ASSUME NEW m, ~Has(u, m), Once(s, m), NEW i \in 1 .. k + l, NEW j \in 1 .. k + l, t[i] = m, t[j] = m PROVE i = j
    <3>1. i \in 1 .. k /\ s[i] = m /\ j \in 1 .. k /\ s[j] = m
      BY <2>1, <1>7
    <3> QED BY <3>1, <2>1, <1>1 DEF Once
  <2>2. DOMAIN t = 1 .. k + l
    BY <1>2
  <2> QED BY ONLY <2>1, <2>2 DEF Once
<1>9. ASSUME NEW m, NEW n, ~Has(u, m), Before(s, m, n) PROVE Before(t, m, n)
  <2>1. ASSUME NEW i \in 1 .. k + l, NEW j \in 1 .. k + l, t[i] = m, t[j] = n PROVE i < j
    <3>1. i \in 1 .. k /\ s[i] = m
      BY <2>1, <1>7, <1>9
    <3>2. CASE j \in 1 .. k /\ t[j] = s[j]
      BY <3>1, <3>2, <2>1, <1>1, <1>9 DEF Before
    <3>3. CASE j > k
      BY <3>1, <3>3, <1>1
    <3> QED BY <3>2, <3>3, <1>5
  <2>2. DOMAIN t = 1 .. k + l
    BY <1>2
  <2> QED BY ONLY <2>1, <2>2 DEF Before
<1> QED BY <1>2, <1>6, <1>8, <1>9

LEMMA OneTakenBack ==
  ASSUME NEW S, NEW s \in Seq(S), NEW i \in DOMAIN s, NEW t, t = RemoveAt(s, i)
  PROVE  /\ t \in Seq(S) /\ \A m, n : m # s[i] /\ n # s[i] => Same(s, t, m, n)
         /\ Once(s, s[i]) => ~Has(t, s[i])
<1> DEFINE l == Len(s)
<1>1. l \in Nat /\ DOMAIN s = 1 .. l /\ i \in 1 .. l
  OBVIOUS
<1>2. t \in Seq(S) /\ DOMAIN t = 1 .. l - 1 /\ \A j \in 1 .. l - 1 : t[j] = IF j < i THEN s[j] ELSE s[j + 1]
  BY OneTaken
<1> DEFINE h[j \in 1 .. l - 1] == IF j < i THEN j ELSE j + 1
<1>3. \A j \in 1 .. l - 1 : h[j] \in 1 .. l /\ h[j] # i /\ t[j] = s[h[j]]
  BY <1>1, <1>2
<1>4. \A j1, j2 \in 1 .. l - 1 : (h[j1] = h[j2] => j1 = j2) /\ (h[j1] < h[j2] => j1 < j2)
  BY <1>1
<1>5. \A j \in 1 .. l : j # i => \E j1 \in 1 .. l - 1 : h[j1] = j
  <2>1. ASSUME NEW j \in 1 .. l, j # i PROVE \E j1 \in 1 .. l - 1 : h[j1] = j
    <3>1. CASE j < i
      <4>1. j \in 1 .. l - 1 /\ h[j] = j
        BY <3>1, <1>1
      <4> QED BY <4>1
    <3>2. CASE j > i
      <4>1. j - 1 \in 1 .. l - 1 /\ h[j - 1] = j
        BY <3>2, <1>1
      <4> QED BY <4>1
    <3> QED BY <2>1, <3>1, <3>2, <1>1
  <2> QED BY <2>1
<1> HIDE DEF l, h
<1>6. ASSUME NEW m, m # s[i] PROVE Has(t, m) <=> Has(s, m)
  <2>1. Has(t, m) => Has(s, m)
    BY <1>1, <1>2, <1>3 DEF Has
  <2>2. ASSUME Has(s, m) PROVE Has(t, m)
    <3>1. PICK j \in 1 .. l : s[j] = m
      BY <1>1, <2>2 DEF Has
    <3>2. PICK j1 \in 1 .. l - 1 : h[j1] = j
      BY <3>1, <1>5, <1>6
    <3> QED BY <3>1, <3>2, <1>2, <1>3 DEF Has
  <2> QED BY <2>1, <2>2
<1>7. \A m : Once(s, m) => Once(t, m)
  BY <1>1, <1>2, <1>3, <1>4 DEF Once
<1>8. ASSUME NEW m, NEW n, Before(s, m, n) PROVE Before(t, m, n)
  <2>1. ASSUME NEW j1 \in 1 .. l - 1, NEW j2 \in 1 .. l - 1, t[j1] = m, t[j2] = n PROVE j1 < j2
    <3>1. h[j1] < h[j2]
      BY <2>1, <1>1, <1>3, <1>8 DEF Before
    <3> QED BY <3>1, <1>4
  <2> QED BY <2>1, <1>2 DEF Before
<1>9. ASSUME Once(s, s[i]) PROVE ~Has(t, s[i])
  BY <1>1, <1>2, <1>3, <1>9 DEF Once, Has
<1> QED BY <1>2, <1>6, <1>7, <1>8, <1>9 DEF Same

(* The status command of an earlier answer is taken back.                  *)
LEMMA FirstTakenBack ==
  ASSUME NEW S, NEW s \in Seq(S), NEW e, NEW t, t = RemoveFirst(s, e)
  PROVE  /\ t \in Seq(S) /\ \A m, n : m # e /\ n # e => Same(s, t, m, n)
         /\ Once(s, e) => ~Has(t, e)
<1>1. CASE ~\E i \in 1 .. Len(s) : s[i] = e
  <2>1. t = s
    BY <1>1 DEF RemoveFirst
  <2>2. ~Has(s, e)
    BY <1>1 DEF Has
  <2> QED BY <2>1, <2>2, SameStill
<1>2. CASE \E i \in 1 .. Len(s) : s[i] = e
  <2> DEFINE I == {i \in 1 .. Len(s) : s[i] = e}
  <2>1. I # {} /\ I \subseteq Nat
    BY <1>2
  <2> DEFINE i == Min(I)
  <2>2. t = RemoveAt(s, i)
    BY <1>2, <2>1 DEF RemoveFirst, SelectInSeq
  <2>3. i \in I
    <3> HIDE DEF I
    <3>1. \E x \in I : \A y \in I : <<y, x>> \notin OpToRel(<, Nat)
      BY <2>1, WFMin, NatLessThanWellFounded, Zenon
    <3>2. PICK x \in I : \A y \in I : <<y, x>> \notin OpToRel(<, Nat)
      BY <3>1
    <3>3. \A y \in I : ~(y < x)
      BY <2>1, <3>2, Zenon DEF OpToRel
    <3>4. x \in I /\ \A y \in I : x <= y
      BY <2>1, <3>3
    <3> QED BY <3>4 DEF Min
  <2> HIDE DEF i
  <2>4. i \in DOMAIN s /\ s[i] = e
    BY <2>3
  <2> QED BY <2>2, <2>4, OneTakenBack
<1> QED BY <1>1, <1>2

(* The commands that are sent for each of a finite set of things.          *)
LEMMA AllSent ==
  ASSUME NEW c, NEW ids, IsFiniteSet(ids), NEW S, \A x \in ids : Command(c, x) \in S
  PROVE  /\ Commands(c, ids) \in Seq(S)
         /\ \A m : Has(Commands(c, ids), m) <=> \E x \in ids : m = Command(c, x)
<1> DEFINE C == {Command(c, x) : x \in ids}  n == Cardinality(C)  f == Commands(c, ids)
<1>1. IsFiniteSet(C)
  <2> DEFINE g == [m \in C |-> m.id]
  <2>1. \A m \in C : g[m] \in ids /\ m = Command(c, g[m])
    BY DEF Command
  <2>2. g \in Injection(C, ids)
    <3>1. g \in [C -> ids]
      BY <2>1
    <3>2. \A a, b \in C : g[a] = g[b] => a = b
      BY <2>1
    <3> HIDE DEF g, C
    <3> QED BY <3>1, <3>2, Fun_IsInj
  <2> HIDE DEF g, C
  <2> QED BY <2>2, FS_Injection
<1>2. n \in Nat /\ \E b \in Bijection(1 .. n, C) : TRUE
  <2> HIDE DEF C
  <2> QED BY <1>1, FS_CardinalityType, Fun_ExistsBij
<1>3. f \in [1 .. n -> C] /\ IsInjective(f)
  <2>1. PICK b \in Bijection(1 .. n, C) : TRUE
    BY <1>2
  <2>2. b \in [1 .. n -> C] /\ IsInjective(b)
    BY DEF Bijection, Injection, IsInjective
  <2>3. f = CHOOSE h \in [1 .. n -> C] : IsInjective(h)
    BY DEF Commands, SetToSeq
  <2> HIDE DEF f, n, C
  <2> QED BY <2>2, <2>3
<1>4. f \in Surjection(1 .. n, C)
  <2> HIDE DEF C, f
  <2>1. IsFiniteSet(1 .. n) /\ Cardinality(1 .. n) = n
    <3>1. 1 \in Int /\ n \in Int
      BY <1>2
    <3>2. IsFiniteSet(1 .. n) /\ Cardinality(1 .. n) = IF 1 > n THEN 0 ELSE n - 1 + 1
      BY <3>1, FS_Interval
    <3> HIDE DEF n
    <3> QED BY <3>2, <1>2
  <2>2. f \in Injection(1 .. n, C)
    BY <1>3, Fun_IsInj DEF IsInjective
  <2> QED BY <1>1, <2>1, <2>2, FS_Injection
<1> HIDE DEF f, n
<1>5. \A m \in C : \E j \in 1 .. n : f[j] = m
  BY <1>4 DEF Surjection
<1>6. \A m : Has(f, m) <=> m \in C
  <2> HIDE DEF C
  <2> QED BY <1>3, <1>5 DEF Has
<1>7. f \in Seq(S)
  <2>1. \A j \in 1 .. n : f[j] \in S
    BY <1>3
  <2>2. f \in [1 .. n -> S]
    BY <1>3, <2>1
  <2> QED BY <2>2, <1>2
<1> QED BY <1>6, <1>7 DEF f

TabCommands == {"local_shell_open", "pty_close"}
TunnelCommands == {"ssh_tunnel_status", "ssh_tunnel_open", "ssh_tunnel_close"}
TransferCommands == {"sftp_transfer", "sftp_cancel"}
EditorCommands == {"ssh_key_test", "ssh_key_install"}
AllCommands == TabCommands \cup TunnelCommands \cup TransferCommands \cup EditorCommands
Message == [cmd : AllCommands, id : Maybe1 \cup Tunnel]

LEMMA CommandsDiffer ==
  \A c, d, x, y : Command(c, x) = Command(d, y) <=> c = d /\ x = y
BY DEF Command

(* Of two sequences that differ in messages of the kinds C alone.          *)
Sends(C, s, t) == t \in Seq(Message) /\ \A m, n : m.cmd \notin C /\ n.cmd \notin C => Same(s, t, m, n)

LEMMA SendsNothing == ASSUME NEW C, NEW s \in Seq(Message) PROVE Sends(C, s, s)
BY SameStill DEF Sends

LEMMA SendsTwice ==
  ASSUME NEW C, NEW s, NEW t, NEW u, Sends(C, s, t), Sends(C, t, u) PROVE Sends(C, s, u)
<1>1. ASSUME NEW m, NEW n, m.cmd \notin C, n.cmd \notin C PROVE Same(s, u, m, n)
  BY <1>1, SameTwice DEF Sends
<1> QED BY <1>1 DEF Sends

LEMMA SendsLast ==
  ASSUME NEW C, NEW s \in Seq(Message), NEW c \in C \cap AllCommands, NEW x \in Maybe1 \cup Tunnel,
         NEW t, t = Append(s, Command(c, x))
  PROVE  Sends(C, s, t)
<1> DEFINE f == Command(c, x)
<1>1. f \in Message /\ f.cmd = c
  BY DEF Message, Command
<1> HIDE DEF f
<1>2. t = Append(s, f)
  BY DEF f
<1>3. /\ Append(s, f) \in Seq(Message)
      /\ \A m : Has(Append(s, f), m) <=> Has(s, m) \/ m = f
      /\ \A m : (~Has(s, m) \/ (m # f /\ Once(s, m))) => Once(Append(s, f), m)
      /\ \A m, n : m # f /\ Before(s, m, n) => Before(Append(s, f), m, n)
  <2>1. f \in Message /\ s \in Seq(Message)
    BY <1>1
  <2> QED BY ONLY <2>1, LastSent
<1>4. ASSUME NEW m, NEW n, m.cmd \notin C, n.cmd \notin C PROVE Same(s, t, m, n)
  <2>1. m # f /\ n # f
    BY <1>1, <1>4
  <2> QED BY <1>2, <1>3, <2>1 DEF Same
<1> QED BY <1>2, <1>4, <1>3 DEF Sends

LEMMA SendsFirst ==
  ASSUME NEW C, NEW s \in Seq(Message), s # <<>>, Head(s).cmd \in C
  PROVE  Sends(C, s, Tail(s))
<1>1. /\ Tail(s) \in Seq(Message)
      /\ \A m : m # Head(s) => (Has(Tail(s), m) <=> Has(s, m))
      /\ \A m : Once(s, m) => Once(Tail(s), m)
      /\ \A m, n : Before(s, m, n) => Before(Tail(s), m, n)
  BY FirstRun
<1>2. ASSUME NEW m, NEW n, m.cmd \notin C, n.cmd \notin C PROVE Same(s, Tail(s), m, n)
  <2>1. m # Head(s) /\ n # Head(s)
    BY <1>2
  <2> QED BY <1>1, <2>1 DEF Same
<1> QED BY <1>1, <1>2 DEF Sends

LEMMA SendsMany ==
  ASSUME NEW C, NEW s \in Seq(Message), NEW c \in C \cap AllCommands, NEW ids \in SUBSET (Maybe1 \cup Tunnel),
         IsFiniteSet(ids)
  PROVE  LET t == s \o Commands(c, ids) IN
         /\ Sends(C, s, t)
         /\ \A m : Has(t, m) <=> Has(s, m) \/ \E x \in ids : m = Command(c, x)
         /\ \A m, n : m.cmd # c => Same(s, t, m, m) /\ (Before(s, m, n) => Before(t, m, n))
<1> DEFINE t == s \o Commands(c, ids)  u == Commands(c, ids)
<1>1. \A x \in ids : Command(c, x) \in Message
  BY DEF Command, Message
<1>2. u \in Seq(Message) /\ \A m : Has(u, m) <=> \E x \in ids : m = Command(c, x)
  BY <1>1, AllSent
<1>3. t = s \o u
  OBVIOUS
<1> HIDE DEF t, u
<1>4. /\ t \in Seq(Message)
      /\ \A m : Has(t, m) <=> Has(s, m) \/ Has(u, m)
      /\ \A m : ~Has(u, m) /\ Once(s, m) => Once(t, m)
      /\ \A m, n : ~Has(u, m) /\ Before(s, m, n) => Before(t, m, n)
  BY <1>2, <1>3, MoreSent
<1>5. \A m : m.cmd # c => ~Has(u, m)
  BY <1>2 DEF Command
<1>6. \A m, n : m.cmd # c => Same(s, t, m, m) /\ (Before(s, m, n) => Before(t, m, n))
  <2>1. ASSUME NEW m, NEW n, m.cmd # c PROVE Same(s, t, m, m) /\ (Before(s, m, n) => Before(t, m, n))
    BY <2>1, <1>4, <1>5 DEF Same
  <2> QED BY <2>1
<1>7. ASSUME NEW m, NEW n, m.cmd \notin C, n.cmd \notin C PROVE Same(s, t, m, n)
  <2>1. ~Has(u, m) /\ ~Has(u, n)
    BY <1>5, <1>7
  <2> QED BY <1>4, <2>1 DEF Same
<1>8. \A m : Has(t, m) <=> Has(s, m) \/ \E x \in ids : m = Command(c, x)
  BY <1>2, <1>4
<1> QED BY <1>4, <1>6, <1>7, <1>8 DEF Sends, t

LEMMA FiniteNumbers == ASSUME NEW ids \in SUBSET Maybe1 PROVE IsFiniteSet(ids)
<1>1. MaxOps \in Nat
  BY NativeBridgeAssumption
<1>2. 0 \in Int /\ MaxOps \in Int /\ Maybe1 = 0 .. MaxOps
  BY <1>1 DEF Maybe1, Op, None
<1>3. IsFiniteSet(0 .. MaxOps)
  BY <1>2, FS_Interval
<1>4. IsFiniteSet(Maybe1)
  BY <1>2, <1>3
<1> QED BY <1>4, FS_Subset

LEMMA InvokeSends ==
  ASSUME ipc \in Seq(Message), NEW C, NEW c \in C \cap AllCommands, NEW x \in Maybe1 \cup Tunnel, Invoke(c, x)
  PROVE  Sends(C, ipc, ipc')
BY SendsLast DEF Invoke

LEMMA RunSends ==
  ASSUME ipc \in Seq(Message), NEW C, NEW c \in C, NEW x, Run(c, x)
  PROVE  Sends(C, ipc, ipc')
<1>1. ipc # <<>> /\ Head(ipc).cmd \in C /\ ipc' = Tail(ipc)
  BY DEF Run, Command
<1>2. Sends(C, ipc, Tail(ipc))
  BY <1>1, SendsFirst
<1> QED BY <1>1, <1>2

LEMMA StillSends == ASSUME ipc \in Seq(Message), NEW C, UNCHANGED ipc PROVE Sends(C, ipc, ipc')
BY SendsNothing

LEMMA UnaskedSends ==
  ASSUME ipc \in Seq(Message), NEW C, "ssh_tunnel_status" \in C PROVE Sends(C, ipc, Unasked)
<1> DEFINE e == Command("ssh_tunnel_status", None)
<1>1. Unasked = RemoveFirst(ipc, e)
  BY DEF Unasked
<1>2. e.cmd \in C
  BY DEF Command
<1> HIDE DEF e
<1>3. Unasked \in Seq(Message) /\ \A m, n : m # e /\ n # e => Same(ipc, Unasked, m, n)
  BY <1>1, FirstTakenBack
<1>4. ASSUME NEW m, NEW n, m.cmd \notin C, n.cmd \notin C PROVE Same(ipc, Unasked, m, n)
  BY <1>2, <1>3, <1>4
<1> QED BY <1>3, <1>4 DEF Sends

LEMMA TabsSend == ASSUME Grounds, ipc \in Seq(Message), TabsNext PROVE Sends(TabCommands, ipc, ipc')
<1>1. ASSUME NEW kind \in Kind, AddTab(kind) PROVE Sends(TabCommands, ipc, ipc')
  BY <1>1, StillSends DEF AddTab
<1>2. ASSUME NEW i \in DOMAIN tabs, Connect(i) PROVE Sends(TabCommands, ipc, ipc')
  BY <1>2, StillSends DEF Connect
<1>3. ASSUME NEW i \in DOMAIN tabs, Disconnect(i) \/ CloseTab(i) PROVE Sends(TabCommands, ipc, ipc')
  <2> DEFINE open == {s \in {tabs[i].session} \ {None} : obj[s].native}
  <2>1. ipc' = ipc \o Commands("pty_close", open)
    BY <1>3 DEF Disconnect, CloseTab
  <2>2. tabs[i].session \in Maybe1
    <3>1. tabs[i] \in Tab
      BY OnTheGround DEF TabsTypes
    <3> QED BY <3>1 DEF Tab
  <2>3. open \in SUBSET Maybe1
    BY <2>2
  <2> HIDE DEF open
  <2>4. IsFiniteSet(open) /\ open \in SUBSET (Maybe1 \cup Tunnel)
    BY <2>3, FiniteNumbers
  <2>5. "pty_close" \in TabCommands \cap AllCommands
    BY DEF TabCommands, AllCommands
  <2> QED BY <2>1, <2>4, <2>5, SendsMany
<1>4. ASSUME NEW c \in Op, TabsProgress(c) PROVE Sends(TabCommands, ipc, ipc')
  <2>1. CASE Listened(c)
    <3>1. Invoke("local_shell_open", c) \/ UNCHANGED ipc
      BY <2>1 DEF Listened
    <3>2. "local_shell_open" \in TabCommands \cap AllCommands /\ c \in Maybe1 \cup Tunnel
      BY DEF TabCommands, AllCommands, Maybe1
    <3> QED BY <3>1, <3>2, InvokeSends, StillSends
  <2>2. CASE ~Listened(c)
    <3>1. UNCHANGED ipc
      BY <1>4, <2>2 DEF TabsProgress, HostSession, Declined, ListenFails, Opened, Refused, CloseDone, ExitHeard, bridge
    <3> QED BY <3>1, StillSends
  <2> QED BY <2>1, <2>2
<1>5. ASSUME NEW c \in Op, TabsShell(c) \/ Exit(c) PROVE Sends(TabCommands, ipc, ipc')
  <2>1. Run("local_shell_open", c) \/ Run("pty_close", c) \/ UNCHANGED ipc
    BY <1>5 DEF TabsShell, OpenPty, ClosePty, Exit, bridge
  <2>2. "local_shell_open" \in TabCommands /\ "pty_close" \in TabCommands
    BY DEF TabCommands
  <2> QED BY <2>1, <2>2, RunSends, StillSends
<1> QED BY <1>1, <1>2, <1>3, <1>4, <1>5 DEF TabsNext

LEMMA TransfersSend == ASSUME BridgeTypeOK, ipc \in Seq(Message), TransfersNext PROVE Sends(TransferCommands, ipc, ipc')
<1>1. "sftp_transfer" \in TransferCommands \cap AllCommands /\ "sftp_cancel" \in TransferCommands
  BY DEF TransferCommands, AllCommands
<1>2. CASE Transfer
  <2>1. ops' \in Op /\ Invoke("sftp_transfer", ops')
    BY <1>2, NativeBridgeAssumption DEF Transfer, Begin, BridgeTypeOK, Op
  <2>2. ops' \in Maybe1 \cup Tunnel
    BY <2>1 DEF Maybe1
  <2> QED BY <1>1, <2>1, <2>2, InvokeSends
<1>3. ASSUME NEW o \in Op, SpawnTransfer(o) \/ CancelTransfer(o) PROVE Sends(TransferCommands, ipc, ipc')
  <2>1. Run("sftp_transfer", o) \/ Run("sftp_cancel", o)
    BY <1>3 DEF SpawnTransfer, CancelTransfer
  <2> QED BY <1>1, <2>1, RunSends
<1>4. ASSUME OpenSftp \/ LeaveSftp \/ Hear \/ \E o \in Op : Refusal(o) \/ Monitor(o) \/ TransferExit(o) \/ RemoveTransfer(o)
      PROVE  Sends(TransferCommands, ipc, ipc')
  <2>1. UNCHANGED ipc
    BY <1>4 DEF OpenSftp, LeaveSftp, Hear, Refusal, Monitor, TransferExit, RemoveTransfer, bridge
  <2> QED BY <2>1, StillSends
<1> QED BY <1>2, <1>3, <1>4 DEF TransfersNext, TransferStep

LEMMA SendsLess == ASSUME NEW C, NEW D, C \subseteq D, NEW s, NEW t, Sends(C, s, t) PROVE Sends(D, s, t)
BY DEF Sends

PageCommands == {"ssh_tunnel_status", "ssh_tunnel_close"}

LEMMA TunnelStatus ==
  ASSUME ipc \in Seq(Message), NEW R, AskStatus(R) PROVE Sends({"ssh_tunnel_status"}, ipc, ipc')
<1>1. "ssh_tunnel_status" \in {"ssh_tunnel_status"} \cap AllCommands /\ None \in Maybe1 \cup Tunnel
  BY DEF AllCommands, TunnelCommands, Maybe1
<1>2. Sends({"ssh_tunnel_status"}, ipc, Unasked) /\ Unasked \in Seq(Message)
  BY <1>1, UnaskedSends DEF Sends
<1>3. ipc' = Unasked \/ ipc' = Append(Unasked, Command("ssh_tunnel_status", None))
  BY DEF AskStatus
<1>4. CASE ipc' = Append(Unasked, Command("ssh_tunnel_status", None))
  <2>1. Sends({"ssh_tunnel_status"}, Unasked, ipc')
    BY <1>1, <1>2, <1>4, SendsLast
  <2> QED BY <1>2, <2>1, SendsTwice
<1> QED BY <1>2, <1>3, <1>4

(* The page asks for the status and closes.                                *)
PageStep ==
  \/ OpenTunnels \/ LeaveTunnels \/ ReadStatus \/ ShowStatus
  \/ \E t \in Tunnel : Save(t) \/ StopTunnel(t) \/ RemoveTunnel(t) \/ CloseTunnel(t) \/ TunnelExit(t)
  \/ \E k \in stopping : Stopped(k)

LEMMA PageSends == ASSUME ipc \in Seq(Message), PageStep PROVE Sends(PageCommands, ipc, ipc')
<1> DEFINE Goal == Sends(PageCommands, ipc, ipc')
<1>1. \A c \in {"ssh_tunnel_status", "ssh_tunnel_close"} : c \in PageCommands \cap AllCommands
  BY DEF PageCommands, TunnelCommands, AllCommands
<1>2. ASSUME NEW R, AskStatus(R) PROVE Goal
  <2>1. {"ssh_tunnel_status"} \subseteq PageCommands
    BY DEF PageCommands
  <2> QED BY <2>1, <1>2, TunnelStatus, SendsLess
<1>3. OpenTunnels => Goal
  BY <1>2 DEF OpenTunnels
<1>4. LeaveTunnels => Goal
  BY <1>1, UnaskedSends DEF LeaveTunnels
<1>5. ReadStatus \/ ShowStatus => Goal
  BY <1>1, RunSends, StillSends DEF ReadStatus, ShowStatus, bridge
<1>6. ASSUME NEW t \in Tunnel, Save(t) \/ RemoveTunnel(t) PROVE Goal
  <2>1. (\E R : AskStatus(R)) \/ Invoke("ssh_tunnel_close", t)
    BY <1>6 DEF Save, RemoveTunnel
  <2> QED BY <1>1, <1>2, <2>1, InvokeSends
<1>7. ASSUME NEW t \in Tunnel, StopTunnel(t) \/ CloseTunnel(t) \/ TunnelExit(t) PROVE Goal
  <2>1. Invoke("ssh_tunnel_close", t) \/ Run("ssh_tunnel_close", t) \/ UNCHANGED ipc
    BY <1>7 DEF StopTunnel, CloseTunnel, TunnelExit, bridge
  <2> QED BY <1>1, <2>1, InvokeSends, RunSends, StillSends
<1>8. ASSUME NEW k \in stopping, Stopped(k) PROVE Goal
  <2>1. (\E R : AskStatus(R)) \/ UNCHANGED ipc
    BY <1>8 DEF Stopped
  <2> QED BY <1>2, <2>1, StillSends
<1> QED BY <1>3, <1>4, <1>5, <1>6, <1>7, <1>8 DEF PageStep

LEMMA TunnelsSend == ASSUME ipc \in Seq(Message), TunnelsNext PROVE Sends(TunnelCommands, ipc, ipc')
<1>1. PageCommands \subseteq TunnelCommands /\ "ssh_tunnel_open" \in TunnelCommands \cap AllCommands
  BY DEF PageCommands, TunnelCommands, AllCommands
<1>2. CASE PageStep
  BY <1>1, <1>2, PageSends, SendsLess
<1>3. ASSUME NEW o \in Op, TunnelProgress(o) \/ OpenTunnel(o) PROVE Sends(TunnelCommands, ipc, ipc')
  <2>1. Invoke("ssh_tunnel_open", o) \/ Run("ssh_tunnel_open", o) \/ UNCHANGED ipc
    BY <1>3 DEF TunnelProgress, HasKeys, NotStarted, AuthThrows, HasAuth, Started, StartFailed, OpenTunnel, bridge
  <2>2. o \in Maybe1 \cup Tunnel
    BY DEF Maybe1
  <2> QED BY <1>1, <2>1, <2>2, InvokeSends, RunSends, StillSends
<1>4. ASSUME NEW t \in Tunnel, StartTunnel(t) PROVE Sends(TunnelCommands, ipc, ipc')
  BY <1>4, StillSends DEF StartTunnel
<1> QED BY <1>2, <1>3, <1>4 DEF TunnelsNext, PageStep

LEMMA EditorSend == ASSUME BridgeTypeOK, ipc \in Seq(Message), EditorNext PROVE Sends(EditorCommands, ipc, ipc')
<1> DEFINE Goal == Sends(EditorCommands, ipc, ipc')
<1>1. \A c \in {"ssh_key_test", "ssh_key_install"} : c \in EditorCommands \cap AllCommands
  BY DEF EditorCommands, AllCommands
<1>2. ASSUME NEW o \in Op, TestKey(o) \/ InstallKey(o) PROVE Goal
  <2>1. Invoke("ssh_key_test", o) \/ Invoke("ssh_key_install", o)
    BY <1>2 DEF TestKey, InstallKey, Invoke
  <2>2. o \in Maybe1 \cup Tunnel
    BY DEF Maybe1
  <2> QED BY <1>1, <2>1, <2>2, InvokeSends
<1>3. ASSUME NEW o \in Op, \/ HostSaved(o) \/ HostNotSaved(o) \/ Attached(o) \/ NotAttached(o)
                           \/ DuplicatesDeleted(o) \/ CredentialsDeleted(o) \/ NotDeleted(o) \/ TestAttachedKey(o)
      PROVE  Goal
  <2>1. TestKey(o) \/ UNCHANGED ipc
    BY <1>3 DEF HostSaved, HostNotSaved, Attached, NotAttached, DuplicatesDeleted, CredentialsDeleted, NotDeleted,
       Failed, TestAttachedKey, bridge
  <2> QED BY <1>2, <2>1, StillSends
<1>4. ASSUME NEW o \in Op, KeyTestEnds(o) \/ InstallExits(o) \/ ShellEnds(o) PROVE Goal
  <2>1. TestKey(o) \/ Run("ssh_key_test", o) \/ Run("ssh_key_install", o) \/ UNCHANGED ipc
    BY <1>4 DEF KeyTestEnds, InstallExits, ShellEnds, KeyTest, KeyInstall, InstallFails, TestAnswer, InstallAnswer, bridge
  <2> QED BY <1>1, <1>2, <2>1, RunSends, StillSends
<1>5. OpenNewHost \/ DismissEditor \/ CancelBootstrap \/ (\E h \in Rec : OpenHost(h)) \/ (\E i \in Ident : PickIdentity(i))
      => Goal
  BY StillSends DEF OpenNewHost, DismissEditor, CancelBootstrap, OpenHost, PickIdentity, bridge
<1>6. SubmitHost => Goal
  BY StillSends DEF SubmitHost
<1>7. SubmitBootstrap => Goal
  <2>1. SubmitBootstrap => ops' \in Op /\ InstallKey(ops')
    BY NativeBridgeAssumption DEF SubmitBootstrap, Begin, BridgeTypeOK, Op
  <2> QED BY <1>2, <2>1
<1> QED BY <1>3, <1>4, <1>5, <1>6, <1>7 DEF EditorNext

OpenOf(o) == Command("ssh_tunnel_open", o)
CloseOf(t) == Command("ssh_tunnel_close", t)

(* What is sent is a command, and a start is sent once, with a number of   *)
(* its own, which is used when the start begins.                           *)
SentInv ==
  /\ ipc \in Seq(Message) /\ TunnelsTypeOK
  /\ \A o \in Op :
       /\ start[o].at # "idle" => start[o].tunnel \in Tunnel
       /\ Has(ipc, OpenOf(o)) => start[o].at = "sent"
       /\ Once(ipc, OpenOf(o))
       /\ o > ops => start[o].at = "idle"

LEMMA SentInitial == Init => SentInv
<1> SUFFICES ASSUME Init PROVE SentInv
  OBVIOUS
<1>1. TunnelsTypeOK
  <2>1. /\ saved = Tunnel /\ tracked = {} /\ stopping = {} /\ runtime = [t \in Tunnel |-> "none"]
        /\ start = [o \in Op |-> NoStart] /\ sync = NoSync /\ up = [t \in Tunnel |-> None] /\ forgotten = {}
    BY DEF Init, TunnelsInit, NoRuntime
  <2>2. NoStart \in Start
    BY DEF NoStart, Start
  <2>3. start \in [Op -> Start]
    BY <2>1, <2>2
  <2>4. sync \in [at : {"idle", "asked", "answered"}, rows : SUBSET Tunnel, running : SUBSET Tunnel]
    BY <2>1 DEF NoSync
  <2>5. runtime \in [Tunnel -> {"none", "starting", "running", "stopping"}] /\ up \in [Tunnel -> Op \cup {None}]
    BY <2>1
  <2> QED BY <2>1, <2>3, <2>4, <2>5 DEF TunnelsTypeOK
<1>2. ipc = <<>>
  BY DEF Init, BridgeInit
<1>3. ipc \in Seq(Message) /\ \A o : ~Has(ipc, OpenOf(o)) /\ Once(ipc, OpenOf(o))
  BY <1>2 DEF Has, Once
<1>4. \A o \in Op : start[o].at = "idle"
  BY DEF Init, TunnelsInit, NoStart
<1> QED BY <1>1, <1>3, <1>4 DEF SentInv

LEMMA SentStays ==
  ASSUME SentInv, ops \in Nat, ops' = ops \/ ops' = ops + 1, TunnelsTypeOK', ipc' \in Seq(Message),
         \A o \in Op : Same(ipc, ipc', OpenOf(o), OpenOf(o)),
         \A o \in Op : start'[o].at = start[o].at /\ start'[o].tunnel = start[o].tunnel
  PROVE  SentInv'
<1>1. \A o \in Op : o > ops' => o > ops
  BY DEF Op
<1>2. \A o \in Op : /\ Has(ipc', OpenOf(o)) => Has(ipc, OpenOf(o))
                    /\ Once(ipc, OpenOf(o)) => Once(ipc', OpenOf(o))
  BY DEF Same
<1> QED BY <1>1, <1>2 DEF SentInv, OpenOf

LEMMA SendsKeepStarts ==
  ASSUME NEW C, "ssh_tunnel_open" \notin C, Sends(C, ipc, ipc')
  PROVE  ipc' \in Seq(Message) /\ \A o : Same(ipc, ipc', OpenOf(o), OpenOf(o))
<1>1. \A o : OpenOf(o).cmd \notin C
  BY DEF OpenOf, Command
<1> QED BY <1>1 DEF Sends

LEMMA StatusTypes ==
  ASSUME TunnelsTypeOK, NEW R \in SUBSET Tunnel, AskStatus(R)
  PROVE  sync' \in [at : {"idle", "asked", "answered"}, rows : SUBSET Tunnel, running : SUBSET Tunnel]
BY DEF AskStatus, NoSync

Stop == [tunnel : Tunnel, delete : BOOLEAN, here : BOOLEAN, answered : BOOLEAN]
LEMMA StopTypes ==
  /\ \A k \in Stop : k.tunnel \in Tunnel /\ [k EXCEPT !.here = FALSE] \in Stop /\ [k EXCEPT !.answered = TRUE] \in Stop
  /\ \A t \in Tunnel : \A b \in BOOLEAN : [tunnel |-> t, delete |-> b, here |-> TRUE, answered |-> FALSE] \in Stop
BY DEF Stop

LEMMA StartsLeft ==
  ASSUME start \in [Op -> Start], start' = [o \in Op |-> [start[o] EXCEPT !.here = FALSE]]
  PROVE  start' \in [Op -> Start] /\ \A o \in Op : start'[o].at = start[o].at /\ start'[o].tunnel = start[o].tunnel
<1> DEFINE left(r) == [r EXCEPT !.here = FALSE]
<1>1. ASSUME NEW r \in Start PROVE left(r) \in Start /\ left(r).at = r.at /\ left(r).tunnel = r.tunnel
  BY DEF Start
<1>2. start' = [o \in Op |-> left(start[o])]
  OBVIOUS
<1> HIDE DEF left
<1>3. \A o \in Op : start[o] \in Start /\ start'[o] = left(start[o])
  BY <1>2
<1>4. \A o \in Op : /\ left(start[o]) \in Start
                    /\ left(start[o]).at = start[o].at /\ left(start[o]).tunnel = start[o].tunnel
  BY Zenon, <1>1, <1>3
<1>5. start' \in [Op -> Start]
  BY <1>2, <1>4
<1> QED BY Zenon, <1>3, <1>4, <1>5

LEMMA PageTypes ==
  ASSUME TunnelsTypeOK, PageStep
  PROVE  /\ TunnelsTypeOK'
         /\ \A o \in Op : start'[o].at = start[o].at /\ start'[o].tunnel = start[o].tunnel
         /\ ops' = ops
<1> DEFINE Goal == /\ TunnelsTypeOK'
                   /\ \A o \in Op : start'[o].at = start[o].at /\ start'[o].tunnel = start[o].tunnel
                   /\ ops' = ops
           Sync == [at : {"idle", "asked", "answered"}, rows : SUBSET Tunnel, running : SUBSET Tunnel]
           Shows == {"none", "starting", "running", "stopping"}
<1>0. NoSync \in Sync
  BY DEF NoSync
<1>11. stopping \subseteq Stop
  BY DEF TunnelsTypeOK, Stop
<1>12. stopping' \subseteq Stop => stopping' \subseteq [tunnel : Tunnel, delete : BOOLEAN, here : BOOLEAN, answered : BOOLEAN]
  BY DEF Stop
<1>1. ASSUME OpenTunnels PROVE Goal
  <2>1. sync' \in Sync
    BY <1>1, StatusTypes DEF OpenTunnels, TunnelsTypeOK
  <2> QED BY <1>1, <2>1 DEF OpenTunnels, TunnelsTypeOK
<1>2. ASSUME LeaveTunnels PROVE Goal
  <2>1. start' \in [Op -> Start] /\ \A o \in Op : start'[o].at = start[o].at /\ start'[o].tunnel = start[o].tunnel
    <3>1. start' = [o \in Op |-> [start[o] EXCEPT !.here = FALSE]]
      BY <1>2 DEF LeaveTunnels, PageGone
    <3>2. start \in [Op -> Start]
      BY DEF TunnelsTypeOK
    <3> QED BY <3>1, <3>2, StartsLeft
  <2>2. stopping' \subseteq Stop
    <3>1. stopping' = {[k EXCEPT !.here = FALSE] : k \in stopping}
      BY <1>2 DEF LeaveTunnels, PageGone
    <3> QED BY <3>1, <1>11, StopTypes
  <2>3. runtime' \in [Tunnel -> Shows] /\ sync' \in Sync
    BY <1>0, <1>2 DEF LeaveTunnels, PageGone, NoRuntime
  <2> QED BY <1>2, <1>12, <2>1, <2>2, <2>3 DEF LeaveTunnels, TunnelsTypeOK
<1>3. ASSUME ReadStatus PROVE Goal
  <2>1. sync' \in Sync
    BY <1>3 DEF ReadStatus, TunnelsTypeOK
  <2> QED BY <1>3, <2>1 DEF ReadStatus, TunnelsTypeOK
<1>4. ASSUME ShowStatus PROVE Goal
  <2>1. tracked' \subseteq Tunnel /\ runtime' \in [Tunnel -> Shows] /\ sync' \in Sync
    BY <1>0, <1>4 DEF ShowStatus, TunnelsTypeOK
  <2> QED BY <1>4, <2>1 DEF ShowStatus, TunnelsTypeOK, bridge
<1>5. ASSUME NEW t \in Tunnel, Save(t) PROVE Goal
  <2>1. saved' \subseteq Tunnel
    BY <1>5 DEF Save, TunnelsTypeOK
  <2>2. sync' \in Sync
    BY <1>5, <2>1, StatusTypes DEF Save
  <2> QED BY <1>5, <2>1, <2>2 DEF Save, TunnelsTypeOK
<1>6. ASSUME NEW t \in Tunnel, StopTunnel(t) PROVE Goal
  <2>1. runtime' \in [Tunnel -> Shows]
    BY <1>6 DEF StopTunnel, TunnelsTypeOK
  <2>2. stopping' \subseteq Stop
    <3>1. stopping' = stopping \/ stopping' = stopping \cup {[tunnel |-> t, delete |-> FALSE, here |-> TRUE, answered |-> FALSE]}
      BY <1>6 DEF StopTunnel
    <3>2. [tunnel |-> t, delete |-> FALSE, here |-> TRUE, answered |-> FALSE] \in Stop
      BY StopTypes
    <3> QED BY <3>1, <3>2, <1>11
  <2> QED BY <1>6, <1>12, <2>1, <2>2 DEF StopTunnel, TunnelsTypeOK
<1>7. ASSUME NEW t \in Tunnel, RemoveTunnel(t) PROVE Goal
  <2>1. runtime' \in [Tunnel -> Shows] /\ saved' \subseteq Tunnel
    BY <1>7 DEF RemoveTunnel, TunnelsTypeOK
  <2>2. stopping' \subseteq Stop
    <3>1. stopping' = stopping \/ stopping' = stopping \cup {[tunnel |-> t, delete |-> TRUE, here |-> TRUE, answered |-> FALSE]}
      BY <1>7 DEF RemoveTunnel
    <3>2. [tunnel |-> t, delete |-> TRUE, here |-> TRUE, answered |-> FALSE] \in Stop
      BY StopTypes
    <3> QED BY <3>1, <3>2, <1>11
  <2>3. sync' \in Sync
    <3>1. sync \in Sync
      BY DEF TunnelsTypeOK
    <3>2. AskStatus(saved') \/ sync' = sync
      BY <1>7 DEF RemoveTunnel
    <3> QED BY <2>1, <3>1, <3>2, StatusTypes
  <2> QED BY <1>7, <1>12, <2>1, <2>2, <2>3 DEF RemoveTunnel, TunnelsTypeOK
<1>8. ASSUME NEW t \in Tunnel, CloseTunnel(t) PROVE Goal
  <2>1. up' \in [Tunnel -> Op \cup {None}]
    BY <1>8 DEF CloseTunnel, TunnelsTypeOK
  <2>2. stopping' \subseteq Stop
    <3>1. stopping' = {IF k.tunnel = t THEN [k EXCEPT !.answered = TRUE] ELSE k : k \in stopping}
      BY <1>8 DEF CloseTunnel
    <3> QED BY <3>1, <1>11, StopTypes
  <2> QED BY <1>8, <1>12, <2>1, <2>2 DEF CloseTunnel, TunnelsTypeOK
<1>9. ASSUME NEW t \in Tunnel, TunnelExit(t) PROVE Goal
  <2>1. up' \in [Tunnel -> Op \cup {None}]
    BY <1>9 DEF TunnelExit, TunnelsTypeOK
  <2> QED BY <1>9, <2>1 DEF TunnelExit, TunnelsTypeOK, bridge
<1>10. ASSUME NEW k \in stopping, Stopped(k) PROVE Goal
  <2>1. k \in Stop
    BY <1>11
  <2>2. runtime' \in [Tunnel -> Shows] /\ saved' \subseteq Tunnel /\ tracked' \subseteq Tunnel /\ stopping' \subseteq Stop
    BY <1>10, <1>11, <2>1, StopTypes DEF Stopped, Show, TunnelsTypeOK
  <2>3. sync' \in Sync
    <3>1. sync \in Sync
      BY DEF TunnelsTypeOK
    <3>2. AskStatus(saved') \/ sync' = sync
      BY <1>10 DEF Stopped
    <3> QED BY <2>2, <3>1, <3>2, StatusTypes
  <2> QED BY <1>10, <1>12, <2>2, <2>3 DEF Stopped, TunnelsTypeOK
<1> QED BY <1>1, <1>2, <1>3, <1>4, <1>5, <1>6, <1>7, <1>8, <1>9, <1>10 DEF PageStep

(* One call of startTunnel() goes on.                                      *)
LEMMA StartMoves ==
  ASSUME TunnelsTypeOK, NEW o \in Op,
         NEW at \in {"idle", "keys", "auth", "sent", "opened", "refused", "thrown", "ended"}, To(o, at)
  PROVE  /\ start' \in [Op -> Start] /\ start'[o].at = at
         /\ \A p \in Op : start'[p].tunnel = start[p].tunnel /\ start'[p].here = start[p].here
         /\ \A p \in Op : p # o => start'[p].at = start[p].at
<1>1. start' = [start EXCEPT ![o] = [start[o] EXCEPT !.at = at]]
  BY DEF To
<1>2. \A p \in Op : start[p] \in Start
  BY DEF TunnelsTypeOK
<1>3. start \in [Op -> Start]
  BY DEF TunnelsTypeOK
<1>4. [start[o] EXCEPT !.at = at] \in Start
  BY <1>2 DEF Start
<1>5. start' \in [Op -> Start] /\ start'[o] = [start[o] EXCEPT !.at = at] /\ \A p \in Op : p # o => start'[p] = start[p]
  BY <1>1, <1>3, <1>4
<1> QED BY <1>2, <1>5 DEF Start

(* What a call of startTunnel() does to its own state and to what it sends.*)
LEMMA OneStarts ==
  ASSUME SentInv, ops' = ops, NEW o \in Op, start[o].at # "idle",
         NEW at \in {"auth", "sent", "opened", "refused", "thrown", "ended"}, To(o, at), TunnelsTypeOK',
         ipc' \in Seq(Message), \A p \in Op : Once(ipc', OpenOf(p)),
         \A p \in Op : Has(ipc', OpenOf(p)) => IF p = o THEN at = "sent" ELSE Has(ipc, OpenOf(p))
  PROVE  SentInv'
<1>1. /\ start'[o].at = at
      /\ \A p \in Op : start'[p].tunnel = start[p].tunnel
      /\ \A p \in Op : p # o => start'[p].at = start[p].at
  BY StartMoves DEF SentInv
<1>2. ASSUME NEW p \in Op
      PROVE  /\ start'[p].at # "idle" => start'[p].tunnel \in Tunnel
             /\ Has(ipc', OpenOf(p)) => start'[p].at = "sent"
             /\ p > ops => start'[p].at = "idle"
  BY <1>1 DEF SentInv
<1> QED BY <1>2 DEF SentInv, OpenOf


LEMMA ShowTypes ==
  ASSUME TunnelsTypeOK, NEW k, NEW status \in {"none", "running"}, Show(k, status)
  PROVE  runtime' \in [Tunnel -> {"none", "starting", "running", "stopping"}]
BY DEF Show, TunnelsTypeOK

LEMMA ProgressKeeps ==
  ASSUME BridgeTypeOK, SentInv, NEW o \in Op, TunnelProgress(o) \/ OpenTunnel(o)
  PROVE  SentInv'
<1>1. /\ ipc \in Seq(Message) /\ TunnelsTypeOK
      /\ \A p \in Op : Once(ipc, OpenOf(p)) /\ (Has(ipc, OpenOf(p)) => start[p].at = "sent")
  BY DEF SentInv
<1>2. \A p \in Op : p # o => OpenOf(p) # OpenOf(o)
  BY DEF OpenOf, Command
<1>3. ASSUME NEW at \in {"auth", "ended", "thrown"}, To(o, at), UNCHANGED <<ipc, ops>>, start[o].at \notin {"idle", "sent"},
             TunnelsTypeOK'
      PROVE  SentInv'
  <2>1. \A p \in Op : Has(ipc', OpenOf(p)) => IF p = o THEN at = "sent" ELSE Has(ipc, OpenOf(p))
    BY <1>1, <1>3
  <2>2. /\ ipc' \in Seq(Message) /\ ops' = ops /\ start[o].at # "idle"
        /\ \A p \in Op : Once(ipc', OpenOf(p))
    BY <1>1, <1>3
  <2> QED BY <2>1, <2>2, <1>3, OneStarts
<1>4. ASSUME NEW at \in {"auth", "sent", "opened", "refused", "thrown", "ended"}, To(o, at) PROVE start' \in [Op -> Start]
  BY <1>1, <1>4, StartMoves
<1>5. CASE HasKeys(o)
  <2>1. To(o, "auth") /\ UNCHANGED <<ipc, ops, saved, runtime, tracked, stopping, sync, up, forgotten>> /\ start[o].at = "keys"
    BY <1>5 DEF HasKeys, bridge
  <2>2. TunnelsTypeOK'
    BY <1>1, <1>4, <2>1 DEF TunnelsTypeOK
  <2> QED BY <2>1, <2>2, <1>3
<1>6. CASE NotStarted(o) \/ StartFailed(o)
  <2>1. /\ To(o, "ended") /\ Show(start[o], "none") /\ UNCHANGED <<ipc, ops, saved, tracked, stopping, sync, up, forgotten>>
        /\ start[o].at \in {"keys", "auth", "refused"}
    BY <1>6 DEF NotStarted, StartFailed, bridge
  <2>2. TunnelsTypeOK'
    BY <1>1, <1>4, <2>1, ShowTypes DEF TunnelsTypeOK
  <2> QED BY <2>1, <2>2, <1>3
<1>7. CASE AuthThrows(o)
  <2>1. To(o, "thrown") /\ UNCHANGED <<ipc, ops, saved, runtime, tracked, stopping, sync, up, forgotten>> /\ start[o].at = "auth"
    BY <1>7 DEF AuthThrows, bridge
  <2>2. TunnelsTypeOK'
    BY <1>1, <1>4, <2>1 DEF TunnelsTypeOK
  <2> QED BY <2>1, <2>2, <1>3
<1>8. CASE Started(o)
  <2>1. /\ To(o, "ended") /\ Show(start[o], "running") /\ UNCHANGED <<ipc, ops, saved, stopping, sync, up, forgotten>>
        /\ start[o].at = "opened" /\ Track(start[o].tunnel)
    BY <1>8 DEF Started, bridge
  <2>2. tracked' \subseteq Tunnel
    BY <1>1, <2>1 DEF Track, SentInv, TunnelsTypeOK
  <2>3. TunnelsTypeOK'
    BY <1>1, <1>4, <2>1, <2>2, ShowTypes DEF TunnelsTypeOK
  <2> QED BY <2>1, <2>3, <1>3
<1>9. CASE HasAuth(o)
  <2>1. /\ To(o, "sent") /\ ipc' = Append(ipc, OpenOf(o)) /\ UNCHANGED <<ops, saved, runtime, stopping, sync, up, forgotten>>
        /\ start[o].at = "auth" /\ Track(start[o].tunnel)
    BY <1>9 DEF HasAuth, Invoke, OpenOf
  <2>2. tracked' \subseteq Tunnel
    BY <1>1, <2>1 DEF Track, SentInv, TunnelsTypeOK
  <2>3. TunnelsTypeOK'
    BY <1>1, <1>4, <2>1, <2>2 DEF TunnelsTypeOK
  <2>4. OpenOf(o) \in Message
    BY DEF OpenOf, Command, Message, AllCommands, TunnelCommands, Maybe1
  <2>5. /\ ipc' \in Seq(Message)
        /\ \A m : Has(ipc', m) <=> Has(ipc, m) \/ m = OpenOf(o)
        /\ \A m : (~Has(ipc, m) \/ (m # OpenOf(o) /\ Once(ipc, m))) => Once(ipc', m)
    BY <1>1, <2>1, <2>4, LastSent
  <2>6. \A p \in Op : Has(ipc', OpenOf(p)) => IF p = o THEN "sent" = "sent" ELSE Has(ipc, OpenOf(p))
    BY <1>2, <2>5
  <2>7. \A p \in Op : Once(ipc', OpenOf(p))
    BY <1>1, <1>2, <2>1, <2>5
  <2>8. start[o].at # "idle" /\ ops' = ops
    BY <2>1
  <2> QED BY <2>1, <2>3, <2>5, <2>6, <2>7, <2>8, OneStarts
<1>10. CASE OpenTunnel(o)
  <2>1. /\ ipc # <<>> /\ Head(ipc) = OpenOf(o) /\ ipc' = Tail(ipc) /\ UNCHANGED <<ops, saved, runtime, tracked, stopping, sync, forgotten>>
        /\ \/ To(o, "opened") /\ up' = [up EXCEPT ![start[o].tunnel] = o]
           \/ To(o, "refused") /\ UNCHANGED up
    BY <1>10 DEF OpenTunnel, Run, OpenOf
  <2>2. up' \in [Tunnel -> Op \cup {None}]
    BY <1>1, <2>1 DEF TunnelsTypeOK
  <2>3. TunnelsTypeOK'
    BY <1>1, <1>4, <2>1, <2>2 DEF TunnelsTypeOK
  <2>4. /\ Tail(ipc) \in Seq(Message)
        /\ \A m : Has(Tail(ipc), m) => Has(ipc, m)
        /\ \A m : Once(ipc, m) => Once(Tail(ipc), m)
        /\ Once(ipc, Head(ipc)) => ~Has(Tail(ipc), Head(ipc))
    BY <1>1, <2>1, FirstRun
  <2>5. ipc' \in Seq(Message) /\ \A p \in Op : Once(ipc', OpenOf(p)) /\ (Has(ipc', OpenOf(p)) => p # o /\ Has(ipc, OpenOf(p)))
    BY <1>1, <2>1, <2>4
  <2>6. Has(ipc, OpenOf(o))
    <3>1. 1 \in DOMAIN ipc /\ Head(ipc) = ipc[1]
      BY <1>1, <2>1, EmptySeq
    <3> QED BY <2>1, <3>1 DEF Has
  <2>7. start[o].at # "idle" /\ ops' = ops
    BY <1>1, <2>1, <2>6
  <2>8. PICK at \in {"opened", "refused"} : To(o, at)
    BY <2>1
  <2>9. \A p \in Op : Has(ipc', OpenOf(p)) => IF p = o THEN at = "sent" ELSE Has(ipc, OpenOf(p))
    BY <2>5
  <2>10. at \in {"auth", "sent", "opened", "refused", "thrown", "ended"}
    BY <2>8
  <2> QED BY <2>3, <2>5, <2>7, <2>8, <2>9, <2>10, OneStarts
<1>11. TunnelProgress(o) => HasKeys(o) \/ NotStarted(o) \/ AuthThrows(o) \/ HasAuth(o) \/ Started(o) \/ StartFailed(o)
  BY DEF TunnelProgress
<1> QED BY <1>5, <1>6, <1>7, <1>8, <1>9, <1>10, <1>11

LEMMA StartKeeps == ASSUME BridgeTypeOK, SentInv, NEW t \in Tunnel, StartTunnel(t) PROVE SentInv'
<1>1. ops \in Nat /\ ops' = ops + 1 /\ ops' \in Op
  BY NativeBridgeAssumption DEF StartTunnel, Begin, BridgeTypeOK, Op
<1> DEFINE new == [tunnel |-> t, here |-> TRUE, at |-> "keys"]
<1>2. new \in Start /\ new.tunnel = t
  BY DEF Start
<1>3. start' = [start EXCEPT ![ops'] = new] /\ UNCHANGED <<ipc, saved, tracked, stopping, sync, up, forgotten>>
  BY DEF StartTunnel
<1>4. TunnelsTypeOK /\ start \in [Op -> Start]
  BY DEF SentInv, TunnelsTypeOK
<1> HIDE DEF new
<1>5. start' \in [Op -> Start] /\ start'[ops'] = new /\ \A p \in Op : p # ops' => start'[p] = start[p]
  BY <1>1, <1>2, <1>3, <1>4
<1>6. TunnelsTypeOK'
  <2>1. runtime' \in [Tunnel -> {"none", "starting", "running", "stopping"}]
    BY <1>4 DEF StartTunnel, TunnelsTypeOK
  <2> QED BY <1>3, <1>4, <1>5, <2>1 DEF TunnelsTypeOK
<1>7. start[ops'].at = "idle"
  BY <1>1 DEF SentInv
<1>8. \A p \in Op : p > ops' => p > ops /\ p # ops'
  BY <1>1 DEF Op
<1>9. ASSUME NEW p \in Op
      PROVE  /\ start'[p].at # "idle" => start'[p].tunnel \in Tunnel
             /\ Has(ipc, OpenOf(p)) => start'[p].at = "sent"
             /\ p > ops' => start'[p].at = "idle"
  <2>1. CASE p = ops'
    BY <2>1, <1>1, <1>2, <1>5, <1>7 DEF SentInv
  <2>2. CASE p # ops'
    BY <2>2, <1>5, <1>8 DEF SentInv
  <2> QED BY <2>1, <2>2
<1>10. ipc \in Seq(Message) /\ \A p \in Op : Once(ipc, OpenOf(p))
  BY DEF SentInv
<1> QED BY <1>3, <1>6, <1>9, <1>10 DEF SentInv, OpenOf

SendOf(o) == Command("sftp_transfer", o)
CancelOf(o) == Command("sftp_cancel", o)
StatusOfAll == Command("ssh_tunnel_status", None)

(* A sign-out cancels what is listed and closes what is tracked.           *)
LEMMA SignOutSends ==
  ASSUME Grounds, SentInv, SignOut
  PROVE  /\ ipc' \in Seq(Message)
         /\ \A o : Same(ipc, ipc', OpenOf(o), OpenOf(o))
         /\ \A o : Same(ipc, ipc', SendOf(o), SendOf(o))
         /\ \A o : Before(ipc, SendOf(o), CancelOf(o)) => Before(ipc', SendOf(o), CancelOf(o))
         /\ \A o : Has(ipc', CancelOf(o)) <=> Has(ipc, CancelOf(o)) \/ (o \in Op /\ items[o] \in Unfinished)
         /\ \A t : Has(ipc', CloseOf(t)) <=> Has(ipc, CloseOf(t)) \/ t \in tracked
         /\ Same(Unasked, ipc', StatusOfAll, StatusOfAll)
<1> DEFINE unfinished == {o \in Op : items[o] \in Unfinished}
           open == {s \in Held : obj[s].native}
           a == Unasked
           b == a \o Commands("sftp_cancel", unfinished)
           c == b \o Commands("pty_close", open)
           d == c \o Commands("ssh_tunnel_close", tracked)
<1>1. ipc' = d
  BY DEF SignOut, CancelListed, ResetCommands, CloseTracked
<1>2. ipc \in Seq(Message) /\ tracked \in SUBSET Tunnel
  BY DEF SentInv, TunnelsTypeOK
<1>3. /\ "ssh_tunnel_status" \in {"ssh_tunnel_status"}
      /\ "sftp_cancel" \in {"sftp_cancel"} \cap AllCommands
      /\ "pty_close" \in {"pty_close"} \cap AllCommands
      /\ "ssh_tunnel_close" \in {"ssh_tunnel_close"} \cap AllCommands
  BY DEF AllCommands, TabCommands, TransferCommands, TunnelCommands
<1>4. unfinished \in SUBSET (Maybe1 \cup Tunnel) /\ IsFiniteSet(unfinished)
  <2>1. unfinished \in SUBSET Maybe1
    BY DEF Maybe1
  <2> HIDE DEF unfinished
  <2> QED BY <2>1, FiniteNumbers
<1>5. open \in SUBSET (Maybe1 \cup Tunnel) /\ IsFiniteSet(open)
  <2>1. \A i \in DOMAIN tabs : tabs[i].session \in Maybe1
    <3>1. \A i \in DOMAIN tabs : tabs[i] \in Tab
      BY OnTheGround DEF TabsTypes
    <3> QED BY <3>1 DEF Tab
  <2>2. open \in SUBSET Maybe1
    BY <2>1 DEF Held
  <2> HIDE DEF open
  <2> QED BY <2>2, FiniteNumbers
<1>6. tracked \in SUBSET (Maybe1 \cup Tunnel) /\ IsFiniteSet(tracked)
  BY <1>2, TunnelAssumption, FS_Subset
<1>7. \A o : o \in unfinished <=> o \in Op /\ items[o] \in Unfinished
  OBVIOUS
<1>8. /\ b = a \o Commands("sftp_cancel", unfinished)
      /\ c = b \o Commands("pty_close", open)
      /\ d = c \o Commands("ssh_tunnel_close", tracked)
  OBVIOUS
<1> HIDE DEF unfinished, open, a, b, c, d
<1>9. Sends({"ssh_tunnel_status"}, ipc, a) /\ a \in Seq(Message)
  BY <1>2, <1>3, UnaskedSends DEF Sends, a
<1>10. /\ Sends({"sftp_cancel"}, a, b) /\ b \in Seq(Message)
       /\ \A m : Has(b, m) <=> Has(a, m) \/ \E x \in unfinished : m = Command("sftp_cancel", x)
       /\ \A m, n : m.cmd # "sftp_cancel" => Same(a, b, m, m) /\ (Before(a, m, n) => Before(b, m, n))
  <2>1. /\ Sends({"sftp_cancel"}, a, b)
        /\ \A m : Has(b, m) <=> Has(a, m) \/ \E x \in unfinished : m = Command("sftp_cancel", x)
        /\ \A m, n : m.cmd # "sftp_cancel" => Same(a, b, m, m) /\ (Before(a, m, n) => Before(b, m, n))
    <3>1. LET t == a \o Commands("sftp_cancel", unfinished) IN
          /\ Sends({"sftp_cancel"}, a, t)
          /\ \A m : Has(t, m) <=> Has(a, m) \/ \E x \in unfinished : m = Command("sftp_cancel", x)
          /\ \A m, n : m.cmd # "sftp_cancel" => Same(a, t, m, m) /\ (Before(a, m, n) => Before(t, m, n))
      BY <1>3, <1>4, <1>9, SendsMany
    <3> QED BY <1>8, <3>1
  <2> QED BY <2>1 DEF Sends
<1>11. /\ Sends({"pty_close"}, b, c) /\ c \in Seq(Message)
  <2>1. Sends({"pty_close"}, b, c)
    BY <1>3, <1>5, <1>8, <1>10, SendsMany
  <2> QED BY <2>1 DEF Sends
<1>12. /\ Sends({"ssh_tunnel_close"}, c, d) /\ d \in Seq(Message)
       /\ \A m : Has(d, m) <=> Has(c, m) \/ \E x \in tracked : m = Command("ssh_tunnel_close", x)
  <2>1. /\ Sends({"ssh_tunnel_close"}, c, d)
        /\ \A m : Has(d, m) <=> Has(c, m) \/ \E x \in tracked : m = Command("ssh_tunnel_close", x)
    <3>1. LET t == c \o Commands("ssh_tunnel_close", tracked) IN
          /\ Sends({"ssh_tunnel_close"}, c, t)
          /\ \A m : Has(t, m) <=> Has(c, m) \/ \E x \in tracked : m = Command("ssh_tunnel_close", x)
          /\ \A m, n : m.cmd # "ssh_tunnel_close" => Same(c, t, m, m) /\ (Before(c, m, n) => Before(t, m, n))
      BY <1>3, <1>6, <1>11, SendsMany
    <3> QED BY <1>8, <3>1
  <2> QED BY <2>1 DEF Sends
<1>13. \A o : /\ OpenOf(o).cmd = "ssh_tunnel_open" /\ SendOf(o).cmd = "sftp_transfer"
              /\ CancelOf(o).cmd = "sftp_cancel" /\ CloseOf(o).cmd = "ssh_tunnel_close"
  BY DEF OpenOf, SendOf, CancelOf, CloseOf, Command
<1>14. ASSUME NEW o PROVE Same(ipc, d, OpenOf(o), OpenOf(o))
  BY <1>9, <1>10, <1>11, <1>12, <1>13, SameTwice DEF Sends
<1>15. ASSUME NEW o
       PROVE  /\ Same(ipc, d, SendOf(o), SendOf(o))
              /\ Before(ipc, SendOf(o), CancelOf(o)) => Before(d, SendOf(o), CancelOf(o))
              /\ Has(d, CancelOf(o)) <=> Has(ipc, CancelOf(o)) \/ o \in unfinished
  <2>1. Same(ipc, a, SendOf(o), CancelOf(o)) /\ Same(ipc, a, SendOf(o), SendOf(o))
    BY <1>9, <1>13 DEF Sends
  <2>2. Same(a, b, SendOf(o), SendOf(o)) /\ (Before(a, SendOf(o), CancelOf(o)) => Before(b, SendOf(o), CancelOf(o)))
    BY <1>10, <1>13
  <2>3. Has(b, CancelOf(o)) <=> Has(a, CancelOf(o)) \/ o \in unfinished
    BY <1>10, CommandsDiffer DEF CancelOf
  <2>4. Same(b, c, SendOf(o), CancelOf(o)) /\ Same(b, c, SendOf(o), SendOf(o))
    BY <1>11, <1>13 DEF Sends
  <2>5. Same(c, d, SendOf(o), CancelOf(o)) /\ Same(c, d, SendOf(o), SendOf(o))
    BY <1>12, <1>13 DEF Sends
  <2> QED BY <2>1, <2>2, <2>3, <2>4, <2>5 DEF Same
<1>16. ASSUME NEW t PROVE Has(d, CloseOf(t)) <=> Has(ipc, CloseOf(t)) \/ t \in tracked
  <2>1. Same(ipc, a, CloseOf(t), CloseOf(t)) /\ Same(a, b, CloseOf(t), CloseOf(t)) /\ Same(b, c, CloseOf(t), CloseOf(t))
    BY <1>9, <1>10, <1>11, <1>13 DEF Sends
  <2>2. Has(d, CloseOf(t)) <=> Has(c, CloseOf(t)) \/ t \in tracked
    BY <1>12, CommandsDiffer DEF CloseOf
  <2> QED BY <2>1, <2>2 DEF Same
<1>17. Same(a, d, StatusOfAll, StatusOfAll)
  <2>1. StatusOfAll.cmd = "ssh_tunnel_status"
    BY DEF StatusOfAll, Command
  <2>2. Same(a, b, StatusOfAll, StatusOfAll) /\ Same(b, c, StatusOfAll, StatusOfAll) /\ Same(c, d, StatusOfAll, StatusOfAll)
    BY <1>10, <1>11, <1>12, <2>1 DEF Sends
  <2> QED BY <2>2, SameTwice
<1>18. a = Unasked
  BY DEF a
<1> QED BY <1>1, <1>7, <1>12, <1>14, <1>15, <1>16, <1>17, <1>18

(* Who sends what.                                                         *)
LEMMA Speakers ==
  ASSUME Grounds, ipc \in Seq(Message), [Next]_vars
  PROVE  \/ SignOut
         \/ TunnelsNext /\ UNCHANGED transferVars
         \/ TransfersNext /\ UNCHANGED tunnelVars
         \/ UNCHANGED <<tunnelVars, transferVars>> /\ Sends(TabCommands \cup EditorCommands, ipc, ipc')
<1> DEFINE Others == RecordsNext \/ KeysNext \/ AgentsNext \/ PanesNext \/ AssistantNext \/ WebNext
                     \/ ListingsNext \/ AiNext \/ PipesNext
<1>1. \/ SignOut
      \/ TunnelsNext /\ UNCHANGED transferVars
      \/ TransfersNext /\ UNCHANGED tunnelVars
      \/ UNCHANGED <<tunnelVars, transferVars>> /\ (TabsNext \/ EditorNext \/ Others \/ UNCHANGED vars)
  BY DEF Next, vars
<1>2. TabsNext => Sends(TabCommands \cup EditorCommands, ipc, ipc')
  <2>1. TabCommands \subseteq TabCommands \cup EditorCommands
    OBVIOUS
  <2> QED BY <2>1, TabsSend, SendsLess
<1>3. EditorNext => Sends(TabCommands \cup EditorCommands, ipc, ipc')
  <2>1. EditorCommands \subseteq TabCommands \cup EditorCommands
    OBVIOUS
  <2> QED BY <2>1, EditorSend, SendsLess DEF Grounds
<1>4. UNCHANGED vars => Sends(TabCommands \cup EditorCommands, ipc, ipc')
  BY StillSends DEF vars, bridge
<1>5. Others => Sends(TabCommands \cup EditorCommands, ipc, ipc')
  BY OthersQuiet, StillSends
<1> QED BY <1>1, <1>2, <1>3, <1>4, <1>5

LEMMA Counts == ASSUME BridgeTypeOK, [Next]_vars PROVE ops \in Nat /\ (ops' = ops \/ ops' = ops + 1)
<1>1. CASE UNCHANGED vars
  BY <1>1 DEF vars, bridge, BridgeTypeOK
<1> QED BY <1>1, OpsGrow, NativeBridgeAssumption DEF Next, Begin, BridgeTypeOK

LEMMA SentInductive == Grounds /\ SentInv /\ [Next]_vars => SentInv'
<1> SUFFICES ASSUME Grounds, SentInv, [Next]_vars PROVE SentInv'
  OBVIOUS
<1>1. ipc \in Seq(Message) /\ TunnelsTypeOK /\ BridgeTypeOK /\ ops \in Nat /\ (ops' = ops \/ ops' = ops + 1)
  BY Counts DEF SentInv, Grounds
<1>2. CASE SignOut
  <2>1. ipc' \in Seq(Message) /\ \A o : Same(ipc, ipc', OpenOf(o), OpenOf(o))
    BY <1>2, SignOutSends
  <2>2. PageGone /\ tracked' = {} /\ UNCHANGED <<saved, up, forgotten>>
    BY <1>2 DEF SignOut, CloseAllTunnels
  <2>3. start' \in [Op -> Start] /\ \A o \in Op : start'[o].at = start[o].at /\ start'[o].tunnel = start[o].tunnel
    <3>1. start' = [o \in Op |-> [start[o] EXCEPT !.here = FALSE]]
      BY <2>2 DEF PageGone
    <3>2. start \in [Op -> Start]
      BY <1>1 DEF TunnelsTypeOK
    <3> QED BY <3>1, <3>2, StartsLeft
  <2>4. stopping' \subseteq Stop
    <3>1. stopping' = {[k EXCEPT !.here = FALSE] : k \in stopping}
      BY <2>2 DEF PageGone
    <3>2. stopping \subseteq Stop
      BY <1>1 DEF TunnelsTypeOK, Stop
    <3> QED BY <3>1, <3>2, StopTypes
  <2>5. /\ runtime' \in [Tunnel -> {"none", "starting", "running", "stopping"}]
        /\ sync' \in [at : {"idle", "asked", "answered"}, rows : SUBSET Tunnel, running : SUBSET Tunnel]
    BY <2>2 DEF PageGone, NoRuntime, NoSync
  <2>6. TunnelsTypeOK'
    BY <1>1, <2>2, <2>3, <2>4, <2>5 DEF TunnelsTypeOK, Stop
  <2> QED BY <1>1, <2>1, <2>3, <2>6, SentStays
<1>3. CASE TunnelsNext
  <2>1. CASE PageStep
    <3>1. Sends(PageCommands, ipc, ipc') /\ "ssh_tunnel_open" \notin PageCommands
      BY <1>1, <2>1, PageSends DEF PageCommands
    <3>2. ipc' \in Seq(Message) /\ \A o : Same(ipc, ipc', OpenOf(o), OpenOf(o))
      BY <3>1, SendsKeepStarts
    <3>3. TunnelsTypeOK' /\ \A o \in Op : start'[o].at = start[o].at /\ start'[o].tunnel = start[o].tunnel
      BY <1>1, <2>1, PageTypes
    <3> QED BY <1>1, <3>2, <3>3, SentStays
  <2> QED BY <1>1, <1>3, <2>1, ProgressKeeps, StartKeeps DEF TunnelsNext, PageStep
<1>4. ASSUME UNCHANGED tunnelVars, NEW C, "ssh_tunnel_open" \notin C, Sends(C, ipc, ipc') PROVE SentInv'
  <2>1. ipc' \in Seq(Message) /\ \A o : Same(ipc, ipc', OpenOf(o), OpenOf(o))
    BY <1>4, SendsKeepStarts
  <2>2. UNCHANGED <<saved, runtime, tracked, start, stopping, sync, up, forgotten>>
    BY <1>4 DEF tunnelVars
  <2>3. TunnelsTypeOK'
    BY <1>1, <2>2 DEF TunnelsTypeOK
  <2> QED BY <1>1, <2>1, <2>2, <2>3, SentStays
<1>5. CASE TransfersNext /\ UNCHANGED tunnelVars
  <2>1. Sends(TransferCommands, ipc, ipc') /\ "ssh_tunnel_open" \notin TransferCommands
    BY <1>1, <1>5, TransfersSend DEF TransferCommands
  <2> QED BY <1>4, <1>5, <2>1
<1>6. CASE UNCHANGED <<tunnelVars, transferVars>> /\ Sends(TabCommands \cup EditorCommands, ipc, ipc')
  <2>1. "ssh_tunnel_open" \notin TabCommands \cup EditorCommands
    BY DEF TabCommands, EditorCommands
  <2> QED BY <1>4, <1>6, <2>1
<1> QED BY <1>1, <1>2, <1>3, <1>5, <1>6, Speakers

(* Whatever is sent to the main thread of the shell is one of its commands *)
(* and a start of a tunnel is sent at most once, by the call that then     *)
(* waits for it; the records of the tunnels have their types (TunnelsPage  *)
(* startTunnel, lib.rs invoke_handler).                                    *)
THEOREM SentInvariant == Spec => []SentInv
<1>1. Spec => [](BridgeTypeOK /\ TabsInv)
  BY BridgeInvariant, TabsInvariant, PTL
<1>2. Grounds <=> BridgeTypeOK /\ TabsInv
  BY DEF Grounds
<1> QED BY <1>1, <1>2, SpecSteps, SentInitial, SentInductive, PTL

------------------------------------------------------------------------------
(* Transfers                                                               *)

Happening == [id : Op, state : {"started"} \cup Final]
TransferTypes ==
  /\ items \in [Op -> Unfinished \cup Final \cup {"absent"}]
  /\ reply \in [Op -> {"none", "waiting", "started", "refused"}]
  /\ process \in [Op -> {"none", "running", "reported"} \cup Final]
  /\ events \in Seq(Happening)

(* A transfer is sent once, with a number of its own, and not cancelled    *)
(* before; it has a process only after that, and is not finished before.   *)
TransferFits(o) ==
  /\ Has(ipc, SendOf(o)) => reply[o] = "waiting"
  /\ Once(ipc, SendOf(o)) /\ Before(ipc, SendOf(o), CancelOf(o))
  /\ reply[o] \in {"waiting", "refused"} => process[o] = "none" /\ items[o] \notin Final
  /\ o > ops => /\ items[o] = "absent" /\ reply[o] = "none" /\ process[o] = "none"
                /\ ~Has(ipc, SendOf(o)) /\ ~Has(ipc, CancelOf(o))

(* A process that was reported tells nothing more, one that was not has    *)
(* told its start at most; what is told last is the end.                   *)
EventsFit(o) ==
  /\ process[o] = "none" => \A i \in DOMAIN events : events[i].id # o
  /\ process[o] \in {"running"} \cup Final =>
       items[o] \notin Final /\ \A i \in DOMAIN events : events[i].id = o => events[i].state = "started"
  /\ \A i \in DOMAIN events : events[i].id = o => items[o] \notin Final
  /\ \A i, j \in DOMAIN events : events[i].id = o /\ events[j].id = o /\ i < j => events[i].state = "started"

(* What runs or is to run is listed, or is being cancelled.                *)
TransferListed(o) ==
  process[o] = "running" \/ Has(ipc, SendOf(o)) => items[o] \in Unfinished \/ Has(ipc, CancelOf(o))

TransfersInv ==
  /\ TransferTypes
  /\ \A o \in Op : TransferFits(o) /\ EventsFit(o)
  /\ ~Hasty => \A o \in Op : TransferListed(o)

LEMMA TransfersInitial == Init => TransfersInv
<1> SUFFICES ASSUME Init PROVE TransfersInv
  OBVIOUS
<1>1. /\ items = [o \in Op |-> "absent"] /\ reply = [o \in Op |-> "none"] /\ process = [o \in Op |-> "none"]
      /\ events = <<>> /\ ipc = <<>>
  BY DEF Init, TransfersInit, BridgeInit
<1>2. TransferTypes
  BY <1>1 DEF TransferTypes
<1>3. \A m, n : ~Has(ipc, m) /\ Once(ipc, m) /\ Before(ipc, m, n)
  BY <1>1 DEF Has, Once, Before
<1>4. \A o \in Op : items[o] = "absent" /\ reply[o] = "none" /\ process[o] = "none"
  BY <1>1
<1>5. \A i : i \notin DOMAIN events
  BY <1>1
<1> QED BY <1>2, <1>3, <1>4, <1>5 DEF TransfersInv, TransferFits, EventsFit, TransferListed, Final

(* A transfer that a step does not touch.                                  *)
LEMMA Untouched ==
  ASSUME NEW p \in Op, TransferFits(p), ops \in Nat, ops' = ops \/ ops' = ops + 1,
         Same(ipc, ipc', SendOf(p), CancelOf(p)),
         items'[p] = items[p], reply'[p] = reply[p], process'[p] = process[p]
  PROVE  TransferFits(p)' /\ (TransferListed(p) => TransferListed(p)')
<1>1. p > ops' => p > ops
  BY DEF Op
<1> QED BY <1>1 DEF TransferFits, TransferListed, Same, SendOf, CancelOf

LEMMA EventsStay ==
  ASSUME NEW p \in Op, EventsFit(p), items'[p] = items[p], process'[p] = process[p], UNCHANGED events
  PROVE  EventsFit(p)'
BY DEF EventsFit

LEMMA EventsOfOthers ==
  ASSUME NEW p \in Op, EventsFit(p), items'[p] = items[p], process'[p] = process[p], events \in Seq(Happening),
         NEW e \in Happening, e.id # p, events' = Append(events, e)
  PROVE  EventsFit(p)'
<1> DEFINE l == Len(events)
<1>1. l \in Nat /\ DOMAIN events = 1 .. l /\ DOMAIN events' = 1 .. l + 1
  OBVIOUS
<1>2. events'[l + 1] = e /\ \A i \in 1 .. l : events'[i] = events[i]
  OBVIOUS
<1> HIDE DEF l
<1>3. \A i \in DOMAIN events' : events'[i].id = p => i \in DOMAIN events /\ events'[i] = events[i]
  BY <1>1, <1>2
<1> QED BY <1>3 DEF EventsFit

LEMMA EventTold ==
  ASSUME NEW p \in Op, NEW state \in {"started"} \cup Final, events \in Seq(Happening), Emit(p, state)
  PROVE  /\ events' \in Seq(Happening)
         /\ \A i \in DOMAIN events' : \/ i \in DOMAIN events /\ events'[i] = events[i]
                                      \/ events'[i].id = p /\ events'[i].state = state /\ \A j \in DOMAIN events' : ~(i < j)
<1> DEFINE l == Len(events)  e == [id |-> p, state |-> state]
<1>1. e \in Happening /\ e.id = p /\ e.state = state
  BY DEF Happening
<1>2. events' = Append(events, e)
  BY DEF Emit
<1> HIDE DEF e
<1>3. l \in Nat /\ DOMAIN events = 1 .. l /\ DOMAIN events' = 1 .. l + 1 /\ events' \in Seq(Happening)
  BY <1>1, <1>2
<1>4. events'[l + 1] = e /\ \A i \in 1 .. l : events'[i] = events[i]
  BY <1>1, <1>2
<1> HIDE DEF l
<1>5. \A i \in 1 .. l + 1 : i \in 1 .. l \/ (i = l + 1 /\ \A j \in 1 .. l + 1 : ~(i < j))
  BY <1>3
<1> QED BY <1>1, <1>3, <1>4, <1>5

(* Nothing is said of the others.                                          *)
LEMMA EmitOthers ==
  ASSUME NEW p \in Op, EventsFit(p), items'[p] = items[p], process'[p] = process[p], events \in Seq(Happening),
         NEW o \in Op, o # p, NEW state \in {"started"} \cup Final, Emit(o, state)
  PROVE  EventsFit(p)'
<1> DEFINE e == [id |-> o, state |-> state]
<1>1. e \in Happening /\ e.id # p /\ events' = Append(events, e)
  BY DEF Happening, Emit
<1> HIDE DEF e
<1> QED BY <1>1, EventsOfOthers

LEMMA EventHeard ==
  ASSUME events \in Seq(Happening), events # <<>>, events' = Tail(events)
  PROVE  /\ events' \in Seq(Happening) /\ Head(events) = events[1] /\ 1 \in DOMAIN events /\ events[1] \in Happening
         /\ \A i \in DOMAIN events' : i + 1 \in DOMAIN events /\ 1 < i + 1 /\ events'[i] = events[i + 1]
         /\ \A i, j \in DOMAIN events' : i < j => i + 1 < j + 1
<1> DEFINE l == Len(events)
<1>1. l \in Nat /\ DOMAIN events = 1 .. l /\ l >= 1 /\ Head(events) = events[1]
  BY EmptySeq
<1>2. events' \in Seq(Happening) /\ DOMAIN events' = 1 .. l - 1 /\ \A j \in 1 .. l - 1 : events'[j] = events[j + 1]
  <2>1. events' \in Seq(Happening) /\ Len(events') = l - 1 /\ \A j \in 1 .. Len(events') : events'[j] = events[j + 1]
    BY HeadTailProperties
  <2> QED BY <2>1
<1>3. events[1] \in Happening /\ 1 \in 1 .. l
  BY <1>1
<1> HIDE DEF l
<1> QED BY <1>1, <1>2, <1>3

LEMMA CancelsDiffer ==
  \A o, p : /\ SendOf(o) # CancelOf(p)
            /\ SendOf(o) = SendOf(p) <=> o = p
            /\ CancelOf(o) = CancelOf(p) <=> o = p
BY DEF SendOf, CancelOf, Command

(* A step of one transfer: what it leaves to show of the others.           *)
LEMMA OneTransfer ==
  ASSUME BridgeTypeOK, TransfersInv, NEW o \in Op, ops' = ops \/ ops' = ops + 1, pace' = pace, TransferTypes',
         \A p \in Op : p # o => /\ items'[p] = items[p] /\ reply'[p] = reply[p] /\ process'[p] = process[p]
                                /\ Same(ipc, ipc', SendOf(p), CancelOf(p)) /\ EventsFit(p)',
         TransferFits(o)', EventsFit(o)', ~Hasty => TransferListed(o)'
  PROVE  TransfersInv'
<1>1. ops \in Nat
  BY NativeBridgeAssumption DEF BridgeTypeOK
<1>2. ASSUME NEW p \in Op PROVE TransferFits(p)' /\ EventsFit(p)' /\ (~Hasty => TransferListed(p)')
  <2>1. CASE p # o
    <3>1. /\ Same(ipc, ipc', SendOf(p), CancelOf(p))
          /\ items'[p] = items[p] /\ reply'[p] = reply[p] /\ process'[p] = process[p]
      BY <2>1
    <3>2. TransferFits(p) /\ (~Hasty => TransferListed(p))
      BY DEF TransfersInv
    <3>3. TransferFits(p)' /\ (TransferListed(p) => TransferListed(p)')
      BY <1>1, <3>1, <3>2, Untouched
    <3> QED BY <2>1, <3>2, <3>3
  <2> QED BY <2>1
<1>3. Hasty' <=> Hasty
  BY DEF Hasty
<1> QED BY <1>2, <1>3 DEF TransfersInv

LEMMA SpawnKeepsTransfers ==
  ASSUME BridgeTypeOK, SentInv, TransfersInv, NEW o \in Op, SpawnTransfer(o) PROVE TransfersInv'
<1>1. /\ ipc \in Seq(Message) /\ ipc # <<>> /\ Head(ipc) = SendOf(o) /\ ipc' = Tail(ipc)
      /\ UNCHANGED <<ops, items, pace>>
  BY DEF SentInv, SpawnTransfer, Run, SendOf, shared, manner
<1>2. /\ Tail(ipc) \in Seq(Message)
      /\ \A m : m # Head(ipc) => (Has(Tail(ipc), m) <=> Has(ipc, m))
      /\ \A m : Once(ipc, m) => Once(Tail(ipc), m)
      /\ Once(ipc, Head(ipc)) => ~Has(Tail(ipc), Head(ipc))
      /\ \A m, n : Before(ipc, m, n) => Before(Tail(ipc), m, n)
  BY <1>1, FirstRun
<1>3. /\ \A m : m # SendOf(o) => (Has(ipc', m) <=> Has(ipc, m))
      /\ \A m : Once(ipc, m) => Once(ipc', m)
      /\ Once(ipc, SendOf(o)) => ~Has(ipc', SendOf(o))
      /\ \A m, n : Before(ipc, m, n) => Before(ipc', m, n)
  BY <1>1, <1>2
<1>4. Has(ipc, SendOf(o))
  <2>1. 1 \in DOMAIN ipc /\ Head(ipc) = ipc[1]
    BY <1>1, EmptySeq
  <2> QED BY <1>1, <2>1 DEF Has
<1>5. TransferTypes /\ TransferFits(o) /\ EventsFit(o) /\ (~Hasty => TransferListed(o))
  BY DEF TransfersInv
<1>6. reply[o] = "waiting" /\ process[o] = "none" /\ items[o] \notin Final /\ Once(ipc, SendOf(o)) /\ ~(o > ops)
      /\ Before(ipc, SendOf(o), CancelOf(o)) /\ \A i \in DOMAIN events : events[i].id # o
  BY <1>4, <1>5 DEF TransferFits, EventsFit
<1>7. \A p \in Op : p # o => Same(ipc, ipc', SendOf(p), CancelOf(p))
  BY <1>3, CancelsDiffer DEF Same
<1>8. /\ ~Has(ipc', SendOf(o)) /\ Once(ipc', SendOf(o)) /\ Before(ipc', SendOf(o), CancelOf(o))
      /\ (Has(ipc', CancelOf(o)) <=> Has(ipc, CancelOf(o)))
  BY <1>3, <1>6, CancelsDiffer
<1>9. ~Hasty => items[o] \in Unfinished \/ Has(ipc', CancelOf(o))
  BY <1>4, <1>5, <1>8 DEF TransferListed
<1>10. CASE reply' = [reply EXCEPT ![o] = "started"] /\ process' = [process EXCEPT ![o] = "running"] /\ Emit(o, "started")
  <2>1. /\ reply'[o] = "started" /\ process'[o] = "running"
        /\ \A p \in Op : p # o => reply'[p] = reply[p] /\ process'[p] = process[p]
    BY <1>5, <1>10 DEF TransferTypes
  <2>2. events \in Seq(Happening) /\ "started" \in {"started"} \cup Final
    BY <1>5 DEF TransferTypes
  <2>3. /\ events' \in Seq(Happening)
        /\ \A i \in DOMAIN events' : \/ i \in DOMAIN events /\ events'[i] = events[i]
                                     \/ events'[i].id = o /\ events'[i].state = "started"
    BY <1>10, <2>2, EventTold
  <2>4. TransferTypes'
    BY <1>1, <1>5, <1>10, <2>3 DEF TransferTypes
  <2>5. \A p \in Op : p # o => EventsFit(p)'
    <3>1. ASSUME NEW p \in Op, p # o PROVE EventsFit(p)'
      <4>1. EventsFit(p) /\ items'[p] = items[p] /\ process'[p] = process[p]
        BY <3>1, <1>1, <2>1 DEF TransfersInv
      <4> QED BY <3>1, <4>1, <2>2, <1>10, EmitOthers
    <3> QED BY <3>1
  <2>6. EventsFit(o)'
    <3>1. \A i \in DOMAIN events' : events'[i].id = o => events'[i].state = "started"
      BY <1>6, <2>3
    <3> QED BY <1>1, <1>6, <2>1, <3>1 DEF EventsFit
  <2>7. TransferFits(o)'
    BY <1>1, <1>6, <1>8, <2>1 DEF TransferFits, SendOf, CancelOf
  <2>8. ~Hasty => TransferListed(o)'
    BY <1>1, <1>9 DEF TransferListed, SendOf, CancelOf
  <2>9. \A p \in Op : p # o => items'[p] = items[p]
    BY <1>1
  <2> QED BY <1>1, <1>7, <2>1, <2>4, <2>5, <2>6, <2>7, <2>8, <2>9, OneTransfer
<1>11. CASE reply' = [reply EXCEPT ![o] = "refused"] /\ UNCHANGED <<process, events>>
  <2>1. reply'[o] = "refused" /\ \A p \in Op : p # o => reply'[p] = reply[p]
    BY <1>5, <1>11 DEF TransferTypes
  <2>2. TransferTypes'
    BY <1>1, <1>5, <1>11 DEF TransferTypes
  <2>3. \A p \in Op : EventsFit(p)'
    BY <1>1, <1>11 DEF TransfersInv, EventsFit
  <2>4. TransferFits(o)'
    BY <1>1, <1>6, <1>8, <1>11, <2>1 DEF TransferFits, SendOf, CancelOf
  <2>5. ~Hasty => TransferListed(o)'
    BY <1>1, <1>9 DEF TransferListed, SendOf, CancelOf
  <2>6. \A p \in Op : p # o => items'[p] = items[p] /\ process'[p] = process[p]
    BY <1>1, <1>11
  <2> QED BY <1>1, <1>7, <2>1, <2>2, <2>3, <2>4, <2>5, <2>6, OneTransfer
<1> QED BY <1>10, <1>11 DEF SpawnTransfer

LEMMA TransferKeeps == ASSUME BridgeTypeOK, SentInv, TransfersInv, Transfer PROVE TransfersInv'
<1>0. /\ ops \in Nat /\ ops' = ops + 1 /\ ops' \in Op /\ ops' > ops /\ ipc \in Seq(Message)
      /\ ipc' = Append(ipc, SendOf(ops'))
      /\ UNCHANGED <<process, events, pace>>
      /\ items' = [items EXCEPT ![ops'] = "pending"] /\ reply' = [reply EXCEPT ![ops'] = "waiting"]
  BY NativeBridgeAssumption DEF Transfer, Begin, Invoke, BridgeTypeOK, Op, SentInv, SendOf, shared, manner
<1>1. PICK o \in Op : /\ o = ops' /\ o > ops /\ ops' = ops + 1 /\ ops \in Nat /\ ipc \in Seq(Message)
                      /\ ipc' = Append(ipc, SendOf(o))
                      /\ UNCHANGED <<process, events, pace>>
                      /\ items' = [items EXCEPT ![o] = "pending"] /\ reply' = [reply EXCEPT ![o] = "waiting"]
  BY <1>0
<1>2. SendOf(o) \in Message
  BY <1>1 DEF SendOf, Command, Message, AllCommands, TransferCommands, Maybe1
<1>3. /\ \A m : Has(Append(ipc, SendOf(o)), m) <=> Has(ipc, m) \/ m = SendOf(o)
      /\ \A m : (~Has(ipc, m) \/ (m # SendOf(o) /\ Once(ipc, m))) => Once(Append(ipc, SendOf(o)), m)
      /\ \A m, n : m # SendOf(o) /\ Before(ipc, m, n) => Before(Append(ipc, SendOf(o)), m, n)
      /\ \A m, n : ~Has(ipc, n) /\ n # SendOf(o) => Before(Append(ipc, SendOf(o)), m, n)
  BY <1>1, <1>2, LastSent
<1>4. TransferTypes /\ TransferFits(o) /\ EventsFit(o)
  BY <1>1 DEF TransfersInv
<1>5. /\ process[o] = "none" /\ items[o] = "absent"
      /\ ~Has(ipc, SendOf(o)) /\ ~Has(ipc, CancelOf(o)) /\ \A i \in DOMAIN events : events[i].id # o
  BY <1>1, <1>4 DEF TransferFits, EventsFit
<1>6. /\ items'[o] = "pending" /\ reply'[o] = "waiting"
      /\ \A p \in Op : p # o => items'[p] = items[p] /\ reply'[p] = reply[p]
  BY <1>1, <1>4 DEF TransferTypes
<1>7. TransferTypes'
  BY <1>1, <1>4 DEF TransferTypes, Unfinished
<1>8. \A p \in Op : p # o => Same(ipc, ipc', SendOf(p), CancelOf(p))
  BY <1>1, <1>3, CancelsDiffer DEF Same
<1>9. \A p \in Op : p # o => EventsFit(p)'
  <2>1. ASSUME NEW p \in Op, p # o PROVE EventsFit(p)'
    <3>1. EventsFit(p) /\ items'[p] = items[p] /\ process'[p] = process[p] /\ UNCHANGED events
      BY <1>1, <1>6, <2>1 DEF TransfersInv
    <3> QED BY <3>1, EventsStay
  <2> QED BY <2>1
<1>10. EventsFit(o)'
  BY <1>1, <1>5, <1>6 DEF EventsFit, Final
<1>11. TransferFits(o)'
  <2>1. /\ Once(ipc', SendOf(o)) /\ Before(ipc', SendOf(o), CancelOf(o)) /\ ~(o > ops')
        /\ process'[o] = "none" /\ items'[o] \notin Final
    BY <1>1, <1>3, <1>5, <1>6, CancelsDiffer DEF Final, Op
  <2> QED BY <1>6, <2>1 DEF TransferFits, SendOf, CancelOf
<1>12. TransferListed(o)'
  BY <1>6 DEF TransferListed, Unfinished
<1>13. \A p \in Op : p # o => process'[p] = process[p]
  BY <1>1
<1> QED BY <1>1, <1>6, <1>7, <1>8, <1>9, <1>10, <1>11, <1>12, <1>13, OneTransfer

(* A step that sends and runs nothing.                                     *)
LEMMA QuietTransfer ==
  ASSUME BridgeTypeOK, TransfersInv, NEW o \in Op, UNCHANGED <<ops, pace, ipc>>, TransferTypes',
         \A p \in Op : p # o => /\ items'[p] = items[p] /\ reply'[p] = reply[p] /\ process'[p] = process[p]
                                /\ EventsFit(p)',
         TransferFits(o)', EventsFit(o)', ~Hasty => TransferListed(o)'
  PROVE  TransfersInv'
<1>1. \A p \in Op : Same(ipc, ipc', SendOf(p), CancelOf(p))
  BY SameStill
<1> QED BY <1>1, OneTransfer

LEMMA RefusalKeeps == ASSUME BridgeTypeOK, TransfersInv, NEW o \in Op, Refusal(o) \/ RemoveTransfer(o) PROVE TransfersInv'
<1>1. TransferTypes /\ TransferFits(o) /\ EventsFit(o) /\ (~Hasty => TransferListed(o)) /\ ops \in Nat
  BY NativeBridgeAssumption DEF TransfersInv, BridgeTypeOK
<1>2. UNCHANGED <<ops, pace, ipc, process, events>>
  BY DEF Refusal, RemoveTransfer, bridge, shared, manner
<1>3. CASE Refusal(o)
  <2>1. /\ reply[o] = "refused" /\ reply' = [reply EXCEPT ![o] = "none"]
        /\ items' = IF items[o] = "absent" THEN items ELSE [items EXCEPT ![o] = "error"]
    BY <1>3 DEF Refusal, Mark
  <2>2. /\ reply'[o] = "none" /\ \A p \in Op : p # o => reply'[p] = reply[p] /\ items'[p] = items[p]
        /\ TransferTypes'
    BY <1>1, <1>2, <2>1 DEF TransferTypes, Final
  <2>3. process[o] = "none" /\ ~Has(ipc, SendOf(o)) /\ ~(o > ops) /\ \A i \in DOMAIN events : events[i].id # o
    BY <1>1, <2>1 DEF TransferFits, EventsFit
  <2>4. EventsFit(o)'
    BY <1>2, <2>3 DEF EventsFit, Final
  <2>5. TransferFits(o)'
    BY <1>1, <1>2, <2>2, <2>3 DEF TransferFits, SendOf, CancelOf
  <2>6. TransferListed(o)'
    BY <1>2, <2>3 DEF TransferListed, SendOf
  <2>7. ASSUME NEW p \in Op, p # o PROVE EventsFit(p)'
    <3>1. EventsFit(p) /\ items'[p] = items[p] /\ process'[p] = process[p] /\ UNCHANGED events
      BY <1>2, <2>2, <2>7 DEF TransfersInv
    <3> QED BY <3>1, EventsStay
  <2>8. \A p \in Op : p # o => process'[p] = process[p]
    BY <1>2
  <2> QED BY <1>2, <2>2, <2>4, <2>5, <2>6, <2>7, <2>8, QuietTransfer
<1>4. CASE RemoveTransfer(o)
  <2>1. items' = [items EXCEPT ![o] = "absent"] /\ UNCHANGED reply /\ (Hasty \/ items[o] \in Final)
    BY <1>4 DEF RemoveTransfer
  <2>2. /\ items'[o] = "absent" /\ \A p \in Op : p # o => items'[p] = items[p]
        /\ TransferTypes'
    BY <1>1, <1>2, <2>1 DEF TransferTypes
  <2>3. "absent" \notin Final
    BY DEF Final
  <2>4. EventsFit(o)'
    BY <1>1, <1>2, <2>2, <2>3 DEF EventsFit
  <2>5. TransferFits(o)'
    BY <1>1, <1>2, <2>1, <2>2, <2>3 DEF TransferFits, SendOf, CancelOf
  <2>6. ASSUME ~Hasty PROVE TransferListed(o)'
    <3>1. items[o] \in Final
      BY <2>1, <2>6
    <3>2. process[o] # "running" /\ ~Has(ipc, SendOf(o))
      BY <1>1, <3>1 DEF TransferFits, EventsFit
    <3> QED BY <1>2, <3>2 DEF TransferListed, SendOf
  <2>7. ASSUME NEW p \in Op, p # o PROVE EventsFit(p)'
    <3>1. EventsFit(p) /\ items'[p] = items[p] /\ process'[p] = process[p] /\ UNCHANGED events
      BY <1>2, <2>2, <2>7 DEF TransfersInv
    <3> QED BY <3>1, EventsStay
  <2>8. \A p \in Op : p # o => process'[p] = process[p] /\ reply'[p] = reply[p]
    BY <1>2, <2>1
  <2> QED BY <1>2, <2>2, <2>4, <2>5, <2>6, <2>7, <2>8, QuietTransfer
<1> QED BY <1>3, <1>4

LEMMA ExitsKeep == ASSUME BridgeTypeOK, TransfersInv, NEW o \in Op, TransferExit(o) \/ Monitor(o) PROVE TransfersInv'
<1>1. TransferTypes /\ TransferFits(o) /\ EventsFit(o) /\ (~Hasty => TransferListed(o)) /\ ops \in Nat
  BY NativeBridgeAssumption DEF TransfersInv, BridgeTypeOK
<1>2. UNCHANGED <<ops, pace, ipc, items, reply>>
  BY DEF TransferExit, Monitor, bridge, shared, manner
<1>3. process[o] \in {"running"} \cup Final
  BY DEF TransferExit, Monitor
<1>4. /\ process[o] # "none" /\ items[o] \notin Final
      /\ \A i \in DOMAIN events : events[i].id = o => events[i].state = "started"
  BY <1>1, <1>3 DEF EventsFit, Final
<1>5. reply[o] \notin {"waiting", "refused"} /\ ~Has(ipc, SendOf(o)) /\ ~(o > ops)
  BY <1>1, <1>4 DEF TransferFits
<1>6. \A s : process'[o] = s /\ s # "running" => TransferFits(o)' /\ TransferListed(o)'
  BY <1>1, <1>2, <1>5 DEF TransferFits, TransferListed, SendOf, CancelOf
<1>7. CASE TransferExit(o)
  <2>1. PICK s \in {"done", "error"} : process' = [process EXCEPT ![o] = s] /\ UNCHANGED events
    BY <1>7 DEF TransferExit
  <2>2. /\ process'[o] = s /\ \A p \in Op : p # o => process'[p] = process[p]
        /\ TransferTypes'
    BY <1>1, <1>2, <2>1 DEF TransferTypes, Final
  <2>3. EventsFit(o)'
    BY <1>1, <1>2, <1>4, <2>1, <2>2 DEF EventsFit
  <2>4. ASSUME NEW p \in Op, p # o PROVE EventsFit(p)'
    <3>1. EventsFit(p) /\ items'[p] = items[p] /\ process'[p] = process[p] /\ UNCHANGED events
      BY <1>2, <2>1, <2>2, <2>4 DEF TransfersInv
    <3> QED BY <3>1, EventsStay
  <2>5. TransferFits(o)' /\ TransferListed(o)'
    BY <1>6, <2>2
  <2>6. \A p \in Op : p # o => items'[p] = items[p] /\ reply'[p] = reply[p]
    BY <1>2
  <2> QED BY <1>2, <2>2, <2>3, <2>4, <2>5, <2>6, QuietTransfer
<1>8. CASE Monitor(o)
  <2> DEFINE s == process[o]
  <2>1. s \in Final /\ process' = [process EXCEPT ![o] = "reported"] /\ Emit(o, s)
    BY <1>8 DEF Monitor
  <2>2. process'[o] = "reported" /\ \A p \in Op : p # o => process'[p] = process[p]
    BY <1>1, <2>1 DEF TransferTypes
  <2>3. events \in Seq(Happening) /\ s \in {"started"} \cup Final
    BY <1>1, <2>1 DEF TransferTypes
  <2> HIDE DEF s
  <2>4. /\ events' \in Seq(Happening)
        /\ \A i \in DOMAIN events' : \/ i \in DOMAIN events /\ events'[i] = events[i]
                                     \/ events'[i].id = o /\ events'[i].state = s /\ \A j \in DOMAIN events' : ~(i < j)
    BY <2>1, <2>3, EventTold
  <2>5. TransferTypes'
    BY <1>1, <1>2, <2>1, <2>4 DEF TransferTypes
  <2>6. EventsFit(o)'
    <3>1. \A i, j \in DOMAIN events' : events'[i].id = o /\ events'[j].id = o /\ i < j => events'[i].state = "started"
      BY <1>4, <2>4
    <3>2. process'[o] \notin {"none", "running"} \cup Final
      BY <2>2 DEF Final
    <3> QED BY <1>2, <1>4, <3>1, <3>2 DEF EventsFit
  <2>7. ASSUME NEW p \in Op, p # o PROVE EventsFit(p)'
    <3>1. EventsFit(p) /\ items'[p] = items[p] /\ process'[p] = process[p]
      BY <1>2, <2>2, <2>7 DEF TransfersInv
    <3> QED BY <2>1, <2>3, <2>7, <3>1, EmitOthers
  <2>8. TransferFits(o)' /\ TransferListed(o)'
    BY <1>6, <2>2
  <2>9. \A p \in Op : p # o => items'[p] = items[p] /\ reply'[p] = reply[p]
    BY <1>2
  <2> QED BY <1>2, <2>2, <2>5, <2>6, <2>7, <2>8, <2>9, QuietTransfer
<1> QED BY <1>7, <1>8

LEMMA CancelKeeps == ASSUME BridgeTypeOK, SentInv, TransfersInv, NEW o \in Op, CancelTransfer(o) PROVE TransfersInv'
<1>1. /\ ipc \in Seq(Message) /\ ipc # <<>> /\ Head(ipc) = CancelOf(o) /\ ipc' = Tail(ipc)
      /\ UNCHANGED <<ops, items, reply, events, pace>>
      /\ process' = [process EXCEPT ![o] = IF process[o] = "running" THEN "cancelled" ELSE process[o]]
  BY DEF SentInv, CancelTransfer, Run, CancelOf, shared, manner
<1>2. /\ Tail(ipc) \in Seq(Message)
      /\ \A m : Has(Tail(ipc), m) => Has(ipc, m)
      /\ \A m : m # Head(ipc) => (Has(Tail(ipc), m) <=> Has(ipc, m))
      /\ \A m : Once(ipc, m) => Once(Tail(ipc), m)
      /\ \A m, n : Before(ipc, m, n) => Before(Tail(ipc), m, n)
      /\ \A m : Before(ipc, m, Head(ipc)) => ~Has(ipc, m)
  BY <1>1, FirstRun
<1>3. TransferTypes /\ TransferFits(o) /\ EventsFit(o) /\ (~Hasty => TransferListed(o))
  BY DEF TransfersInv
<1>4. Before(ipc, SendOf(o), CancelOf(o)) /\ Once(ipc, SendOf(o))
  BY <1>3 DEF TransferFits
<1>5. ~Has(ipc, SendOf(o)) /\ ~Has(ipc', SendOf(o)) /\ Once(ipc', SendOf(o)) /\ Before(ipc', SendOf(o), CancelOf(o))
      /\ (Has(ipc', CancelOf(o)) => Has(ipc, CancelOf(o)))
  BY <1>1, <1>2, <1>4
<1>6. \A p \in Op : p # o => Same(ipc, ipc', SendOf(p), CancelOf(p))
  BY <1>1, <1>2, CancelsDiffer DEF Same
<1>7. /\ process'[o] = (IF process[o] = "running" THEN "cancelled" ELSE process[o])
      /\ \A p \in Op : p # o => process'[p] = process[p]
      /\ TransferTypes'
  BY <1>1, <1>3 DEF TransferTypes, Final
<1>8. "cancelled" \in Final /\ "running" \notin Final /\ "none" \notin Final
  BY DEF Final
<1>9. TransferFits(o)'
  BY <1>1, <1>3, <1>5, <1>7, <1>8 DEF TransferFits, SendOf, CancelOf
<1>10. EventsFit(o)'
  BY <1>1, <1>3, <1>7, <1>8 DEF EventsFit
<1>11. TransferListed(o)'
  BY <1>5, <1>7 DEF TransferListed, SendOf
<1>12. \A p \in Op : p # o => EventsFit(p)'
  <2>1. ASSUME NEW p \in Op, p # o PROVE EventsFit(p)'
    <3>1. EventsFit(p) /\ items'[p] = items[p] /\ process'[p] = process[p] /\ UNCHANGED events
      BY <1>1, <1>7, <2>1 DEF TransfersInv
    <3> QED BY <3>1, EventsStay
  <2> QED BY <2>1
<1>13. \A p \in Op : p # o => items'[p] = items[p] /\ reply'[p] = reply[p]
  BY <1>1
<1> QED BY <1>1, <1>6, <1>7, <1>9, <1>10, <1>11, <1>12, <1>13, OneTransfer

LEMMA HearKeeps == ASSUME BridgeTypeOK, TransfersInv, Hear PROVE TransfersInv'
<1>1. UNCHANGED <<ops, pace, ipc, reply, process>>
  BY DEF Hear, bridge, shared, manner
<1>2. TransferTypes /\ events # <<>> /\ events' = Tail(events)
  BY DEF TransfersInv, Hear
<1>3. /\ events' \in Seq(Happening) /\ Head(events) = events[1] /\ 1 \in DOMAIN events /\ events[1] \in Happening
      /\ \A i \in DOMAIN events' : i + 1 \in DOMAIN events /\ 1 < i + 1 /\ events'[i] = events[i + 1]
      /\ \A i, j \in DOMAIN events' : i < j => i + 1 < j + 1
  BY <1>2, EventHeard DEF TransferTypes
<1>4. PICK o \in Op : o = events[1].id
  BY <1>3 DEF Happening
<1>5. PICK s \in {"started"} \cup Final : s = events[1].state
  BY <1>3 DEF Happening
<1>6. items' = items \/ (items' = [items EXCEPT ![o] = StatusOf(s)] /\ items[o] # "absent")
  BY <1>3, <1>4, <1>5 DEF Hear, Mark
<1>7. StatusOf(s) \in Unfinished \cup Final /\ (StatusOf(s) \in Final <=> s # "started")
  BY <1>5 DEF StatusOf, Unfinished, Final
<1>8. TransferTypes' /\ \A p \in Op : p # o => items'[p] = items[p]
  BY <1>1, <1>2, <1>3, <1>6, <1>7 DEF TransferTypes
<1>9. items'[o] = items[o] \/ (items'[o] = StatusOf(s) /\ items[o] # "absent")
  BY <1>2, <1>6 DEF TransferTypes
<1>10. TransferFits(o) /\ EventsFit(o) /\ (~Hasty => TransferListed(o))
  BY DEF TransfersInv
<1>11. /\ process[o] # "none" /\ items[o] \notin Final
       /\ process[o] \in {"running"} \cup Final => s = "started"
       /\ s # "started" => \A j \in DOMAIN events' : events'[j].id # o
  <2>1. process[o] # "none" /\ items[o] \notin Final /\ (process[o] \in {"running"} \cup Final => s = "started")
    BY <1>3, <1>4, <1>5, <1>10 DEF EventsFit
  <2>2. ASSUME NEW j \in DOMAIN events', events'[j].id = o PROVE s = "started"
    <3>1. j + 1 \in DOMAIN events /\ 1 < j + 1 /\ events[j + 1].id = o
      BY <1>3, <2>2
    <3> QED BY <1>3, <1>4, <1>5, <1>10, <3>1 DEF EventsFit
  <2> QED BY <2>1, <2>2
<1>12. reply[o] \notin {"waiting", "refused"} /\ ~Has(ipc, SendOf(o)) /\ ~(o > ops)
  BY <1>10, <1>11 DEF TransferFits
<1>13. TransferFits(o)'
  BY <1>1, <1>10, <1>12 DEF TransferFits, SendOf, CancelOf
<1>14. ASSUME ~Hasty PROVE TransferListed(o)'
  <2>1. ASSUME process[o] = "running" PROVE items'[o] \in Unfinished \/ Has(ipc, CancelOf(o))
    <3>1. s = "started" /\ StatusOf(s) \in Unfinished
      BY <1>7, <1>11, <2>1
    <3> QED BY <1>9, <1>10, <1>14, <2>1, <3>1 DEF TransferListed
  <2> QED BY <1>1, <1>12, <2>1 DEF TransferListed, SendOf, CancelOf
<1>15. EventsFit(o)'
  <2>1. /\ process[o] \in {"running"} \cup Final => items'[o] \notin Final
        /\ (\E i \in DOMAIN events' : events'[i].id = o) => items'[o] \notin Final
    BY <1>7, <1>9, <1>11
  <2>2. \A i, j \in DOMAIN events' : events'[i].id = o /\ events'[j].id = o /\ i < j => events'[i].state = "started"
    BY <1>3, <1>10 DEF EventsFit
  <2>3. /\ process[o] \in {"running"} \cup Final =>
             \A i \in DOMAIN events' : events'[i].id = o => events'[i].state = "started"
    BY <1>3, <1>10 DEF EventsFit
  <2> QED BY <1>1, <1>11, <2>1, <2>2, <2>3 DEF EventsFit
<1>16. \A p \in Op : p # o => EventsFit(p)'
  <2>1. ASSUME NEW p \in Op, p # o PROVE EventsFit(p)'
    <3>1. EventsFit(p) /\ items'[p] = items[p] /\ process'[p] = process[p]
      BY <1>1, <1>8, <2>1 DEF TransfersInv
    <3>2. \A i, j \in DOMAIN events' : events'[i].id = p /\ events'[j].id = p /\ i < j => events'[i].state = "started"
      BY <1>3, <3>1 DEF EventsFit
    <3> QED BY <1>3, <3>1, <3>2 DEF EventsFit
  <2> QED BY <2>1
<1>17. \A p \in Op : p # o => process'[p] = process[p] /\ reply'[p] = reply[p]
  BY <1>1
<1> QED BY <1>1, <1>8, <1>13, <1>14, <1>15, <1>16, <1>17, QuietTransfer

LEMMA TransfersStill ==
  ASSUME BridgeTypeOK, TransfersInv, pace' = pace, ops' = ops \/ ops' = ops + 1,
         UNCHANGED <<items, reply, process, events>>,
         \A o : Same(ipc, ipc', SendOf(o), CancelOf(o))
  PROVE  TransfersInv'
<1>1. ops \in Nat
  BY NativeBridgeAssumption DEF BridgeTypeOK
<1>2. ASSUME NEW p \in Op PROVE TransferFits(p)' /\ EventsFit(p)' /\ (~Hasty => TransferListed(p)')
  <2>1. /\ Same(ipc, ipc', SendOf(p), CancelOf(p))
        /\ items'[p] = items[p] /\ reply'[p] = reply[p] /\ process'[p] = process[p] /\ UNCHANGED events
    OBVIOUS
  <2>2. TransferFits(p) /\ EventsFit(p) /\ (~Hasty => TransferListed(p))
    BY DEF TransfersInv
  <2>3. TransferFits(p)' /\ (TransferListed(p) => TransferListed(p)')
    BY <1>1, <2>1, <2>2, Untouched
  <2> QED BY <2>1, <2>2, <2>3, EventsStay
<1>3. (Hasty' <=> Hasty) /\ TransferTypes'
  BY DEF Hasty, TransfersInv, TransferTypes
<1> QED BY <1>2, <1>3 DEF TransfersInv

LEMMA TransfersSignOut == ASSUME Grounds, SentInv, TransfersInv, SignOut PROVE TransfersInv'
<1>1. UNCHANGED <<pace, ops, reply, process, events>> /\ items' = [o \in Op |-> "absent"]
  BY DEF SignOut, EmptyList, manner
<1>2. /\ \A o : Same(ipc, ipc', SendOf(o), SendOf(o))
      /\ \A o : Before(ipc, SendOf(o), CancelOf(o)) => Before(ipc', SendOf(o), CancelOf(o))
      /\ \A o : Has(ipc', CancelOf(o)) <=> Has(ipc, CancelOf(o)) \/ (o \in Op /\ items[o] \in Unfinished)
  BY SignOutSends
<1>3. TransferTypes'
  BY <1>1 DEF TransfersInv, TransferTypes
<1>4. "absent" \notin Final \cup Unfinished
  BY DEF Final, Unfinished
<1>5. ASSUME NEW o \in Op PROVE TransferFits(o)' /\ EventsFit(o)' /\ (~Hasty => TransferListed(o)')
  <2>1. TransferFits(o) /\ EventsFit(o) /\ (~Hasty => TransferListed(o))
    BY DEF TransfersInv
  <2>2. items'[o] = "absent"
    BY <1>1
  <2>3. /\ Has(ipc', SendOf(o)) <=> Has(ipc, SendOf(o))
        /\ Once(ipc, SendOf(o)) => Once(ipc', SendOf(o))
        /\ Before(ipc, SendOf(o), CancelOf(o)) => Before(ipc', SendOf(o), CancelOf(o))
        /\ Has(ipc', CancelOf(o)) <=> Has(ipc, CancelOf(o)) \/ items[o] \in Unfinished
    BY <1>2 DEF Same
  <2>4. TransferFits(o)'
    BY <1>1, <1>4, <2>1, <2>2, <2>3 DEF TransferFits, SendOf, CancelOf
  <2>5. EventsFit(o)'
    BY <1>1, <1>4, <2>1, <2>2 DEF EventsFit
  <2>6. ~Hasty => TransferListed(o)'
    BY <1>1, <2>1, <2>3 DEF TransferListed, SendOf, CancelOf
  <2> QED BY <2>4, <2>5, <2>6
<1>6. Hasty' <=> Hasty
  BY <1>1 DEF Hasty
<1> QED BY <1>3, <1>5, <1>6 DEF TransfersInv

LEMMA TransfersInductive == Grounds /\ SentInv /\ TransfersInv /\ [Next]_vars => TransfersInv'
<1> SUFFICES ASSUME Grounds, SentInv, TransfersInv, [Next]_vars PROVE TransfersInv'
  OBVIOUS
<1>1. ipc \in Seq(Message) /\ BridgeTypeOK /\ (ops' = ops \/ ops' = ops + 1) /\ pace' = pace
  BY Counts, MannerStays DEF SentInv, Grounds, manner
<1>2. CASE SignOut
  BY <1>2, TransfersSignOut
<1>3. ASSUME UNCHANGED transferVars, NEW C, "sftp_transfer" \notin C, "sftp_cancel" \notin C, Sends(C, ipc, ipc')
      PROVE  TransfersInv'
  <2>1. \A o : SendOf(o).cmd \notin C /\ CancelOf(o).cmd \notin C
    BY <1>3 DEF SendOf, CancelOf, Command
  <2>2. \A o : Same(ipc, ipc', SendOf(o), CancelOf(o))
    BY <1>3, <2>1 DEF Sends
  <2>3. UNCHANGED <<items, reply, process, events>>
    BY <1>3 DEF transferVars
  <2> QED BY <1>1, <2>2, <2>3, TransfersStill
<1>4. CASE TransfersNext
  <2>1. CASE OpenSftp \/ LeaveSftp
    <3>1. UNCHANGED <<ipc, items, reply, process, events>>
      BY <2>1 DEF OpenSftp, LeaveSftp, transferVars
    <3>2. \A o : Same(ipc, ipc', SendOf(o), CancelOf(o))
      BY <3>1, SameStill
    <3> QED BY <1>1, <3>1, <3>2, TransfersStill
  <2> QED BY <1>1, <1>4, <2>1, TransferKeeps, HearKeeps, SpawnKeepsTransfers, RefusalKeeps, CancelKeeps, ExitsKeep
          DEF TransfersNext, TransferStep
<1>5. CASE TunnelsNext /\ UNCHANGED transferVars
  <2>1. Sends(TunnelCommands, ipc, ipc') /\ "sftp_transfer" \notin TunnelCommands /\ "sftp_cancel" \notin TunnelCommands
    BY <1>1, <1>5, TunnelsSend DEF TunnelCommands
  <2> QED BY <1>3, <1>5, <2>1
<1>6. CASE UNCHANGED <<tunnelVars, transferVars>> /\ Sends(TabCommands \cup EditorCommands, ipc, ipc')
  <2>1. "sftp_transfer" \notin TabCommands \cup EditorCommands /\ "sftp_cancel" \notin TabCommands \cup EditorCommands
    BY DEF TabCommands, EditorCommands
  <2> QED BY <1>3, <1>6, <2>1
<1> QED BY <1>1, <1>2, <1>4, <1>5, <1>6, Speakers

(* A transfer is sent once and cancelled after that; its events come in    *)
(* the order start, end; and the patient user can still cancel what runs   *)
(* (use-transfers.ts, useTransferEvents.ts, sftp_process.rs monitor).      *)
THEOREM TransfersInvariant == Spec => []TransfersInv
<1>1. Spec => [](BridgeTypeOK /\ TabsInv)
  BY BridgeInvariant, TabsInvariant, PTL
<1>2. Grounds <=> BridgeTypeOK /\ TabsInv
  BY DEF Grounds
<1> QED BY <1>1, <1>2, SpecSteps, SentInvariant, TransfersInitial, TransfersInductive, PTL

LEMMA FinishedStep ==
  ASSUME BridgeTypeOK, TransfersInv, [Next]_vars
  PROVE  \A o \in Op : items[o] \in Final => items'[o] \in {items[o], "absent"}
<1> SUFFICES ASSUME NEW o \in Op, items[o] \in Final PROVE items'[o] \in {items[o], "absent"}
  OBVIOUS
<1>1. TransferTypes /\ TransferFits(o) /\ EventsFit(o) /\ items \in [Op -> Unfinished \cup Final \cup {"absent"}]
  BY DEF TransfersInv, TransferTypes
<1>2. CASE items' = items
  BY <1>2
<1>3. CASE SignOut
  BY <1>3 DEF SignOut, EmptyList
<1>4. CASE Transfer
  <2>1. ops' = ops + 1 /\ ops \in Nat /\ items' = [items EXCEPT ![ops'] = "pending"]
    BY <1>4, NativeBridgeAssumption DEF Transfer, Begin, BridgeTypeOK
  <2>2. o # ops'
    BY <1>1, <2>1 DEF TransferFits, Final
  <2> QED BY <1>1, <2>1, <2>2
<1>5. ASSUME NEW p \in Op, Refusal(p) PROVE items'[o] \in {items[o], "absent"}
  <2>1. p # o
    BY <1>1, <1>5 DEF Refusal, TransferFits
  <2> QED BY <1>1, <1>5, <2>1 DEF Refusal, Mark
<1>6. ASSUME NEW p \in Op, RemoveTransfer(p) PROVE items'[o] \in {items[o], "absent"}
  BY <1>1, <1>6 DEF RemoveTransfer
<1>7. CASE Hear
  <2>1. Head(events) = events[1] /\ 1 \in DOMAIN events
    BY <1>1, <1>7, EventHeard DEF Hear, TransferTypes
  <2>2. Head(events).id # o
    BY <1>1, <2>1 DEF EventsFit
  <2> QED BY <1>1, <1>7, <2>2 DEF Hear, Mark
<1>8. \/ SignOut \/ TransfersNext \/ UNCHANGED items
  BY DEF Next, vars, transferVars
<1>9. TransfersNext => \/ Transfer \/ Hear \/ (\E p \in Op : Refusal(p) \/ RemoveTransfer(p)) \/ items' = items
  BY DEF TransfersNext, TransferStep, OpenSftp, LeaveSftp, SpawnTransfer, CancelTransfer, Monitor, TransferExit, transferVars
<1> QED BY <1>2, <1>3, <1>4, <1>5, <1>6, <1>7, <1>8, <1>9

(* A transfer that is done, failed or cancelled in the list stays so until *)
(* it is taken off, whatever the order of commands, events and sign-outs   *)
(* (useTransferEvents.ts, transfers store updateById).                     *)
THEOREM FinishedIsFinal == Spec => FinishedStays
<1>1. BridgeTypeOK /\ TransfersInv /\ [Next]_vars
      => [\A o \in Op : items[o] \in Final => items'[o] \in {items[o], "absent"}]_vars
  BY FinishedStep
<1> QED BY <1>1, SpecSteps, BridgeInvariant, TransfersInvariant, PTL DEF FinishedStays

------------------------------------------------------------------------------
(* Tunnels                                                                 *)

BeingClosed(t) == Has(ipc, CloseOf(t))

(* The page waits for each status command that it has sent.                *)
StatusFits ==
  /\ Has(ipc, StatusOfAll) => sync.at = "asked"
  /\ Once(ipc, StatusOfAll)

(* For the patient user no tunnel is stopped while one starts. A start has *)
(* its row, and is registered before its command is sent, unless the page  *)
(* took its tunnel for idle.                                               *)
StartRegistered(o) == Starting(o) =>
  /\ stopping = {}
  /\ start[o].tunnel \notin forgotten =>
       /\ start[o].tunnel \in saved
       /\ start[o].at \in {"sent", "opened"} => start[o].tunnel \in tracked
StopsAnswered == \A k \in stopping : k.answered => up[k.tunnel] = None
UpIsKnown == \A t \in Tunnel : t \notin forgotten /\ up[t] # None => t \in tracked \cap saved \/ BeingClosed(t)
PatientTunnels == (\A o \in Op : StartRegistered(o)) /\ StopsAnswered /\ UpIsKnown
TunnelsInv == StatusFits /\ (~Hasty => PatientTunnels)

LEMMA TunnelsInitial == Init => TunnelsInv
<1> SUFFICES ASSUME Init PROVE TunnelsInv
  OBVIOUS
<1>1. /\ ipc = <<>> /\ stopping = {} /\ start = [o \in Op |-> NoStart] /\ up = [t \in Tunnel |-> None]
  BY DEF Init, TunnelsInit, BridgeInit
<1>2. (\A o \in Op : ~Starting(o)) /\ (\A t \in Tunnel : up[t] = None)
  BY <1>1 DEF Starting, NoStart
<1>3. StatusFits
  BY <1>1 DEF StatusFits, Has, Once
<1> QED BY <1>1, <1>2, <1>3 DEF TunnelsInv, PatientTunnels, StartRegistered, StopsAnswered, UpIsKnown

LEMMA StatusFitsStill ==
  ASSUME StatusFits, sync'.at = sync.at, NEW C, "ssh_tunnel_status" \notin C, Sends(C, ipc, ipc')
  PROVE  StatusFits'
<1>1. StatusOfAll.cmd \notin C
  BY DEF StatusOfAll, Command
<1>2. Same(ipc, ipc', StatusOfAll, StatusOfAll)
  BY <1>1 DEF Sends
<1> QED BY <1>2 DEF Same, StatusFits, StatusOfAll

(* After the status command was taken back none waits.                     *)
LEMMA NoneAsked ==
  ASSUME ipc \in Seq(Message), StatusFits
  PROVE  Unasked \in Seq(Message) /\ ~Has(Unasked, StatusOfAll) /\ Once(Unasked, StatusOfAll)
<1>1. Unasked = RemoveFirst(ipc, StatusOfAll)
  BY DEF Unasked, StatusOfAll
<1>2. Unasked \in Seq(Message) /\ ~Has(Unasked, StatusOfAll)
  BY <1>1, FirstTakenBack DEF StatusFits
<1> QED BY <1>2 DEF Has, Once

LEMMA AskFits == ASSUME ipc \in Seq(Message), StatusFits, NEW R, AskStatus(R) PROVE StatusFits'
<1>1. Unasked \in Seq(Message) /\ ~Has(Unasked, StatusOfAll) /\ Once(Unasked, StatusOfAll)
  BY NoneAsked
<1>2. CASE ipc' = Unasked
  BY <1>1, <1>2 DEF StatusFits, StatusOfAll
<1>3. CASE sync'.at = "asked" /\ ipc' = Append(Unasked, StatusOfAll)
  <2>1. StatusOfAll \in Message
    BY DEF StatusOfAll, Command, Message, AllCommands, TunnelCommands, Maybe1
  <2>2. \A m : (~Has(Unasked, m) \/ (m # StatusOfAll /\ Once(Unasked, m))) => Once(Append(Unasked, StatusOfAll), m)
    BY <1>1, <2>1, LastSent
  <2>3. Once(Append(Unasked, StatusOfAll), StatusOfAll)
    BY <1>1, <2>2
  <2> QED BY <1>3, <2>3 DEF StatusFits, StatusOfAll
<1> QED BY <1>2, <1>3 DEF AskStatus, StatusOfAll

LEMMA ClosesStaySent ==
  ASSUME NEW C, "ssh_tunnel_close" \notin C, Sends(C, ipc, ipc')
  PROVE  \A t : BeingClosed(t)' <=> BeingClosed(t)
<1>1. \A t : CloseOf(t).cmd \notin C
  BY DEF CloseOf, Command
<1>2. \A t : Same(ipc, ipc', CloseOf(t), CloseOf(t))
  BY <1>1 DEF Sends
<1> QED BY <1>2 DEF Same, BeingClosed, CloseOf

LEMMA CloseSent ==
  ASSUME ipc \in Seq(Message), NEW t \in Tunnel, Invoke("ssh_tunnel_close", t)
  PROVE  \A u : BeingClosed(u)' <=> BeingClosed(u) \/ u = t
<1>1. CloseOf(t) \in Message /\ ipc' = Append(ipc, CloseOf(t))
  BY DEF CloseOf, Command, Message, AllCommands, TunnelCommands, Invoke
<1>2. \A m : Has(Append(ipc, CloseOf(t)), m) <=> Has(ipc, m) \/ m = CloseOf(t)
  BY <1>1, LastSent
<1>3. \A u : CloseOf(u) = CloseOf(t) <=> u = t
  BY DEF CloseOf, Command
<1> QED BY <1>1, <1>2, <1>3 DEF BeingClosed, CloseOf

LEMMA CloseRun ==
  ASSUME ipc \in Seq(Message), NEW t \in Tunnel, Run("ssh_tunnel_close", t)
  PROVE  BeingClosed(t) /\ \A u : u # t => (BeingClosed(u)' <=> BeingClosed(u))
<1>1. ipc # <<>> /\ Head(ipc) = CloseOf(t) /\ ipc' = Tail(ipc)
  BY DEF Run, CloseOf
<1>2. \A m : m # Head(ipc) => (Has(Tail(ipc), m) <=> Has(ipc, m))
  BY <1>1, FirstRun
<1>3. \A u : CloseOf(u) = CloseOf(t) <=> u = t
  BY DEF CloseOf, Command
<1>4. Has(ipc, CloseOf(t))
  <2>1. 1 \in DOMAIN ipc /\ Head(ipc) = ipc[1]
    BY <1>1, EmptySeq
  <2> QED BY <1>1, <2>1 DEF Has
<1> QED BY <1>1, <1>2, <1>3, <1>4 DEF BeingClosed, CloseOf

LEMMA StatusFitsOn ==
  ASSUME BridgeTypeOK, SentInv, StatusFits, TunnelsNext PROVE StatusFits'
<1>1. ipc \in Seq(Message)
  BY DEF SentInv
<1>2. ASSUME NEW R, AskStatus(R) PROVE StatusFits'
  BY <1>1, <1>2, AskFits
<1>3. ASSUME UNCHANGED <<sync, ipc>> PROVE StatusFits'
  BY <1>3 DEF StatusFits, StatusOfAll
<1>4. ASSUME UNCHANGED sync, NEW C, "ssh_tunnel_status" \notin C, Sends(C, ipc, ipc') PROVE StatusFits'
  BY <1>4, StatusFitsStill
<1>5. ASSUME LeaveTunnels PROVE StatusFits'
  <2>1. ipc' = Unasked
    BY <1>5 DEF LeaveTunnels
  <2> QED BY <1>1, <2>1, NoneAsked DEF StatusFits, StatusOfAll
<1>6. ASSUME ReadStatus PROVE StatusFits'
  <2>1. ipc # <<>> /\ Head(ipc) = StatusOfAll /\ ipc' = Tail(ipc)
    BY <1>6 DEF ReadStatus, Run, StatusOfAll
  <2>2. ~Has(Tail(ipc), StatusOfAll) /\ Once(Tail(ipc), StatusOfAll)
    BY <1>1, <2>1, FirstRun DEF StatusFits
  <2> QED BY <2>1, <2>2 DEF StatusFits, StatusOfAll
<1>7. ASSUME ShowStatus PROVE StatusFits'
  <2>1. sync.at = "answered" /\ UNCHANGED ipc
    BY <1>7 DEF ShowStatus, bridge
  <2> QED BY <2>1 DEF StatusFits, StatusOfAll
<1>8. ASSUME NEW o \in Op, TunnelProgress(o) \/ OpenTunnel(o) PROVE StatusFits'
  <2>1. UNCHANGED sync /\ (Invoke("ssh_tunnel_open", o) \/ Run("ssh_tunnel_open", o) \/ UNCHANGED ipc)
    BY <1>8 DEF TunnelProgress, HasKeys, NotStarted, AuthThrows, HasAuth, Started, StartFailed, OpenTunnel, bridge
  <2>2. o \in Maybe1 \cup Tunnel /\ "ssh_tunnel_open" \in {"ssh_tunnel_open"} \cap AllCommands
    BY DEF Maybe1, AllCommands, TunnelCommands
  <2>3. Sends({"ssh_tunnel_open"}, ipc, ipc')
    BY <1>1, <2>1, <2>2, InvokeSends, RunSends, StillSends
  <2> QED BY <1>4, <2>1, <2>3
<1>9. ASSUME NEW t \in Tunnel, Invoke("ssh_tunnel_close", t) \/ Run("ssh_tunnel_close", t), UNCHANGED sync PROVE StatusFits'
  <2>1. t \in Maybe1 \cup Tunnel /\ "ssh_tunnel_close" \in {"ssh_tunnel_close"} \cap AllCommands
    BY DEF AllCommands, TunnelCommands
  <2>2. Sends({"ssh_tunnel_close"}, ipc, ipc')
    BY <1>1, <1>9, <2>1, InvokeSends, RunSends
  <2> QED BY <1>4, <1>9, <2>2
<1>10. ASSUME NEW t \in Tunnel, Save(t) \/ StartTunnel(t) \/ StopTunnel(t) \/ RemoveTunnel(t) \/ CloseTunnel(t) \/ TunnelExit(t)
       PROVE  StatusFits'
  <2>1. \/ \E R : AskStatus(R)
        \/ UNCHANGED <<sync, ipc>>
        \/ UNCHANGED sync /\ (Invoke("ssh_tunnel_close", t) \/ Run("ssh_tunnel_close", t))
    BY <1>10 DEF Save, StartTunnel, StopTunnel, RemoveTunnel, CloseTunnel, TunnelExit, bridge
  <2> QED BY <1>2, <1>3, <1>9, <2>1
<1>11. ASSUME NEW k \in stopping, Stopped(k) PROVE StatusFits'
  <2>1. (\E R : AskStatus(R)) \/ UNCHANGED <<sync, ipc>>
    BY <1>11 DEF Stopped
  <2> QED BY <1>2, <1>3, <2>1
<1>12. OpenTunnels => StatusFits'
  BY <1>2 DEF OpenTunnels
<1> QED BY <1>5, <1>6, <1>7, <1>8, <1>10, <1>11, <1>12 DEF TunnelsNext

------------------------------------------------------------------------------
(* The patient user, step by step                                          *)

PatientGround == SentInv /\ PatientTunnels /\ ~Hasty

LEMMA OnThePage ==
  ASSUME PatientGround
  PROVE  /\ ipc \in Seq(Message) /\ TunnelsTypeOK /\ start \in [Op -> Start] /\ up \in [Tunnel -> Maybe1]
         /\ saved \subseteq Tunnel /\ tracked \subseteq Tunnel /\ stopping \subseteq Stop
         /\ \A o \in Op : StartRegistered(o) /\ (start[o].at # "idle" => start[o].tunnel \in Tunnel)
         /\ StopsAnswered /\ UpIsKnown /\ PatientTunnels
BY DEF PatientGround, SentInv, TunnelsTypeOK, PatientTunnels, Maybe1, Stop

(* What the registry knows stays known, when no start moves, no child is   *)
(* opened and nothing that lives is struck off, but what the page took for *)
(* idle.                                                                   *)
LEMMA RegisterStays ==
  ASSUME PatientTunnels,
         \A o \in Op : start'[o].at = start[o].at /\ start'[o].tunnel = start[o].tunnel,
         (\E o \in Op : Starting(o)) /\ stopping = {} => stopping' = {},
         \A k \in stopping' : k.answered => up'[k.tunnel] = None,
         forgotten \subseteq forgotten',
         \A t : t \notin forgotten' /\ Lives(t) => (t \in tracked => t \in tracked') /\ (t \in saved => t \in saved'),
         \A t \in Tunnel : up'[t] # None => up[t] # None /\ (BeingClosed(t) => BeingClosed(t)')
  PROVE  PatientTunnels'
<1>1. ASSUME NEW o \in Op, Starting(o)' PROVE StartRegistered(o)'
  <2>1. start'[o].at = start[o].at /\ start'[o].tunnel = start[o].tunnel /\ Starting(o)
    BY <1>1 DEF Starting
  <2>2. StartRegistered(o) /\ Lives(start[o].tunnel)
    BY <2>1 DEF PatientTunnels, Lives
  <2>3. stopping' = {}
    BY <2>1, <2>2 DEF StartRegistered
  <2>4. ASSUME start[o].tunnel \notin forgotten'
        PROVE  start[o].tunnel \in saved' /\ (start[o].at \in {"sent", "opened"} => start[o].tunnel \in tracked')
    BY <2>1, <2>2, <2>4 DEF StartRegistered
  <2> QED BY <2>1, <2>3, <2>4 DEF StartRegistered
<1>2. StopsAnswered'
  BY DEF StopsAnswered
<1>3. ASSUME NEW t \in Tunnel, t \notin forgotten', up'[t] # None PROVE t \in tracked' \cap saved' \/ BeingClosed(t)'
  <2>1. t \notin forgotten /\ up[t] # None /\ Lives(t)
    BY <1>3 DEF Lives
  <2>2. t \in tracked \cap saved \/ BeingClosed(t)
    BY <2>1 DEF PatientTunnels, UpIsKnown
  <2> QED BY <1>3, <2>1, <2>2
<1>4. \A o \in Op : StartRegistered(o)'
  BY <1>1 DEF StartRegistered
<1>5. UpIsKnown'
  BY <1>3 DEF UpIsKnown
<1> QED BY <1>2, <1>4, <1>5 DEF PatientTunnels

LEMMA AsksKeepCloses ==
  ASSUME ipc \in Seq(Message), NEW R, AskStatus(R) PROVE \A t : BeingClosed(t)' <=> BeingClosed(t)
<1>1. Sends({"ssh_tunnel_status"}, ipc, ipc')
  BY TunnelStatus
<1> QED BY <1>1, ClosesStaySent

(* Where the registry, the rows of tunnels that live, the calls and the    *)
(* shell are as they were.                                                 *)
LEMMA PageTurns ==
  ASSUME PatientGround, saved \subseteq saved', UNCHANGED <<tracked, up, forgotten>>,
         \A o \in Op : start'[o].at = start[o].at /\ start'[o].tunnel = start[o].tunnel,
         stopping = {} => stopping' = {},
         \A k \in stopping' : k.answered => up[k.tunnel] = None,
         \A t : BeingClosed(t)' <=> BeingClosed(t)
  PROVE  PatientTunnels'
<1>1. PatientTunnels
  BY DEF PatientGround
<1>2. \A t \in Tunnel : up'[t] # None => up[t] # None /\ (BeingClosed(t) => BeingClosed(t)')
  OBVIOUS
<1> QED BY <1>1, <1>2, RegisterStays

LEMMA OpenPageKeeps == ASSUME PatientGround, OpenTunnels PROVE PatientTunnels'
<1>1. AskStatus(saved) /\ UNCHANGED <<saved, tracked, start, stopping, up, forgotten>>
  BY DEF OpenTunnels
<1>2. \A t : BeingClosed(t)' <=> BeingClosed(t)
  BY <1>1, OnThePage, AsksKeepCloses
<1>3. \A k \in stopping' : k.answered => up[k.tunnel] = None
  BY <1>1, OnThePage DEF StopsAnswered
<1> QED BY <1>1, <1>2, <1>3, PageTurns

(* The handlers of a page that was left: their calls and stops go on.      *)
LEMMA PageGoneKeeps ==
  ASSUME PatientGround, PageGone, stopping = {}
  PROVE  /\ \A o \in Op : start'[o].at = start[o].at /\ start'[o].tunnel = start[o].tunnel
         /\ stopping' = {}
<1>1. start' = [o \in Op |-> [start[o] EXCEPT !.here = FALSE]] /\ stopping' = {[k EXCEPT !.here = FALSE] : k \in stopping}
  BY DEF PageGone
<1>2. \A o \in Op : start[o] \in Start
  BY OnThePage
<1>3. \A o \in Op : start'[o].at = start[o].at /\ start'[o].tunnel = start[o].tunnel
  BY <1>1, <1>2 DEF Start
<1>4. stopping = {}
  OBVIOUS
<1>5. stopping' = {}
  BY ONLY <1>1, <1>4
<1> QED BY <1>3, <1>5

LEMMA LeavePageKeeps == ASSUME PatientGround, LeaveTunnels PROVE PatientTunnels'
<1>1. PageGone /\ ipc' = Unasked /\ ~TunnelsBusy /\ UNCHANGED <<saved, tracked, up, forgotten>>
  BY DEF LeaveTunnels, PatientGround
<1>2. stopping = {}
  BY <1>1 DEF TunnelsBusy
<1>3. \A t : BeingClosed(t)' <=> BeingClosed(t)
  <2>1. Sends({"ssh_tunnel_status"}, ipc, ipc')
    BY <1>1, OnThePage, UnaskedSends
  <2> QED BY <2>1, ClosesStaySent
<1>4. /\ \A o \in Op : start'[o].at = start[o].at /\ start'[o].tunnel = start[o].tunnel
      /\ stopping' = {}
  BY <1>1, <1>2, PageGoneKeeps
<1> QED BY <1>1, <1>3, <1>4, PageTurns

LEMMA ReadKeeps == ASSUME PatientGround, ReadStatus PROVE PatientTunnels'
<1>1. UNCHANGED <<saved, tracked, start, stopping, up, forgotten>>
  BY DEF ReadStatus
<1>2. \A t : BeingClosed(t)' <=> BeingClosed(t)
  <2>1. Run("ssh_tunnel_status", None) /\ "ssh_tunnel_status" \in {"ssh_tunnel_status"}
    BY DEF ReadStatus
  <2>2. Sends({"ssh_tunnel_status"}, ipc, ipc')
    BY <2>1, OnThePage, RunSends
  <2> QED BY <2>2, ClosesStaySent
<1>3. \A k \in stopping' : k.answered => up[k.tunnel] = None
  BY <1>1, OnThePage DEF StopsAnswered
<1> QED BY <1>1, <1>2, <1>3, PageTurns

(* What lives and is struck off the registry is what the page forgets.     *)
LEMMA ShowKeeps == ASSUME PatientGround, ShowStatus PROVE PatientTunnels'
<1>1. /\ tracked' = (tracked \ sync.rows) \cup sync.running
      /\ forgotten' = forgotten \cup {t \in sync.rows \ sync.running : Lives(t) /\ ~Hasty}
      /\ UNCHANGED <<ipc, saved, start, stopping, up>>
  BY DEF ShowStatus, bridge, shared
<1>2. \A t : t \notin forgotten' /\ Lives(t) => (t \in tracked => t \in tracked') /\ (t \in saved => t \in saved')
  BY <1>1 DEF PatientGround
<1>3. \A t \in Tunnel : up'[t] # None => up[t] # None /\ (BeingClosed(t) => BeingClosed(t)')
  BY <1>1 DEF BeingClosed, CloseOf
<1>4. \A k \in stopping' : k.answered => up'[k.tunnel] = None
  BY <1>1, OnThePage DEF StopsAnswered
<1>5. PatientTunnels /\ forgotten \subseteq forgotten'
  BY <1>1 DEF PatientGround
<1> QED BY <1>1, <1>2, <1>3, <1>4, <1>5, RegisterStays

LEMMA SaveKeeps == ASSUME PatientGround, NEW t \in Tunnel, Save(t) PROVE PatientTunnels'
<1>1. saved' = saved \cup {t} /\ AskStatus(saved') /\ UNCHANGED <<tracked, start, stopping, up, forgotten>>
  BY DEF Save
<1>2. \A u : BeingClosed(u)' <=> BeingClosed(u)
  <2>1. \E R : AskStatus(R)
    BY <1>1
  <2> QED BY <2>1, OnThePage, AsksKeepCloses
<1>3. \A k \in stopping' : k.answered => up[k.tunnel] = None
  BY <1>1, OnThePage DEF StopsAnswered
<1> QED BY <1>1, <1>2, <1>3, PageTurns

LEMMA BeginKeeps == ASSUME BridgeTypeOK, PatientGround, NEW t \in Tunnel, StartTunnel(t) PROVE PatientTunnels'
<1>1. t \in saved /\ stopping = {} /\ UNCHANGED <<ipc, saved, tracked, stopping, up, forgotten>>
  BY DEF StartTunnel, PatientGround
<1>2. PICK n \in Op : n = ops' /\ n > ops
  BY NativeBridgeAssumption DEF StartTunnel, Begin, BridgeTypeOK, Op
<1> DEFINE new == [tunnel |-> t, here |-> TRUE, at |-> "keys"]
<1>3. start' = [start EXCEPT ![n] = new]
  BY <1>2 DEF StartTunnel
<1>4. new.tunnel = t /\ new.at = "keys"
  OBVIOUS
<1> HIDE DEF new
<1>5. start'[n] = new /\ \A p \in Op : p # n => start'[p] = start[p]
  BY <1>3, OnThePage
<1>6. ASSUME NEW p \in Op PROVE StartRegistered(p)'
  <2>1. CASE p = n
    BY <2>1, <1>1, <1>4, <1>5 DEF StartRegistered
  <2>2. CASE p # n
    <3>1. StartRegistered(p) /\ start'[p] = start[p]
      BY <2>2, <1>5, OnThePage
    <3> QED BY <3>1, <1>1 DEF StartRegistered, Starting
  <2> QED BY <2>1, <2>2
<1>7. StopsAnswered' /\ UpIsKnown'
  BY <1>1, OnThePage DEF StopsAnswered, UpIsKnown, BeingClosed, CloseOf
<1> QED BY <1>6, <1>7 DEF PatientTunnels

(* A start goes on: what it needs to know is about its own tunnel.         *)
LEMMA OneGoesOn ==
  ASSUME PatientGround, NEW o \in Op, Starting(o), NEW at, start' = [start EXCEPT ![o].at = at],
         UNCHANGED <<saved, stopping, forgotten>>, tracked \subseteq tracked',
         \A u \in Tunnel : u # start[o].tunnel => up'[u] = up[u],
         \A u : BeingClosed(u)' <=> BeingClosed(u),
         start[o].tunnel \notin forgotten =>
           /\ at \in {"sent", "opened"} => start[o].tunnel \in tracked'
           /\ start[o].tunnel \in tracked' \/ up'[start[o].tunnel] = up[start[o].tunnel]
  PROVE  PatientTunnels'
<1>1. PICK T \in Tunnel : T = start[o].tunnel
  BY OnThePage DEF Starting
<1>2. stopping = {} /\ (T \notin forgotten => T \in saved)
  BY <1>1, OnThePage DEF StartRegistered
<1>3. /\ start'[o].at = at /\ start'[o].tunnel = T
      /\ \A p \in Op : p # o => start'[p] = start[p]
  BY <1>1, OnThePage DEF Start
<1>4. ASSUME NEW p \in Op PROVE StartRegistered(p)'
  <2>1. CASE p = o
    BY <2>1, <1>1, <1>2, <1>3 DEF StartRegistered
  <2>2. CASE p # o
    <3>1. StartRegistered(p) /\ start'[p] = start[p]
      BY <2>2, <1>3, OnThePage
    <3> QED BY <3>1 DEF StartRegistered, Starting
  <2> QED BY <2>1, <2>2
<1>5. StopsAnswered'
  BY <1>2 DEF StopsAnswered
<1>6. ASSUME NEW u \in Tunnel, u \notin forgotten, up'[u] # None PROVE u \in tracked' \cap saved' \/ BeingClosed(u)'
  <2>1. CASE up'[u] = up[u]
    BY <1>6, <2>1, OnThePage DEF UpIsKnown
  <2>2. CASE up'[u] # up[u]
    BY <1>1, <1>2, <1>6, <2>2
  <2> QED BY <2>1, <2>2
<1>7. UpIsKnown'
  BY <1>6 DEF UpIsKnown
<1> QED BY <1>4, <1>5, <1>7 DEF PatientTunnels

(* A step that neither sends the command nor opens a child.                *)
LEMMA QuietStartKeeps ==
  ASSUME PatientGround, NEW o \in Op,
         HasKeys(o) \/ NotStarted(o) \/ AuthThrows(o) \/ StartFailed(o) \/ Started(o)
  PROVE  PatientTunnels'
<1>1. PICK at \in {"auth", "thrown", "ended"} :
        /\ start[o].at \in {"keys", "auth", "refused", "opened"} /\ start' = [start EXCEPT ![o].at = at]
        /\ tracked \subseteq tracked' /\ UNCHANGED <<ipc, saved, stopping, up, forgotten>>
  BY DEF HasKeys, NotStarted, AuthThrows, StartFailed, Started, To, Track, bridge
<1>2. Starting(o) /\ at \notin {"sent", "opened"}
  BY <1>1 DEF Starting
<1>3. \A u : BeingClosed(u)' <=> BeingClosed(u)
  BY <1>1 DEF BeingClosed, CloseOf
<1> QED BY <1>1, <1>2, <1>3, OneGoesOn

(* The tunnel is registered before its command is sent.                    *)
LEMMA HasAuthKeeps == ASSUME PatientGround, NEW o \in Op, HasAuth(o) PROVE PatientTunnels'
<1>1. /\ start[o].at = "auth" /\ start' = [start EXCEPT ![o].at = "sent"] /\ tracked' = tracked \cup {start[o].tunnel}
      /\ UNCHANGED <<saved, stopping, up, forgotten>>
  BY DEF HasAuth, To, Track
<1>2. Starting(o)
  BY <1>1 DEF Starting
<1>3. \A u : BeingClosed(u)' <=> BeingClosed(u)
  <2>1. o \in Maybe1 \cup Tunnel /\ "ssh_tunnel_open" \in {"ssh_tunnel_open"} \cap AllCommands
    BY DEF Maybe1, AllCommands, TunnelCommands
  <2>2. Sends({"ssh_tunnel_open"}, ipc, ipc')
    BY <2>1, OnThePage, InvokeSends DEF HasAuth
  <2> QED BY <2>2, ClosesStaySent
<1>4. tracked \subseteq tracked' /\ start[o].tunnel \in tracked'
  BY <1>1
<1> QED BY <1>1, <1>2, <1>3, <1>4, OneGoesOn

LEMMA OpenTunnelKeeps == ASSUME PatientGround, NEW o \in Op, OpenTunnel(o) PROVE PatientTunnels'
<1>1. PICK at \in {"opened", "refused"} :
        /\ start' = [start EXCEPT ![o].at = at]
        /\ up' = [up EXCEPT ![start[o].tunnel] = o] \/ up' = up
        /\ Run("ssh_tunnel_open", o)
        /\ UNCHANGED <<saved, tracked, stopping, forgotten>>
  BY DEF OpenTunnel, To
<1>2. start[o].at = "sent"
  <2>1. ipc # <<>> /\ Head(ipc) = OpenOf(o)
    BY <1>1 DEF Run, OpenOf
  <2>2. 1 \in DOMAIN ipc /\ Head(ipc) = ipc[1]
    BY <2>1, OnThePage, EmptySeq
  <2> QED BY <2>1, <2>2 DEF PatientGround, SentInv, Has
<1>3. Starting(o)
  BY <1>2 DEF Starting
<1>4. start[o].tunnel \notin forgotten => start[o].tunnel \in tracked
  BY <1>2, <1>3, OnThePage DEF StartRegistered
<1>5. \A u : BeingClosed(u)' <=> BeingClosed(u)
  <2>1. Sends({"ssh_tunnel_open"}, ipc, ipc')
    BY <1>1, OnThePage, RunSends
  <2> QED BY <2>1, ClosesStaySent
<1>6. \A u \in Tunnel : u # start[o].tunnel => up'[u] = up[u]
  BY <1>1, OnThePage
<1> QED BY <1>1, <1>3, <1>4, <1>5, <1>6, OneGoesOn

(* The patient user asks for a stop when nothing else is under way.        *)
LEMMA StopAsked ==
  ASSUME PatientGround, ~TunnelsBusy, NEW t \in Tunnel, NEW b \in BOOLEAN, Invoke("ssh_tunnel_close", t),
         stopping' = stopping \cup {[tunnel |-> t, delete |-> b, here |-> TRUE, answered |-> FALSE]},
         UNCHANGED <<saved, tracked, start, up, forgotten>>
  PROVE  PatientTunnels'
<1>1. (\A o \in Op : ~Starting(o)) /\ stopping = {}
  BY DEF TunnelsBusy
<1>2. \A u : BeingClosed(u)' <=> BeingClosed(u) \/ u = t
  BY OnThePage, CloseSent
<1>3. \A k \in stopping' : k.answered => up'[k.tunnel] = None
  BY <1>1
<1>4. \A u \in Tunnel : up'[u] # None => up[u] # None /\ (BeingClosed(u) => BeingClosed(u)')
  BY <1>2
<1> QED BY <1>1, <1>3, <1>4, OnThePage, RegisterStays

LEMMA StopKeeps == ASSUME PatientGround, NEW t \in Tunnel, StopTunnel(t) PROVE PatientTunnels'
<1>1. ~TunnelsBusy /\ UNCHANGED <<saved, tracked, start, up, forgotten>>
  BY DEF StopTunnel, PatientGround
<1>2. CASE runtime[t] = "starting"
  <2>1. UNCHANGED <<ipc, stopping>>
    BY <1>2 DEF StopTunnel
  <2>2. \A u : BeingClosed(u)' <=> BeingClosed(u)
    BY <2>1 DEF BeingClosed, CloseOf
  <2>3. \A k \in stopping' : k.answered => up[k.tunnel] = None
    BY <2>1, OnThePage DEF StopsAnswered
  <2> QED BY <1>1, <2>1, <2>2, <2>3, PageTurns
<1>3. CASE runtime[t] # "starting"
  <2>1. /\ Invoke("ssh_tunnel_close", t)
        /\ stopping' = stopping \cup {[tunnel |-> t, delete |-> FALSE, here |-> TRUE, answered |-> FALSE]}
    BY <1>3 DEF StopTunnel
  <2> QED BY <1>1, <2>1, StopAsked
<1> QED BY <1>2, <1>3

LEMMA RemoveKeeps == ASSUME PatientGround, NEW t \in Tunnel, RemoveTunnel(t) PROVE PatientTunnels'
<1>1. ~TunnelsBusy /\ UNCHANGED <<tracked, start, up>>
  BY DEF RemoveTunnel, PatientGround
<1>2. CASE runtime[t] \in {"none", "starting"}
  <2>1. /\ saved' = saved \ {t} /\ AskStatus(saved') /\ UNCHANGED stopping
        /\ forgotten' = forgotten \cup {u \in {t} : up[u] # None /\ ~Hasty}
    BY <1>2 DEF RemoveTunnel
  <2>2. \A o \in Op : ~Starting(o)
    BY <1>1 DEF TunnelsBusy
  <2>3. \A u : BeingClosed(u)' <=> BeingClosed(u)
    <3>1. \E R : AskStatus(R)
      BY <2>1
    <3> QED BY <3>1, OnThePage, AsksKeepCloses
  <2>4. \A u : u \notin forgotten' /\ Lives(u) => (u \in tracked => u \in tracked') /\ (u \in saved => u \in saved')
    BY <1>1, <2>1, <2>2 DEF Lives, PatientGround
  <2>5. \A k \in stopping' : k.answered => up'[k.tunnel] = None
    BY <1>1, <2>1, OnThePage DEF StopsAnswered
  <2>6. \A u \in Tunnel : up'[u] # None => up[u] # None /\ (BeingClosed(u) => BeingClosed(u)')
    BY <1>1, <2>3
  <2>7. forgotten \subseteq forgotten' /\ PatientTunnels /\ (stopping = {} => stopping' = {})
    BY <2>1 DEF PatientGround
  <2> QED BY <1>1, <2>4, <2>5, <2>6, <2>7, RegisterStays
<1>3. CASE runtime[t] \notin {"none", "starting"}
  <2>1. /\ Invoke("ssh_tunnel_close", t)
        /\ stopping' = stopping \cup {[tunnel |-> t, delete |-> TRUE, here |-> TRUE, answered |-> FALSE]}
        /\ UNCHANGED <<saved, forgotten>>
    BY <1>3 DEF RemoveTunnel
  <2> QED BY <1>1, <2>1, StopAsked
<1> QED BY <1>2, <1>3

LEMMA TunnelExitKeeps == ASSUME PatientGround, NEW t \in Tunnel, TunnelExit(t) PROVE PatientTunnels'
<1>1. up' = [up EXCEPT ![t] = None] /\ UNCHANGED <<ipc, saved, tracked, start, stopping, forgotten>>
  BY DEF TunnelExit, bridge
<1>2. \A u \in Tunnel : up'[u] # None => up[u] # None /\ (BeingClosed(u) => BeingClosed(u)')
  BY <1>1, OnThePage DEF BeingClosed, CloseOf
<1>3. \A k \in stopping' : k.answered => up'[k.tunnel] = None
  <2>1. \A k \in stopping : k.tunnel \in Tunnel
    BY OnThePage DEF Stop
  <2> QED BY <1>1, <2>1, OnThePage DEF StopsAnswered
<1> QED BY <1>1, <1>2, <1>3, OnThePage, RegisterStays

LEMMA CloseTunnelKeeps == ASSUME PatientGround, NEW t \in Tunnel, CloseTunnel(t) PROVE PatientTunnels'
<1>1. /\ Run("ssh_tunnel_close", t) /\ up' = [up EXCEPT ![t] = None]
      /\ stopping' = {IF k.tunnel = t THEN [k EXCEPT !.answered = TRUE] ELSE k : k \in stopping}
      /\ UNCHANGED <<saved, tracked, start, forgotten>>
  BY DEF CloseTunnel
<1>2. \A u : u # t => (BeingClosed(u)' <=> BeingClosed(u))
  BY <1>1, OnThePage, CloseRun
<1>3. up'[t] = None /\ \A u \in Tunnel : u # t => up'[u] = up[u]
  BY <1>1, OnThePage
<1>4. \A k \in stopping : k \in Stop
  BY OnThePage
<1>5. \A m \in stopping' : \E k \in stopping : m.tunnel = k.tunnel /\ (m.answered => k.answered \/ k.tunnel = t)
  BY <1>1, <1>4 DEF Stop
<1>6. \A k \in stopping : k.tunnel \in Tunnel /\ (k.answered => up[k.tunnel] = None)
  BY <1>4, OnThePage DEF StopsAnswered, Stop
<1>7. \A m \in stopping' : m.answered => up'[m.tunnel] = None
  BY <1>3, <1>5, <1>6
<1>8. \A u \in Tunnel : up'[u] # None => up[u] # None /\ (BeingClosed(u) => BeingClosed(u)')
  BY <1>2, <1>3
<1>9. stopping = {} => stopping' = {}
  BY <1>1
<1> QED BY <1>1, <1>7, <1>8, <1>9, OnThePage, RegisterStays

(* An answered stop finds no child, and for the patient user no start.     *)
LEMMA StoppedKeeps == ASSUME PatientGround, NEW k \in stopping, Stopped(k) PROVE PatientTunnels'
<1>1. /\ k.answered /\ stopping' = stopping \ {k} /\ tracked' = tracked \ {k.tunnel}
      /\ UNCHANGED <<start, up, forgotten>>
  BY DEF Stopped
<1>2. PICK T \in Tunnel : T = k.tunnel
  BY OnThePage DEF Stop
<1>3. up[T] = None /\ \A o \in Op : ~Starting(o)
  BY <1>1, <1>2, OnThePage DEF StopsAnswered, StartRegistered
<1>4. ~Lives(T)
  BY <1>3 DEF Lives
<1>5. saved \ {T} \subseteq saved' /\ \A u : BeingClosed(u)' <=> BeingClosed(u)
  <2>1. CASE \E R : AskStatus(R)
    <3>1. \A u : BeingClosed(u)' <=> BeingClosed(u)
      BY <2>1, OnThePage, AsksKeepCloses
    <3> QED BY <1>2, <3>1 DEF Stopped
  <2>2. CASE UNCHANGED ipc
    BY <1>2, <2>2 DEF Stopped, BeingClosed, CloseOf
  <2> QED BY <2>1, <2>2 DEF Stopped
<1>6. \A u : u \notin forgotten' /\ Lives(u) => (u \in tracked => u \in tracked') /\ (u \in saved => u \in saved')
  BY <1>1, <1>2, <1>4, <1>5
<1>7. \A u \in Tunnel : up'[u] # None => up[u] # None /\ (BeingClosed(u) => BeingClosed(u)')
  BY <1>1, <1>5
<1>8. \A m \in stopping' : m.answered => up'[m.tunnel] = None
  BY <1>1, OnThePage DEF StopsAnswered
<1> QED BY <1>1, <1>6, <1>7, <1>8, OnThePage, RegisterStays

LEMMA PatientSteps == ASSUME Grounds, SentInv, TunnelsInv, ~Hasty, TunnelsNext PROVE PatientTunnels'
<1>1. PatientGround /\ BridgeTypeOK
  BY DEF PatientGround, TunnelsInv, Grounds
<1>2. CASE OpenTunnels \/ LeaveTunnels \/ ReadStatus \/ ShowStatus
  BY <1>1, <1>2, OpenPageKeeps, LeavePageKeeps, ReadKeeps, ShowKeeps
<1>3. ASSUME NEW o \in Op, TunnelProgress(o) \/ OpenTunnel(o) PROVE PatientTunnels'
  BY <1>1, <1>3, QuietStartKeeps, HasAuthKeeps, OpenTunnelKeeps DEF TunnelProgress
<1>4. ASSUME NEW t \in Tunnel, Save(t) \/ StartTunnel(t) \/ StopTunnel(t) PROVE PatientTunnels'
  BY <1>1, <1>4, SaveKeeps, BeginKeeps, StopKeeps
<1>5. ASSUME NEW t \in Tunnel, RemoveTunnel(t) \/ CloseTunnel(t) \/ TunnelExit(t) PROVE PatientTunnels'
  BY <1>1, <1>5, RemoveKeeps, CloseTunnelKeeps, TunnelExitKeeps
<1>6. ASSUME NEW k \in stopping, Stopped(k) PROVE PatientTunnels'
  BY <1>1, <1>6, StoppedKeeps
<1> QED BY <1>2, <1>3, <1>4, <1>5, <1>6 DEF TunnelsNext

(* The patient user signs out when nothing is under way: what runs is in   *)
(* the registry, and closed, or is being closed, or was forgotten.         *)
LEMMA TunnelsSignOut == ASSUME Grounds, SentInv, TunnelsInv, SignOut PROVE TunnelsInv'
<1>1. /\ \A t : Has(ipc', CloseOf(t)) <=> Has(ipc, CloseOf(t)) \/ t \in tracked
      /\ Same(Unasked, ipc', StatusOfAll, StatusOfAll)
  BY SignOutSends
<1>2. StatusFits'
  <2>1. ~Has(Unasked, StatusOfAll) /\ Once(Unasked, StatusOfAll)
    BY NoneAsked DEF SentInv, TunnelsInv
  <2> QED BY <1>1, <2>1 DEF Same, StatusFits, StatusOfAll
<1>3. /\ PageGone /\ UNCHANGED <<pace, saved, up, forgotten>>
      /\ Hasty \/ ~Making
  BY DEF SignOut, CloseAllTunnels, manner
<1>4. ASSUME ~Hasty PROVE PatientTunnels'
  <2>1. (\A o \in Op : ~Starting(o)) /\ stopping = {} /\ PatientGround
    BY <1>3, <1>4 DEF Making, TunnelsBusy, PatientGround, TunnelsInv
  <2>2. (\A o \in Op : start'[o].at = start[o].at) /\ stopping' = {}
    BY <1>3, <2>1, PageGoneKeeps
  <2>3. \A o \in Op : ~Starting(o)'
    BY <2>1, <2>2 DEF Starting
  <2>4. \A t \in Tunnel : t \notin forgotten /\ up[t] # None => t \in tracked \/ BeingClosed(t)
    BY <2>1, OnThePage DEF UpIsKnown
  <2>5. \A t \in Tunnel : t \notin forgotten /\ up[t] # None => BeingClosed(t)'
    BY <1>1, <2>4 DEF BeingClosed, CloseOf
  <2>6. UpIsKnown'
    BY <1>3, <2>5 DEF UpIsKnown
  <2> QED BY <2>2, <2>3, <2>6 DEF PatientTunnels, StartRegistered, StopsAnswered
<1>5. Hasty' <=> Hasty
  BY <1>3 DEF Hasty
<1> QED BY <1>2, <1>4, <1>5 DEF TunnelsInv

LEMMA TunnelsStill ==
  ASSUME TunnelsInv, UNCHANGED <<pace, tunnelVars>>,
         NEW C, "ssh_tunnel_status" \notin C, "ssh_tunnel_close" \notin C, Sends(C, ipc, ipc')
  PROVE  TunnelsInv'
<1>1. UNCHANGED <<saved, tracked, start, stopping, sync, up, forgotten>>
  BY DEF tunnelVars
<1>2. StatusFits'
  <2>1. sync'.at = sync.at
    BY <1>1
  <2> QED BY <2>1, StatusFitsStill DEF TunnelsInv
<1>3. \A t : BeingClosed(t)' <=> BeingClosed(t)
  BY ClosesStaySent
<1>4. (Hasty' <=> Hasty) /\ \A o : Starting(o)' <=> Starting(o)
  BY <1>1 DEF Hasty, Starting
<1>5. ASSUME PatientTunnels PROVE PatientTunnels'
  <2>1. ASSUME NEW o \in Op PROVE StartRegistered(o)'
    <3>1. StartRegistered(o) /\ start'[o] = start[o]
      BY <1>1, <1>5 DEF PatientTunnels
    <3> QED BY <3>1, <1>1, <1>4 DEF StartRegistered
  <2>2. StopsAnswered' /\ UpIsKnown'
    BY <1>1, <1>3, <1>5 DEF PatientTunnels, StopsAnswered, UpIsKnown
  <2> QED BY <2>1, <2>2 DEF PatientTunnels
<1> QED BY <1>2, <1>4, <1>5 DEF TunnelsInv

LEMMA TunnelsInductive == Grounds /\ SentInv /\ TunnelsInv /\ [Next]_vars => TunnelsInv'
<1> SUFFICES ASSUME Grounds, SentInv, TunnelsInv, [Next]_vars PROVE TunnelsInv'
  OBVIOUS
<1>1. ipc \in Seq(Message) /\ BridgeTypeOK /\ pace' = pace
  BY MannerStays DEF SentInv, Grounds, manner
<1>2. CASE SignOut
  BY <1>2, TunnelsSignOut
<1>3. CASE TunnelsNext
  <2>1. StatusFits'
    BY <1>1, <1>3, StatusFitsOn DEF TunnelsInv
  <2>2. Hasty' <=> Hasty
    BY <1>1 DEF Hasty
  <2> QED BY <1>3, <2>1, <2>2, PatientSteps DEF TunnelsInv
<1>4. CASE ~SignOut /\ ~TunnelsNext
  <2>1. /\ "ssh_tunnel_status" \notin TransferCommands /\ "ssh_tunnel_close" \notin TransferCommands
        /\ "ssh_tunnel_status" \notin TabCommands \cup EditorCommands
        /\ "ssh_tunnel_close" \notin TabCommands \cup EditorCommands
    BY DEF TransferCommands, TabCommands, EditorCommands
  <2>2. \/ UNCHANGED tunnelVars /\ Sends(TransferCommands, ipc, ipc')
        \/ UNCHANGED tunnelVars /\ Sends(TabCommands \cup EditorCommands, ipc, ipc')
    BY <1>1, <1>4, Speakers, TransfersSend
  <2> QED BY <1>1, <2>1, <2>2, TunnelsStill
<1> QED BY <1>2, <1>3, <1>4

(* The page waits for the status that it asked for. For the user who waits *)
(* for a start or a stop to end, a start is registered before its command  *)
(* is sent, and each tunnel that runs is in the registry that a sign-out   *)
(* closes and has a row, or is being closed; but not a tunnel that the     *)
(* page took for idle (TunnelsPage.tsx, tunnel-sessions.ts).               *)
THEOREM TunnelsInvariant == Spec => []TunnelsInv
<1>1. Spec => [](BridgeTypeOK /\ TabsInv)
  BY BridgeInvariant, TabsInvariant, PTL
<1>2. Grounds <=> BridgeTypeOK /\ TabsInv
  BY DEF Grounds
<1> QED BY <1>1, <1>2, SpecSteps, SentInvariant, TunnelsInitial, TunnelsInductive, PTL

LEMMA ReachableThen ==
  ASSUME Grounds, TunnelsInv, TransfersInv PROVE EveryProcessIsReachable
<1> SUFFICES ASSUME pace = "patient" PROVE EveryProcessIsReachable
  BY DEF EveryProcessIsReachable
<1>1. ~Hasty
  BY DEF Hasty
<1>2. ASSUME NEW s \in pty \ displaced PROVE s \in Held \/ \E k \in closing : k.session = s /\ ~k.answered
  <2>1. PtysFit(Seats, call, obj, closing, displaced, pty, exits) /\ pty \subseteq Op
    BY DEF Grounds, TabsInv, TabsTypes, TabsFit
  <2>2. Reached(Seats, closing, displaced, s) /\ s # None
    BY <2>1 DEF PtysFit, None, Op
  <2>3. ASSUME NEW a \in Op, <<a, s>> \in Seats PROVE s \in Held
    BY <2>2, <2>3 DEF Seats, Held
  <2> QED BY <2>2, <2>3 DEF Reached
<1>3. ASSUME NEW t \in Tunnel \ forgotten, up[t] # None PROVE t \in tracked \cap saved \/ Sent("ssh_tunnel_close", t)
  <2>1. t \in tracked \cap saved \/ BeingClosed(t)
    BY <1>1, <1>3 DEF TunnelsInv, PatientTunnels, UpIsKnown
  <2> QED BY <2>1 DEF BeingClosed, Has, CloseOf, Sent
<1>4. ASSUME NEW o \in Op, process[o] = "running" PROVE items[o] \in Unfinished \/ Sent("sftp_cancel", o)
  <2>1. items[o] \in Unfinished \/ Has(ipc, CancelOf(o))
    BY <1>1, <1>4 DEF TransfersInv, TransferListed
  <2> QED BY <2>1 DEF Has, CancelOf, Sent
<1> QED BY <1>2, <1>3, <1>4 DEF EveryProcessIsReachable, ReachableBut

(* The user who waits for a connect, a start or a stop to end loses no     *)
(* process of the shell but in two ways: a terminal that is connected anew *)
(* while its PTY runs, and a tunnel that the page took for idle. Each      *)
(* other PTY is the session of a tab or is being closed, each other tunnel *)
(* is registered and has a row or is being closed, each running transfer   *)
(* is listed or is being cancelled, with any number of tabs, tunnels,      *)
(* transfers and sign-outs (resetAll, closeAllTunnelSessions,              *)
(* removeTunnel, teardownSession).                                         *)
THEOREM ProcessesStayReachable == Spec => []EveryProcessIsReachable
<1>1. Spec => [](BridgeTypeOK /\ TabsInv)
  BY BridgeInvariant, TabsInvariant, PTL
<1>2. BridgeTypeOK /\ TabsInv /\ TunnelsInv /\ TransfersInv => EveryProcessIsReachable
  BY ReachableThen DEF Grounds
<1> QED BY <1>1, <1>2, TunnelsInvariant, TransfersInvariant, PTL

------------------------------------------------------------------------------
(* HostEditor                                                               *)

(* Of whose host a credential is, wherever it is held. What a submission   *)
(* that saves a new one will call it is not known to anybody before that.  *)
Owns(i, h) == \/ \E c \in creds \cup credList : c.id = i /\ c.host = h
              \/ draft.cred = i /\ draft.id = h
              \/ \E o \in Op : submission[o].draft.cred = i /\ submission[o].draft.id = h
              \/ \E o \in Op : i \in submission[o].listed /\ submission[o].draft.id = h
OwnersFit ==
  /\ \A i, g, h \in Rec : Owns(i, g) /\ Owns(i, h) => g = h
  /\ \A i, h \in Rec : Owns(i, h) => i <= New(ops)
  /\ \A o \in Op, h \in Rec : submission[o].at \in {"host", "credential"} => ~Owns(New(o), h)
  /\ \A o \in Op, h \in Rec : submission[o].at = "duplicates" /\ Owns(CredId(o), h) => h = submission[o].host

(* What a submission has of the host that it saves.                        *)
FreshDraft(d) == d.id = None => d.cred = None
SubmissionFits(s) ==
  /\ FreshDraft(s.draft) /\ (s.draft.id = None => s.listed = {})
  /\ s.at # "ended" /\ s.draft.id # None => s.host = s.draft.id
  /\ s.at \in {"credential", "duplicates", "clear"} => s.host # None
  /\ s.at \in {"credential", "duplicates"} => s.draft.ident # "none"
  /\ s.at = "clear" => s.draft.ident = "none"
FormsFit ==
  /\ FreshDraft(draft)
  /\ \A o \in Op : SubmissionFits(submission[o]) /\ (submission[o].at # "ended" => o <= ops)

(* What waits for the shell or runs there is what a submission waits for,  *)
(* and the dialog that cannot be closed has one that will answer.          *)
TryOf(o) == Command("ssh_key_test", o)
InstallOf(o) == Command("ssh_key_install", o)
ShellFits ==
  /\ \A o \in Op : /\ Once(ipc, TryOf(o)) /\ Once(ipc, InstallOf(o))
                   /\ Has(ipc, TryOf(o)) => submission[o].at \in {"test", "retest"} /\ shell.of # o
                   /\ Has(ipc, InstallOf(o)) => submission[o].at = "install" /\ shell.of # o
  /\ shell.at = "free" <=> shell.of = None
  /\ shell.at = "test" => submission[shell.of].at \in {"test", "retest"}
  /\ shell.at \in {"copy", "manual"} => submission[shell.of].at = "install"
DialogEnds == bootstrap.status = "installing" => \E o \in Op : submission[o].at \in {"install", "retest"}

(* For the user who waits: one submission, for the host of the editor; and *)
(* the dialog is there while its own submission runs, or nothing does.     *)
Late == {"keys", "test", "retest", "install"}
Submits(o) == submission[o].at # "ended"
DialogFits ==
  /\ \A o, p \in Op : Submits(o) /\ Submits(p) => o = p
  /\ \A o \in Op : Submits(o) => editorOpen
  /\ \A o \in Op : submission[o].at \in Late => submission[o].host = draft.id
  /\ \A o \in Op : Submits(o) => (submission[o].at \in {"install", "retest"} <=> bootstrap # NoBootstrap)
                              /\ bootstrap.status # "password"
  /\ bootstrap # NoBootstrap => editorOpen /\ bootstrap.host = draft.id /\ bootstrap.status # "none"

(* And a host of which no submission failed: its credentials are listed as *)
(* they are; while they are saved, those that the submission will not      *)
(* delete are the one that it saved; and after that there is but this one. *)
Of(h) == hostCredentialsForHost(h, creds)
Single(h, i) == IF i = "none" THEN Of(h) = {} ELSE \E c \in Of(h) : Of(h) = {c} /\ c.ident = i
KnownHosts(n) ==
  /\ \A h \in hosts \cup hostList : h <= n
  /\ \A c \in creds \cup credList : c.host <= n
  /\ draft.id <= n /\ \A o \in Op : submission[o].draft.id <= n /\ submission[o].host <= n
HostFits(h) ==
  /\ Of(h) = hostCredentialsForHost(h, credList)
  /\ \A o \in Op : submission[o].host = h /\ submission[o].at \in {"host", "credential", "clear"} =>
                     submission[o].listed = Ids(Of(h))
  /\ \A o \in Op : submission[o].host = h /\ submission[o].at = "duplicates" =>
                     /\ Ids(Of(h)) \subseteq submission[o].listed \cup {CredId(o)}
                     /\ \E c \in Of(h) : c.id = CredId(o) /\ c.ident = submission[o].draft.ident
  /\ attached[h] \in Ident /\ (\A o \in Op : submission[o].host = h => submission[o].at # "duplicates") =>
       Single(h, attached[h])
HostsFit ==
  /\ \A c, d \in creds : c.id = d.id => c = d
  /\ KnownHosts(New(ops))
  /\ \A o \in Op : submission[o].at = "host" => \A c \in creds : c.host # New(o)
  /\ \A h \in Rec : attached[h] # "failed" => HostFits(h)

EditorInv ==
  /\ EditorTypeOK /\ OwnersFit /\ FormsFit
  /\ "editor" \in used => ShellFits
  /\ DialogEnds
  /\ ~Hasty => DialogFits /\ HostsFit

Stages == {"host", "credential", "duplicates", "clear", "keys", "test", "install", "retest", "ended"}
PasswordDialog == [host : Rec \cup {None}, status : {"none", "password", "installing"}]

(* What becomes of the submission o, and of no other.                      *)
OnlyOf(o) == submission' \in [Op -> Submission] /\ \A p \in Op : p # o => submission'[p] = submission[p]
SubmissionMoves(o, at) ==
  /\ OnlyOf(o)
  /\ submission'[o].at = at /\ submission'[o].draft = submission[o].draft
  /\ submission'[o].listed = submission[o].listed /\ submission'[o].host = submission[o].host
SubmissionEnds(o) == OnlyOf(o) /\ submission'[o] = NoSubmission

LEMMA EditorNumbers ==
  /\ MaxOps \in Nat /\ MaxOps \in Int /\ None = 0 /\ None \notin Op /\ None \notin Rec
  /\ \A o \in Op : o \in Nat /\ New(o) \in Rec
  /\ \A h \in Rec \cup {None} : h \in Nat
BY NativeBridgeAssumption DEF None, Op, Rec, New

LEMMA SubmissionFields ==
  /\ \A s \in Submission : s.at \in Stages /\ s.draft \in Draft /\ s.listed \subseteq Rec /\ s.host \in Rec \cup {None}
  /\ \A at \in Stages, d \in Draft, h \in Rec \cup {None}, l \in SUBSET Rec :
       [at |-> at, draft |-> d, listed |-> l, host |-> h] \in Submission
  /\ \A d \in Draft : d.id \in Rec \cup {None} /\ d.cred \in Rec \cup {None} /\ d.ident \in Ident
  /\ \A h, c \in Rec \cup {None}, i \in Ident : [id |-> h, cred |-> c, ident |-> i] \in Draft
BY DEF Submission, Draft, Stages

LEMMA EmptyForms == EmptyHost \in Draft /\ NoSubmission \in Submission /\ NoSubmission.at = "ended"
                    /\ NoSubmission.draft = EmptyHost /\ NoSubmission.listed = {} /\ NoSubmission.host = None
                    /\ EmptyHost.id = None /\ EmptyHost.cred = None
<1>1. EmptyHost \in Draft
  BY SubmissionFields DEF EmptyHost, Ident
<1>2. NoSubmission \in Submission
  BY <1>1, SubmissionFields DEF NoSubmission, Stages
<1> QED BY <1>1, <1>2 DEF NoSubmission, EmptyHost

LEMMA AdvanceMoves ==
  ASSUME submission \in [Op -> Submission], NEW o \in Op, NEW at \in Stages, submission' = Advanced(o, at)
  PROVE  SubmissionMoves(o, at)
<1>1. submission[o] \in Submission
  OBVIOUS
<1>2. [submission[o] EXCEPT !.at = at] \in Submission
  BY <1>1, SubmissionFields DEF Submission, Stages
<1>3. submission' = [submission EXCEPT ![o] = [submission[o] EXCEPT !.at = at]]
  BY DEF Advanced
<1>4. submission' \in [Op -> Submission] /\ submission'[o] = [submission[o] EXCEPT !.at = at]
  BY <1>2, <1>3
<1>5. \A p \in Op : p # o => submission'[p] = submission[p]
  BY <1>3
<1>6. /\ [submission[o] EXCEPT !.at = at].at = at
      /\ [submission[o] EXCEPT !.at = at].draft = submission[o].draft
      /\ [submission[o] EXCEPT !.at = at].listed = submission[o].listed
      /\ [submission[o] EXCEPT !.at = at].host = submission[o].host
  BY <1>1 DEF Submission
<1> QED BY <1>4, <1>5, <1>6 DEF SubmissionMoves, OnlyOf

LEMMA DoneEnds ==
  ASSUME submission \in [Op -> Submission], NEW o \in Op, submission' = Done(o)
  PROVE  SubmissionEnds(o)
<1>1. submission' = [submission EXCEPT ![o] = NoSubmission] /\ NoSubmission \in Submission
  BY EmptyForms DEF Done
<1> QED BY <1>1 DEF SubmissionEnds, OnlyOf

(* The next step of a submission that has saved its host.                  *)
LEMMA SavedMoves ==
  ASSUME submission \in [Op -> Submission], NEW o \in Op, HostSaved(o)
  PROVE  /\ OnlyOf(o) /\ HostId(o) \in Rec
         /\ submission'[o].draft = submission[o].draft /\ submission'[o].listed = submission[o].listed
         /\ submission'[o].host = HostId(o)
         /\ submission'[o].at = IF submission[o].draft.ident = "none" THEN "clear" ELSE "credential"
<1> DEFINE s == submission[o]
           at == IF s.draft.ident = "none" THEN "clear" ELSE "credential"
           t == [[s EXCEPT !.host = HostId(o)] EXCEPT !.at = at]
<1>1. s \in Submission /\ s.draft \in Draft
  BY SubmissionFields
<1>2. HostId(o) \in Rec
  BY <1>1, SubmissionFields, EditorNumbers DEF HostId
<1>3. submission' = [submission EXCEPT ![o] = t]
  BY DEF HostSaved
<1>4. at \in Stages
  BY DEF Stages
<1>5. t \in Submission /\ t.at = at /\ t.host = HostId(o) /\ t.draft = s.draft /\ t.listed = s.listed
  <2> HIDE DEF at
  <2> QED BY <1>1, <1>2, <1>4 DEF Submission, Stages
<1> HIDE DEF t
<1>6. submission' \in [Op -> Submission] /\ submission'[o] = t /\ \A p \in Op : p # o => submission'[p] = submission[p]
  BY <1>3, <1>5
<1> QED BY <1>2, <1>5, <1>6 DEF OnlyOf

LEMMA SubmittedMoves ==
  ASSUME EditorTypeOK, BridgeTypeOK, SubmitHost
  PROVE  /\ ops' \in Op /\ ops' = ops + 1 /\ OnlyOf(ops')
         /\ submission'[ops'].at = "host" /\ submission'[ops'].host = draft.id
         /\ submission'[ops'].listed = Ids(hostCredentialsForHost(draft.id, credList))
         /\ submission'[ops'].draft.id = draft.id /\ submission'[ops'].draft.ident = draft.ident
         /\ \/ submission'[ops'].draft.cred = draft.cred
            \/ \E c \in hostCredentialsForHost(draft.id, credList) : submission'[ops'].draft.cred = c.id
            \/ submission'[ops'].draft.cred = None
<1>1. ops' \in Op /\ ops' = ops + 1
  BY NativeBridgeAssumption DEF SubmitHost, Begin, BridgeTypeOK, Op
<1> DEFINE mine == Ids(hostCredentialsForHost(draft.id, credList))
<1>2. PICK kept \in (IF draft.cred # None THEN {draft} ELSE HostToInput(draft.id)) :
        submission' = [submission EXCEPT ![ops'] =
           [at |-> "host", draft |-> [draft EXCEPT !.cred = kept.cred], host |-> draft.id, listed |-> mine]]
  BY DEF SubmitHost
<1>3. draft \in Draft /\ draft.id \in Rec \cup {None} /\ draft.ident \in Ident /\ draft.cred \in Rec \cup {None}
  BY SubmissionFields DEF EditorTypeOK
<1>4. \/ kept.cred = draft.cred
      \/ \E c \in hostCredentialsForHost(draft.id, credList) : kept.cred = c.id
      \/ kept.cred = None
  <2>1. CASE draft.cred # None
    BY <2>1, <1>2
  <2>2. CASE draft.cred = None /\ hostCredentialsForHost(draft.id, credList) = {}
    <3>1. kept = [EmptyHost EXCEPT !.id = draft.id]
      BY <2>2, <1>2 DEF HostToInput
    <3>2. [EmptyHost EXCEPT !.id = draft.id].cred = None
      BY DEF EmptyHost
    <3> QED BY <3>1, <3>2
  <2>3. CASE draft.cred = None /\ hostCredentialsForHost(draft.id, credList) # {}
    <3>1. PICK c \in Latest(hostCredentialsForHost(draft.id, credList)) :
            kept = [id |-> draft.id, cred |-> c.id, ident |-> c.ident]
      BY <2>3, <1>2 DEF HostToInput
    <3> QED BY <3>1 DEF Latest
  <2> QED BY <2>1, <2>2, <2>3
<1>5. credList \subseteq Credential /\ mine \subseteq Rec
  BY DEF EditorTypeOK, hostCredentialsForHost, Ids, Credential
<1>6. kept.cred \in Rec \cup {None}
  BY <1>3, <1>4, <1>5 DEF hostCredentialsForHost, Credential
<1> DEFINE d == [draft EXCEPT !.cred = kept.cred]
<1>7. d \in Draft /\ d.id = draft.id /\ d.ident = draft.ident /\ d.cred = kept.cred
  BY <1>3, <1>6 DEF Draft
<1> HIDE DEF d, mine
<1>8. "host" \in Stages
  BY DEF Stages
<1> DEFINE s == [at |-> "host", draft |-> d, listed |-> mine, host |-> draft.id]
<1>9. s \in Submission /\ s.at = "host" /\ s.draft = d /\ s.listed = mine /\ s.host = draft.id
  <2>1. [at |-> "host", draft |-> d, listed |-> mine, host |-> draft.id] \in Submission
    BY <1>3, <1>5, <1>7, <1>8, SubmissionFields
  <2> QED BY <2>1
<1>10. submission' = [submission EXCEPT ![ops'] = s]
  BY <1>2 DEF d
<1> HIDE DEF s
<1>11. submission' \in [Op -> Submission] /\ submission'[ops'] = s /\ \A p \in Op : p # ops' => submission'[p] = submission[p]
  BY <1>1, <1>9, <1>10 DEF EditorTypeOK
<1> QED BY <1>1, <1>4, <1>7, <1>9, <1>11 DEF OnlyOf, mine

LEMMA BootstrapMoves ==
  ASSUME EditorTypeOK, BridgeTypeOK, SubmitBootstrap
  PROVE  /\ ops' \in Op /\ ops' = ops + 1 /\ OnlyOf(ops')
         /\ submission'[ops'].at = "install" /\ submission'[ops'].host = bootstrap.host
         /\ submission'[ops'].draft = EmptyHost /\ submission'[ops'].listed = {}
         /\ bootstrap' \in PasswordDialog /\ bootstrap'.host = bootstrap.host /\ bootstrap'.status = "installing"
<1>1. ops' \in Op /\ ops' = ops + 1
  BY NativeBridgeAssumption DEF SubmitBootstrap, Begin, BridgeTypeOK, Op
<1> DEFINE s == [[NoSubmission EXCEPT !.at = "install"] EXCEPT !.host = bootstrap.host]
<1>2. bootstrap \in PasswordDialog /\ bootstrap.host \in Rec \cup {None}
  BY DEF EditorTypeOK, PasswordDialog
<1>3. s \in Submission /\ s.at = "install" /\ s.host = bootstrap.host /\ s.draft = EmptyHost /\ s.listed = {}
  BY <1>2, EmptyForms DEF Submission
<1>4. submission' = [submission EXCEPT ![ops'] = s]
  BY DEF SubmitBootstrap
<1> HIDE DEF s
<1>5. submission' \in [Op -> Submission] /\ submission'[ops'] = s /\ \A p \in Op : p # ops' => submission'[p] = submission[p]
  BY <1>1, <1>3, <1>4 DEF EditorTypeOK
<1>6. bootstrap' = [bootstrap EXCEPT !.status = "installing"]
  BY DEF SubmitBootstrap
<1>7. bootstrap' \in PasswordDialog /\ bootstrap'.host = bootstrap.host /\ bootstrap'.status = "installing"
  BY <1>2, <1>6 DEF PasswordDialog
<1> QED BY <1>1, <1>3, <1>5, <1>7 DEF OnlyOf

(* The types.                                                              *)
LEMMA CredTypes ==
  ASSUME EditorTypeOK, NEW o \in Op
  PROVE  CredId(o) \in Rec /\ submission[o] \in Submission /\ submission[o].draft \in Draft
<1>1. submission[o] \in Submission /\ submission[o].draft \in Draft
  BY SubmissionFields DEF EditorTypeOK
<1>2. submission[o].draft.cred \in Rec \cup {None}
  BY <1>1, SubmissionFields
<1> QED BY <1>1, <1>2, EditorNumbers DEF CredId

LEMMA AttachTypes ==
  ASSUME EditorTypeOK, NEW o \in Op, submission[o].host \in Rec, Attach(o)
  PROVE  /\ creds' \subseteq Credential
         /\ \E c \in Credential : /\ creds' = Without(creds, {CredId(o)}) \cup {c}
                                  /\ c.id = CredId(o) /\ c.host = submission[o].host /\ c.ident = submission[o].draft.ident
<1>1. PICK now \in Time : creds' = Without(creds, {CredId(o)})
                  \cup {[id |-> CredId(o), host |-> submission[o].host, ident |-> submission[o].draft.ident, updatedAt |-> now]}
  BY DEF Attach
<1> DEFINE c == [id |-> CredId(o), host |-> submission[o].host, ident |-> submission[o].draft.ident, updatedAt |-> now]
<1>2. CredId(o) \in Rec /\ submission[o].draft.ident \in Ident
  BY CredTypes, SubmissionFields
<1>3. c \in Credential /\ c.id = CredId(o) /\ c.host = submission[o].host /\ c.ident = submission[o].draft.ident
  BY <1>2 DEF Credential
<1>4. creds' = Without(creds, {CredId(o)}) \cup {c}
  BY <1>1
<1> HIDE DEF c
<1>5. Without(creds, {CredId(o)}) \subseteq Credential
  BY DEF Without, EditorTypeOK
<1> QED BY <1>3, <1>4, <1>5

LEMMA ServerTypes ==
  ASSUME EditorTypeOK, FormsFit, NEW o \in Op,
         \/ HostSaved(o) \/ HostNotSaved(o) \/ Attached(o) \/ NotAttached(o)
         \/ DuplicatesDeleted(o) \/ CredentialsDeleted(o) \/ NotDeleted(o)
  PROVE  hosts' \subseteq Rec /\ creds' \subseteq Credential /\ hostList' \subseteq Rec /\ credList' \subseteq Credential
<1>1. hosts \subseteq Rec /\ hostList \subseteq Rec /\ creds \subseteq Credential /\ credList \subseteq Credential
  BY DEF EditorTypeOK
<1>2. HostId(o) \in Rec
  BY CredTypes, SubmissionFields, EditorNumbers DEF HostId
<1>3. HostSaved(o) \/ HostNotSaved(o) => hosts' \subseteq Rec /\ creds' = creds
  BY <1>1, <1>2 DEF HostSaved, HostNotSaved
<1>4. Attached(o) \/ NotAttached(o) => hosts' = hosts /\ creds' \subseteq Credential
  <2>1. submission[o].at = "credential" => submission[o].host \in Rec
    BY CredTypes, SubmissionFields DEF FormsFit, SubmissionFits
  <2>2. Attached(o) => submission[o].at = "credential" /\ Attach(o) /\ hosts' = hosts
    BY DEF Attached
  <2>3. NotAttached(o) => submission[o].at = "credential" /\ (Attach(o) \/ creds' = creds) /\ hosts' = hosts
    BY DEF NotAttached
  <2> QED BY <1>1, <2>1, <2>2, <2>3, AttachTypes
<1>5. DuplicatesDeleted(o) \/ CredentialsDeleted(o) \/ NotDeleted(o) => hosts' = hosts /\ creds' \subseteq Credential
  BY <1>1 DEF DuplicatesDeleted, CredentialsDeleted, NotDeleted, Without
<1>6. (hostList' = hosts' /\ credList' = creds') \/ (hostList' = hostList /\ credList' = credList)
  <2>1. HostSaved(o) \/ Attached(o) \/ DuplicatesDeleted(o) \/ CredentialsDeleted(o) => Lists
    BY DEF HostSaved, Attached, DuplicatesDeleted, CredentialsDeleted
  <2>2. HostNotSaved(o) \/ NotAttached(o) \/ NotDeleted(o) => Failed(o)
    BY DEF HostNotSaved, NotAttached, NotDeleted
  <2> QED BY <2>1, <2>2 DEF Lists, Failed, queryVars
<1> QED BY <1>1, <1>3, <1>4, <1>5, <1>6

Verdicts == Ident \cup {"unknown", "failed"}
LEMMA FailedMoves ==
  ASSUME EditorTypeOK, NEW o \in Op, Failed(o)
  PROVE  /\ SubmissionEnds(o) /\ UNCHANGED <<bridge, queryVars, formVars, shell>>
         /\ attached' \in [Rec -> Verdicts]
         /\ ~Hasty => \A h \in Rec : attached'[h] = IF h = submission[o].host THEN "failed" ELSE attached[h]
<1>1. SubmissionEnds(o) /\ UNCHANGED <<bridge, queryVars, formVars, shell>>
  BY DoneEnds DEF Failed, EditorTypeOK
<1>2. attached \in [Rec -> Verdicts] /\ submission[o].host \in Rec \cup {None}
  BY CredTypes, SubmissionFields DEF EditorTypeOK, Verdicts
<1>3. CASE Hasty \/ submission[o].host = None
  <2>1. attached' = attached
    BY <1>3 DEF Failed
  <2> QED BY <1>1, <1>2, <1>3, <2>1, EditorNumbers
<1>4. CASE ~Hasty /\ submission[o].host # None
  <2>1. attached' = [attached EXCEPT ![submission[o].host] = "failed"]
    BY <1>4 DEF Failed
  <2>2. "failed" \in Verdicts
    BY DEF Verdicts
  <2> QED BY <1>1, <1>2, <1>4, <2>1, <2>2
<1> QED BY <1>3, <1>4

LEMMA CleanedMoves ==
  ASSUME EditorTypeOK, NEW o \in Op, submission[o].host \in Rec, Cleaned(o)
  PROVE  /\ attached' \in [Rec -> Verdicts]
         /\ ~Hasty => \A h \in Rec :
              attached'[h] = IF h = submission[o].host /\ attached[h] # "failed" THEN submission[o].draft.ident
                             ELSE attached[h]
<1>1. attached \in [Rec -> Verdicts] /\ submission[o].draft.ident \in Verdicts
  BY CredTypes, SubmissionFields DEF EditorTypeOK, Verdicts
<1> DEFINE h == submission[o].host
           v == IF Hasty \/ attached[h] = "failed" THEN attached[h] ELSE submission[o].draft.ident
<1>2. attached' = [attached EXCEPT ![h] = v]
  BY DEF Cleaned
<1>3. v \in Verdicts /\ h \in Rec
  BY <1>1
<1>4. attached' \in [Rec -> Verdicts] /\ attached'[h] = v /\ \A g \in Rec : g # h => attached'[g] = attached[g]
  <2> HIDE DEF v, h
  <2> QED BY <1>1, <1>2, <1>3
<1> QED BY <1>4

LEMMA SavedDrafts ==
  ASSUME EditorTypeOK, NEW o \in Op, submission[o].host \in Rec, SavedDraft(o)
  PROVE  /\ draft' \in Draft /\ draft'.id = submission[o].host /\ draft'.cred = CredId(o)
         /\ draft'.ident = submission[o].draft.ident
<1>1. submission[o].draft \in Draft /\ CredId(o) \in Rec
  BY CredTypes
<1>2. draft' = [submission[o].draft EXCEPT !.id = submission[o].host, !.cred = CredId(o)]
  BY DEF SavedDraft
<1> QED BY <1>1, <1>2 DEF Draft

ShellStates == [at : {"free", "test", "copy", "manual"}, of : Op \cup {None}]

LEMMA ShellTypes ==
  /\ FreeShell \in ShellStates /\ FreeShell.at = "free" /\ FreeShell.of = None
  /\ NoBootstrap \in PasswordDialog /\ NoBootstrap.status = "none"
  /\ \A at \in {"test", "copy", "manual"}, o \in Op :
       LET s == [[FreeShell EXCEPT !.at = at] EXCEPT !.of = o] IN s \in ShellStates /\ s.at = at /\ s.of = o
<1>1. FreeShell = [at |-> "free", of |-> None] /\ NoBootstrap = [host |-> None, status |-> "none"]
  BY DEF FreeShell, NoBootstrap
<1> QED BY <1>1 DEF ShellStates, PasswordDialog

LEMMA AskTypes ==
  ASSUME EditorTypeOK, NEW o \in Op
  PROVE  AskPassword(o) \in PasswordDialog /\ AskPassword(o).status = "password" /\ AskPassword(o).host = submission[o].host
<1>1. submission[o].host \in Rec \cup {None}
  BY CredTypes, SubmissionFields
<1> QED BY <1>1 DEF AskPassword, PasswordDialog

LEMMA TestAnswerMoves ==
  ASSUME EditorTypeOK, NEW o \in Op, NEW result \in {"works", "fails", "host key", "error"}, TestAnswer(o, result)
  PROVE  /\ SubmissionEnds(o) /\ shell' = FreeShell /\ UNCHANGED <<shared, ops, rowVars, queryVars, attached>>
         /\ \/ CloseEditor /\ bootstrap' = (IF submission[o].at = "retest" THEN NoBootstrap ELSE bootstrap)
            \/ KeepEditor /\ bootstrap' = AskPassword(o)
            \/ KeepEditor /\ bootstrap' = NoBootstrap
            \/ KeepEditor /\ bootstrap' = bootstrap /\ submission[o].at # "retest"
<1>1. SubmissionEnds(o) /\ shell' = FreeShell /\ UNCHANGED <<shared, ops, rowVars, queryVars, attached>>
  BY DoneEnds DEF TestAnswer, EditorTypeOK
<1>2. CASE result = "works"
  <2>1. CloseEditor /\ bootstrap' = (IF submission[o].at = "retest" THEN NoBootstrap ELSE bootstrap)
    BY <1>2 DEF TestAnswer
  <2> QED BY <1>1, <2>1
<1>3. CASE result = "fails"
  <2>1. KeepEditor /\ bootstrap' = AskPassword(o)
    BY <1>3 DEF TestAnswer
  <2> QED BY <1>1, <2>1
<1>4. CASE result = "host key"
  <2>1. KeepEditor /\ bootstrap' = (IF submission[o].at = "retest" THEN NoBootstrap ELSE bootstrap)
    BY <1>4 DEF TestAnswer
  <2> QED BY <1>1, <2>1
<1>5. CASE result = "error"
  <2>1. KeepEditor /\ bootstrap' = (IF submission[o].at = "retest" THEN AskPassword(o) ELSE bootstrap)
    BY <1>5 DEF TestAnswer
  <2> QED BY <1>1, <2>1
<1> QED BY <1>2, <1>3, <1>4, <1>5

LEMMA InstallAnswerMoves ==
  ASSUME EditorTypeOK, NEW o \in Op, NEW result \in {"installed", "host key", "error"}, InstallAnswer(o, result)
  PROVE  /\ shell' = FreeShell /\ UNCHANGED <<shared, ops, rowVars, queryVars, draft, editorOpen, attached>>
         /\ \/ SubmissionMoves(o, "retest") /\ TestKey(o) /\ bootstrap' = bootstrap
            \/ SubmissionEnds(o) /\ UNCHANGED ipc /\ bootstrap' \in {NoBootstrap, AskPassword(o)}
<1>1. shell' = FreeShell /\ UNCHANGED <<shared, ops, rowVars, queryVars, draft, editorOpen, attached>>
  BY DEF InstallAnswer
<1>2. submission \in [Op -> Submission] /\ "retest" \in Stages
  BY DEF EditorTypeOK, Stages
<1>3. CASE result = "installed"
  <2>1. submission' = Advanced(o, "retest") /\ TestKey(o)
    BY <1>3 DEF InstallAnswer
  <2>2. bootstrap' = bootstrap
    BY <1>3 DEF InstallAnswer
  <2> QED BY <1>1, <1>2, <2>1, <2>2, AdvanceMoves
<1>4. CASE result # "installed"
  <2>1. submission' = Done(o) /\ UNCHANGED ipc
    BY <1>4 DEF InstallAnswer
  <2>2. bootstrap' \in {NoBootstrap, AskPassword(o)}
    <3>1. CASE result = "host key"
      BY <3>1 DEF InstallAnswer
    <3>2. CASE result = "error"
      BY <3>2 DEF InstallAnswer
    <3> QED BY <1>4, <3>1, <3>2
  <2> QED BY <1>1, <1>2, <2>1, <2>2, DoneEnds
<1> QED BY <1>3, <1>4

(* What the shell does for the submission o: a child runs for it, it is    *)
(* answered, or an installation goes on to the test.                       *)
ShellStep(o) == KeyTest(o) \/ KeyTestEnds(o) \/ KeyInstall(o) \/ InstallExits(o) \/ InstallFails(o)
Child(o, at) == shell' = [[FreeShell EXCEPT !.at = at] EXCEPT !.of = o] /\ UNCHANGED <<submission, formVars>>
Replied(o) ==
  /\ SubmissionEnds(o) /\ shell' = FreeShell
  /\ \/ CloseEditor /\ bootstrap' = (IF submission[o].at = "retest" THEN NoBootstrap ELSE bootstrap)
     \/ KeepEditor /\ bootstrap' = AskPassword(o)
     \/ KeepEditor /\ bootstrap' = NoBootstrap
     \/ KeepEditor /\ bootstrap' = bootstrap /\ submission[o].at # "retest"
TryStarts(o) == shell.at = "free" /\ Run("ssh_key_test", o) /\ (Child(o, "test") \/ Replied(o))
TryEnds(o) == shell.at = "test" /\ shell.of = o /\ UNCHANGED ipc /\ Replied(o)
InstallStarts(o) ==
  /\ shell.at = "free" /\ Run("ssh_key_install", o)
  /\ Child(o, "copy") \/ Child(o, "manual") \/ (Replied(o) /\ bootstrap' = AskPassword(o))
InstallEnds(o) ==
  /\ shell.at \in {"copy", "manual"} /\ shell.of = o
  /\ \/ Child(o, "manual") /\ UNCHANGED ipc
     \/ Replied(o) /\ UNCHANGED ipc /\ bootstrap' \in {NoBootstrap, AskPassword(o)}
     \/ SubmissionMoves(o, "retest") /\ TestKey(o) /\ shell' = FreeShell /\ UNCHANGED formVars

LEMMA ShellSteps ==
  ASSUME EditorTypeOK, NEW o \in Op, ShellStep(o)
  PROVE  /\ UNCHANGED <<shared, ops, rowVars, queryVars, attached>>
         /\ TryStarts(o) \/ TryEnds(o) \/ InstallStarts(o) \/ InstallEnds(o)
<1> DEFINE Others == UNCHANGED <<shared, ops, rowVars, queryVars, attached>>
<1>1. ASSUME NEW result \in {"works", "fails", "host key", "error"}, TestAnswer(o, result) PROVE Others /\ Replied(o)
  BY <1>1, TestAnswerMoves DEF Replied
<1>2. ASSUME NEW result \in {"installed", "host key", "error"}, InstallAnswer(o, result)
      PROVE  /\ Others
             /\ \/ Replied(o) /\ UNCHANGED ipc /\ bootstrap' \in {NoBootstrap, AskPassword(o)}
                \/ SubmissionMoves(o, "retest") /\ TestKey(o) /\ shell' = FreeShell /\ UNCHANGED formVars
  BY <1>2, InstallAnswerMoves DEF Replied, KeepEditor, formVars
<1>3. KeyTest(o) => Others /\ TryStarts(o)
  <2>1. SUFFICES ASSUME KeyTest(o) PROVE Others /\ TryStarts(o)
    OBVIOUS
  <2>2. shell.at = "free" /\ Run("ssh_key_test", o)
    BY <2>1, ShellTypes DEF KeyTest
  <2>3. TestAnswer(o, "error") \/ (Child(o, "test") /\ Others)
    BY <2>1 DEF KeyTest, Child
  <2> QED BY <1>1, <2>2, <2>3 DEF TryStarts
<1>4. KeyTestEnds(o) => Others /\ TryEnds(o)
  BY <1>1 DEF KeyTestEnds, TryEnds
<1>5. KeyInstall(o) => Others /\ InstallStarts(o)
  <2>1. SUFFICES ASSUME KeyInstall(o) PROVE Others /\ InstallStarts(o)
    OBVIOUS
  <2>2. /\ shell.at = "free" /\ Run("ssh_key_install", o) /\ Others /\ UNCHANGED <<draft, editorOpen>>
        /\ \/ /\ \E method \in {"copy", "manual"} : shell' = [[FreeShell EXCEPT !.at = method] EXCEPT !.of = o]
              /\ UNCHANGED <<submission, bootstrap>>
           \/ shell' = FreeShell /\ submission' = Done(o) /\ bootstrap' = AskPassword(o)
    BY <2>1, ShellTypes DEF KeyInstall
  <2>3. submission' = Done(o) => SubmissionEnds(o)
    BY DoneEnds DEF EditorTypeOK
  <2>4. Child(o, "copy") \/ Child(o, "manual") \/ (Replied(o) /\ bootstrap' = AskPassword(o))
    BY <2>2, <2>3 DEF Child, Replied, KeepEditor, formVars
  <2> QED BY <2>2, <2>4 DEF InstallStarts
<1>6. InstallExits(o) => Others /\ InstallEnds(o)
  <2>1. SUFFICES ASSUME InstallExits(o) PROVE Others /\ InstallEnds(o)
    OBVIOUS
  <2>2. PICK result \in {"installed", "host key"} : InstallAnswer(o, result)
    BY <2>1 DEF InstallExits
  <2>3. shell.at \in {"copy", "manual"} /\ shell.of = o
    BY <2>1 DEF InstallExits, Installing
  <2> QED BY <1>2, <2>2, <2>3 DEF InstallEnds
<1>7. InstallFails(o) => Others /\ InstallEnds(o)
  <2>1. SUFFICES ASSUME InstallFails(o) PROVE Others /\ InstallEnds(o)
    OBVIOUS
  <2>2. shell.at \in {"copy", "manual"} /\ shell.of = o
    BY <2>1 DEF InstallFails, Installing
  <2>3. CASE InstallAnswer(o, "error")
    BY <1>2, <2>2, <2>3 DEF InstallEnds
  <2>4. CASE /\ shell' = [FreeShell EXCEPT !.at = "manual", !.of = o]
             /\ UNCHANGED <<bridge, rowVars, queryVars, formVars, submission, attached>>
    <3>1. Child(o, "manual")
      BY <2>4 DEF Child
    <3>2. Others /\ UNCHANGED ipc
      BY <2>4 DEF bridge
    <3> QED BY <2>2, <3>1, <3>2 DEF InstallEnds
  <2> QED BY <2>1, <2>3, <2>4 DEF InstallFails
<1> QED BY <1>3, <1>4, <1>5, <1>6, <1>7 DEF ShellStep

(* The types, and what a submission has of its host, stay as they are.     *)
FitsAt(s, o, n) == SubmissionFits(s) /\ (s.at # "ended" => o <= n)

LEMMA NoSubmissionFits == SubmissionFits(NoSubmission) /\ FreshDraft(EmptyHost)
BY EmptyForms DEF SubmissionFits, FreshDraft

LEMMA OnlyOneMoves ==
  ASSUME FormsFit, NEW o \in Op, OnlyOf(o), NEW n, ops' = n, n = ops \/ (ops \in Nat /\ n = ops + 1),
         FitsAt(submission'[o], o, n), FreshDraft(draft')
  PROVE  FormsFit'
<1>1. ASSUME NEW p \in Op PROVE FitsAt(submission'[p], p, n)
  <2>1. CASE p = o
    BY <2>1
  <2>2. CASE p # o
    <3>1. submission'[p] = submission[p]
      BY <2>2 DEF OnlyOf
    <3>2. SubmissionFits(submission[p]) /\ (submission[p].at # "ended" => p <= ops)
      BY DEF FormsFit
    <3>3. p \in Nat
      BY EditorNumbers
    <3>4. submission[p].at # "ended" => p <= n
      BY <3>2, <3>3
    <3> QED BY <3>1, <3>2, <3>4 DEF FitsAt
  <2> QED BY <2>1, <2>2
<1> QED BY <1>1 DEF FormsFit, FitsAt

LEMMA MovesFit ==
  ASSUME NEW s, NEW t, SubmissionFits(s), t.draft = s.draft, t.listed = s.listed, t.host = s.host, s.at # "ended",
         \/ t.at \in Late
         \/ t.at = "duplicates" /\ s.at = "credential"
  PROVE  SubmissionFits(t)
BY DEF SubmissionFits, Late

(* What a step of the form leaves in it.                                   *)
FormStep == OpenNewHost \/ DismissEditor \/ (\E h \in Rec : OpenHost(h)) \/ (\E i \in Ident : PickIdentity(i)) \/ CancelBootstrap
CredOf(h, i) == i = None \/ \E c \in hostCredentialsForHost(h, credList) : c.id = i
LEMMA InputTypes ==
  ASSUME EditorTypeOK, NEW h \in Rec \cup {None}, NEW d \in HostToInput(h)
  PROVE  d \in Draft /\ d.id = h /\ CredOf(h, d.cred)
<1>1. CASE hostCredentialsForHost(h, credList) = {}
  <2>1. d = [EmptyHost EXCEPT !.id = h]
    BY <1>1 DEF HostToInput
  <2>2. EmptyHost \in Draft /\ EmptyHost.cred = None
    BY EmptyForms
  <2>3. d \in Draft /\ d.id = h /\ d.cred = None
    BY <2>1, <2>2 DEF Draft
  <2> QED BY <2>3 DEF CredOf
<1>2. CASE hostCredentialsForHost(h, credList) # {}
  <2>1. PICK c \in Latest(hostCredentialsForHost(h, credList)) : d = [id |-> h, cred |-> c.id, ident |-> c.ident]
    BY <1>2 DEF HostToInput
  <2>2. c \in hostCredentialsForHost(h, credList) /\ c.id \in Rec /\ c.ident \in Ident
    BY DEF Latest, hostCredentialsForHost, EditorTypeOK, Credential
  <2>3. d \in Draft /\ d.id = h /\ d.cred = c.id
    BY <2>1, <2>2 DEF Draft
  <2> QED BY <2>2, <2>3 DEF CredOf
<1> QED BY <1>1, <1>2

LEMMA FormMoves ==
  ASSUME EditorTypeOK, FormStep
  PROVE  /\ UNCHANGED <<bridge, rowVars, queryVars, submission, shell, attached>>
         /\ draft' \in Draft /\ editorOpen' \in BOOLEAN /\ bootstrap' \in PasswordDialog
         /\ bootstrap' = bootstrap \/ bootstrap' = NoBootstrap
         /\ \/ draft'.id = draft.id /\ draft'.cred = draft.cred
            \/ draft'.id = None /\ draft'.cred = None
            \/ draft'.id \in hostList /\ CredOf(draft'.id, draft'.cred)
<1>1. draft \in Draft /\ bootstrap \in PasswordDialog /\ editorOpen \in BOOLEAN /\ NoBootstrap \in PasswordDialog /\ EmptyHost \in Draft
      /\ EmptyHost.id = None /\ EmptyHost.cred = None /\ hostList \subseteq Rec
  BY ShellTypes, EmptyForms DEF EditorTypeOK, PasswordDialog
<1>2. CASE OpenNewHost
  BY <1>1, <1>2 DEF OpenNewHost
<1>3. CASE DismissEditor
  BY <1>1, <1>3 DEF DismissEditor, CloseEditor
<1>4. ASSUME NEW h \in Rec, OpenHost(h) PROVE draft' \in HostToInput(h) /\ h \in hostList /\ editorOpen' = TRUE
        /\ UNCHANGED <<bridge, rowVars, queryVars, bootstrap, submission, shell, attached>>
  BY <1>4 DEF OpenHost
<1>5. ASSUME NEW h \in Rec, OpenHost(h) PROVE draft' \in Draft /\ draft'.id = h /\ CredOf(h, draft'.cred)
  <2>1. PICK d \in HostToInput(h) : draft' = d
    BY <1>4, <1>5
  <2> QED BY <2>1, InputTypes
<1>6. ASSUME NEW i \in Ident, PickIdentity(i)
      PROVE /\ UNCHANGED <<bridge, rowVars, queryVars, editorOpen, bootstrap, submission, shell, attached>>
            /\ draft' \in Draft /\ draft'.id = draft.id
            /\ draft'.cred = draft.cred \/ (draft'.id \in hostList /\ CredOf(draft'.id, draft'.cred))
  <2>1. UNCHANGED <<bridge, rowVars, queryVars, editorOpen, bootstrap, submission, shell, attached>>
    BY <1>6 DEF PickIdentity
  <2>2. PICK was \in HostToInput(draft.id) :
          draft' = [draft EXCEPT !.ident = i,
                      !.cred = IF draft.id \in hostList /\ was.cred # None THEN was.cred ELSE @]
    BY <1>6 DEF PickIdentity
  <2>3. draft.id \in Rec \cup {None}
    BY <1>1 DEF Draft
  <2>4. was \in Draft /\ CredOf(draft.id, was.cred)
    BY <2>2, <2>3, InputTypes
  <2>5. CASE draft.id \in hostList /\ was.cred # None
    <3>1. draft' = [draft EXCEPT !.ident = i, !.cred = was.cred]
      BY <2>2, <2>5
    <3> QED BY <1>1, <2>1, <2>4, <2>5, <3>1 DEF Draft
  <2>6. CASE ~(draft.id \in hostList /\ was.cred # None)
    <3>1. draft' = [draft EXCEPT !.ident = i]
      BY <1>1, <2>2, <2>6 DEF Draft
    <3> QED BY <1>1, <2>1, <3>1 DEF Draft
  <2> QED BY <2>5, <2>6
<1>7. CASE CancelBootstrap
  BY <1>1, <1>7 DEF CancelBootstrap
<1> QED BY <1>1, <1>2, <1>3, <1>4, <1>5, <1>6, <1>7 DEF FormStep

LEMMA FormStepFits == ASSUME EditorTypeOK, FormsFit, FormStep PROVE EditorTypeOK' /\ FormsFit'
<1> USE FormMoves
<1>1. EditorTypeOK'
  BY DEF EditorTypeOK, PasswordDialog, rowVars, queryVars
<1>2. FreshDraft(draft')
  <2>1. draft'.id \in hostList => draft'.id # None
    BY EditorNumbers DEF EditorTypeOK
  <2> QED BY <2>1 DEF FormsFit, FreshDraft
<1>3. ops' = ops /\ submission' = submission
  BY DEF bridge
<1> QED BY <1>1, <1>2, <1>3 DEF FormsFit

LEMMA SubmitFits ==
  ASSUME EditorTypeOK, FormsFit, BridgeTypeOK, SubmitHost \/ SubmitBootstrap PROVE EditorTypeOK' /\ FormsFit'
<1>1. ops \in Nat /\ ops' \in Op /\ ops' = ops + 1 /\ OnlyOf(ops')
  BY SubmittedMoves, BootstrapMoves DEF BridgeTypeOK
<1>2. PICK n : n = ops'
  OBVIOUS
<1>3. n \in Op /\ n = ops + 1 /\ n <= n
  BY <1>1, <1>2, EditorNumbers
<1>4. CASE SubmitHost
  <2>1. UNCHANGED <<shared, ipc, rowVars, queryVars, formVars, shell, attached>>
    BY <1>4 DEF SubmitHost
  <2>2. EditorTypeOK'
    BY <1>1, <2>1 DEF EditorTypeOK, OnlyOf, rowVars, queryVars, formVars
  <2>3. /\ submission'[n].at = "host" /\ submission'[n].host = draft.id
        /\ submission'[n].listed = Ids(hostCredentialsForHost(draft.id, credList))
        /\ submission'[n].draft.id = draft.id
        /\ \/ submission'[n].draft.cred = draft.cred
           \/ \E c \in hostCredentialsForHost(draft.id, credList) : submission'[n].draft.cred = c.id
           \/ submission'[n].draft.cred = None
    BY <1>2, <1>4, SubmittedMoves
  <2>4. draft.id = None => draft.cred = None /\ hostCredentialsForHost(draft.id, credList) = {}
    BY EditorNumbers DEF FormsFit, FreshDraft, hostCredentialsForHost, EditorTypeOK, Credential
  <2>5. FreshDraft(submission'[n].draft) /\ (submission'[n].draft.id = None => submission'[n].listed = {})
    BY <2>3, <2>4 DEF FreshDraft, Ids
  <2>6. FitsAt(submission'[n], n, n)
    BY <1>3, <2>3, <2>5 DEF FitsAt, SubmissionFits
  <2>7. FreshDraft(draft')
    BY <2>1 DEF formVars, FormsFit
  <2> QED BY <1>1, <1>2, <1>3, <2>2, <2>6, <2>7, OnlyOneMoves
<1>5. CASE SubmitBootstrap
  <2>1. UNCHANGED <<shared, rowVars, queryVars, draft, editorOpen, shell, attached>>
    BY <1>5 DEF SubmitBootstrap
  <2>2. EditorTypeOK'
    BY <1>1, <1>5, <2>1, BootstrapMoves DEF EditorTypeOK, OnlyOf, rowVars, queryVars, PasswordDialog
  <2>3. /\ submission'[n].at = "install" /\ submission'[n].draft = EmptyHost /\ submission'[n].listed = {}
    BY <1>2, <1>5, BootstrapMoves
  <2>4. FitsAt(submission'[n], n, n)
    BY <1>3, <2>3, EmptyForms DEF FitsAt, SubmissionFits, FreshDraft
  <2>5. FreshDraft(draft')
    BY <2>1 DEF FormsFit
  <2> QED BY <1>1, <1>2, <1>3, <2>2, <2>4, <2>5, OnlyOneMoves
<1> QED BY <1>4, <1>5

(* What a server's answer does to the submission and to the form.          *)
ServerStep(o) == \/ HostSaved(o) \/ HostNotSaved(o) \/ Attached(o) \/ NotAttached(o)
                 \/ DuplicatesDeleted(o) \/ CredentialsDeleted(o) \/ NotDeleted(o)
Denied(o) == HostNotSaved(o) \/ NotAttached(o) \/ NotDeleted(o)

LEMMA DeniedMoves ==
  ASSUME EditorTypeOK, NEW o \in Op, Denied(o)
  PROVE  /\ Failed(o) /\ submission[o].at \in {"host", "credential", "duplicates", "clear"}
         /\ SubmissionEnds(o) /\ UNCHANGED <<bridge, queryVars, formVars, shell>>
         /\ attached' \in [Rec -> Verdicts]
         /\ ~Hasty => \A h \in Rec : attached'[h] = IF h = submission[o].host THEN "failed" ELSE attached[h]
<1>1. Failed(o) /\ submission[o].at \in {"host", "credential", "duplicates", "clear"}
  BY DEF Denied, HostNotSaved, NotAttached, NotDeleted
<1> QED BY <1>1, FailedMoves

LEMMA SavedRows ==
  ASSUME EditorTypeOK, NEW o \in Op, submission[o].at \in {"credential", "duplicates", "clear"}, FormsFit
  PROVE  submission[o].host \in Rec /\ CredId(o) \in Rec
BY CredTypes, SubmissionFields DEF FormsFit, SubmissionFits

LEMMA SubmissionEndFits ==
  ASSUME EditorTypeOK, FormsFit, NEW o \in Op, SubmissionEnds(o), ops' = ops, FreshDraft(draft')
  PROVE  FormsFit'
<1>1. FitsAt(submission'[o], o, ops)
  BY EmptyForms, NoSubmissionFits DEF SubmissionEnds, FitsAt
<1> QED BY <1>1, OnlyOneMoves DEF SubmissionEnds

LEMMA AdvanceFits ==
  ASSUME EditorTypeOK, FormsFit, NEW o \in Op, NEW at, SubmissionMoves(o, at), submission[o].at # "ended",
         at \in Late \/ (at = "duplicates" /\ submission[o].at = "credential"),
         ops' = ops, FreshDraft(draft')
  PROVE  FormsFit'
<1>1. SubmissionFits(submission[o]) /\ o <= ops
  BY DEF FormsFit
<1>2. SubmissionFits(submission'[o])
  <2>1. PICK s : s = submission[o]
    OBVIOUS
  <2>2. PICK t : t = submission'[o]
    OBVIOUS
  <2>3. t.at = at /\ t.draft = s.draft /\ t.listed = s.listed /\ t.host = s.host
    BY <2>1, <2>2 DEF SubmissionMoves
  <2>4. SubmissionFits(t)
    BY <1>1, <2>1, <2>3, MovesFit
  <2> QED BY <2>2, <2>4
<1>3. FitsAt(submission'[o], o, ops)
  BY <1>1, <1>2 DEF FitsAt
<1> QED BY <1>3, OnlyOneMoves DEF SubmissionMoves

LEMMA ServerFits ==
  ASSUME EditorTypeOK, FormsFit, NEW o \in Op, ServerStep(o) PROVE EditorTypeOK' /\ FormsFit'
<1>1. hosts' \subseteq Rec /\ creds' \subseteq Credential /\ hostList' \subseteq Rec /\ credList' \subseteq Credential
  BY ServerTypes DEF ServerStep
<1>2. FreshDraft(draft)
  BY DEF FormsFit
<1>3. draft \in Draft /\ editorOpen \in BOOLEAN
  BY DEF EditorTypeOK
<1>4. attached \in [Rec -> Verdicts]
  BY DEF EditorTypeOK, Verdicts
<1> DEFINE Beside == ops' = ops /\ bootstrap' = bootstrap /\ shell' = shell
<1>5. SUFFICES Beside /\ draft' \in Draft /\ editorOpen' \in BOOLEAN /\ OnlyOf(o) /\ attached' \in [Rec -> Verdicts] /\ FormsFit'
  BY <1>1, <1>5 DEF EditorTypeOK, OnlyOf, Verdicts
<1>6. CASE Denied(o)
  <2>1. UNCHANGED <<bridge, formVars, shell>> /\ SubmissionEnds(o) /\ attached' \in [Rec -> Verdicts]
    BY <1>6, DeniedMoves
  <2>2. Beside /\ draft' = draft /\ editorOpen' = editorOpen
    BY <2>1 DEF bridge, formVars
  <2>3. FormsFit'
    BY <1>2, <2>1, <2>2, SubmissionEndFits
  <2> QED BY <1>3, <2>1, <2>2, <2>3 DEF SubmissionEnds
<1>7. CASE HostSaved(o)
  <2>1. Beside /\ draft' = draft /\ editorOpen' = editorOpen /\ attached' = attached
    BY <1>7 DEF HostSaved, bridge, formVars
  <2>2. /\ OnlyOf(o) /\ HostId(o) \in Rec
        /\ submission'[o].draft = submission[o].draft /\ submission'[o].listed = submission[o].listed
        /\ submission'[o].host = HostId(o)
        /\ submission'[o].at = IF submission[o].draft.ident = "none" THEN "clear" ELSE "credential"
    BY <1>7, SavedMoves DEF EditorTypeOK
  <2>3. submission[o].at = "host" /\ SubmissionFits(submission[o]) /\ o <= ops
    BY <1>7 DEF HostSaved, FormsFit
  <2>4. HostId(o) # None /\ (submission[o].draft.id # None => HostId(o) = submission[o].draft.id)
    BY <2>2, EditorNumbers DEF HostId
  <2>5. SubmissionFits(submission'[o])
    BY <2>2, <2>3, <2>4 DEF SubmissionFits
  <2>6. FitsAt(submission'[o], o, ops)
    BY <2>3, <2>5 DEF FitsAt
  <2>7. FormsFit'
    BY <1>2, <2>1, <2>2, <2>6, OnlyOneMoves
  <2> QED BY <1>3, <1>4, <2>1, <2>2, <2>7
<1>8. CASE Attached(o)
  <2>1. Beside /\ draft' = draft /\ editorOpen' = editorOpen /\ attached' = attached
    BY <1>8 DEF Attached, bridge, formVars
  <2>2. submission[o].at = "credential" /\ SubmissionMoves(o, "duplicates")
    <3>1. submission' = Advanced(o, "duplicates") /\ submission[o].at = "credential"
      BY <1>8 DEF Attached
    <3>2. "duplicates" \in Stages
      BY DEF Stages
    <3> QED BY <3>1, <3>2, AdvanceMoves DEF EditorTypeOK
  <2>3. FormsFit'
    BY <1>2, <2>1, <2>2, AdvanceFits
  <2> QED BY <1>3, <1>4, <2>1, <2>2, <2>3 DEF SubmissionMoves
<1>9. CASE DuplicatesDeleted(o)
  <2>1. Beside /\ submission[o].at = "duplicates" /\ Cleaned(o)
    BY <1>9 DEF DuplicatesDeleted, bridge
  <2>2. submission[o].host \in Rec /\ CredId(o) \in Rec /\ attached' \in [Rec -> Verdicts]
    BY <2>1, SavedRows, CleanedMoves
  <2>3. CASE SavedDraft(o) /\ UNCHANGED editorOpen /\ submission' = Advanced(o, "keys")
    <3>1. draft' \in Draft /\ draft'.id = submission[o].host
      BY <2>2, <2>3, SavedDrafts
    <3>2. FreshDraft(draft')
      BY <2>2, <3>1, EditorNumbers DEF FreshDraft
    <3>3. "keys" \in Stages /\ "keys" \in Late
      BY DEF Stages, Late
    <3>4. SubmissionMoves(o, "keys")
      BY <2>3, <3>3, AdvanceMoves DEF EditorTypeOK
    <3>5. FormsFit'
      BY <2>1, <3>2, <3>3, <3>4, AdvanceFits
    <3> QED BY <1>3, <2>1, <2>2, <2>3, <3>1, <3>4, <3>5 DEF SubmissionMoves
  <2>4. CASE CloseEditor /\ submission' = Done(o)
    <3>1. draft' \in Draft /\ FreshDraft(draft') /\ editorOpen' \in BOOLEAN
      BY <2>4, EmptyForms, NoSubmissionFits DEF CloseEditor
    <3>2. SubmissionEnds(o)
      BY <2>4, DoneEnds DEF EditorTypeOK
    <3>3. FormsFit'
      BY <2>1, <3>1, <3>2, SubmissionEndFits
    <3> QED BY <2>1, <2>2, <3>1, <3>2, <3>3 DEF SubmissionEnds
  <2> QED BY <1>9, <2>3, <2>4 DEF DuplicatesDeleted
<1>10. CASE CredentialsDeleted(o)
  <2>1. Beside /\ submission[o].at = "clear" /\ Cleaned(o) /\ CloseEditor /\ submission' = Done(o)
    BY <1>10 DEF CredentialsDeleted, bridge
  <2>2. submission[o].host \in Rec /\ attached' \in [Rec -> Verdicts]
    BY <2>1, SavedRows, CleanedMoves
  <2>3. draft' \in Draft /\ FreshDraft(draft') /\ editorOpen' \in BOOLEAN
    BY <2>1, EmptyForms, NoSubmissionFits DEF CloseEditor
  <2>4. SubmissionEnds(o)
    BY <2>1, DoneEnds DEF EditorTypeOK
  <2>5. FormsFit'
    BY <2>1, <2>3, <2>4, SubmissionEndFits
  <2> QED BY <2>1, <2>2, <2>3, <2>4, <2>5 DEF SubmissionEnds
<1> QED BY <1>6, <1>7, <1>8, <1>9, <1>10 DEF ServerStep, Denied

LEMMA KeysStepMoves ==
  ASSUME EditorTypeOK, NEW o \in Op, TestAttachedKey(o)
  PROVE  /\ submission[o].at = "keys" /\ UNCHANGED <<shared, ops, rowVars, queryVars, formVars, shell, attached>>
         /\ \/ SubmissionEnds(o) /\ UNCHANGED ipc
            \/ SubmissionMoves(o, "test") /\ TestKey(o)
<1>1. "test" \in Stages /\ submission \in [Op -> Submission]
  BY DEF Stages, EditorTypeOK
<1>2. submission' = Done(o) => SubmissionEnds(o)
  BY <1>1, DoneEnds
<1>3. submission' = Advanced(o, "test") => SubmissionMoves(o, "test")
  BY <1>1, AdvanceMoves
<1> QED BY <1>2, <1>3 DEF TestAttachedKey

LEMMA KeysStepFits ==
  ASSUME EditorTypeOK, FormsFit, NEW o \in Op, TestAttachedKey(o) PROVE EditorTypeOK' /\ FormsFit'
<1>1. UNCHANGED <<ops, hosts, creds, hostList, credList, draft, editorOpen, bootstrap, shell, attached>> /\ submission[o].at = "keys"
  BY KeysStepMoves DEF rowVars, queryVars, formVars
<1>2. FreshDraft(draft')
  BY <1>1 DEF FormsFit
<1>3. CASE SubmissionEnds(o)
  BY <1>1, <1>2, <1>3, SubmissionEndFits DEF EditorTypeOK, SubmissionEnds, OnlyOf
<1>4. CASE SubmissionMoves(o, "test")
  <2>1. "test" \in Late
    BY DEF Late
  <2> QED BY <1>1, <1>2, <1>4, <2>1, AdvanceFits DEF EditorTypeOK, SubmissionMoves, OnlyOf
<1> QED BY <1>3, <1>4, KeysStepMoves

LEMMA ShellFormTypes ==
  ASSUME EditorTypeOK, FormsFit, NEW o \in Op, Replied(o), ops' = ops, UNCHANGED <<rowVars, queryVars, attached>>
  PROVE  EditorTypeOK' /\ FormsFit'
<1>1. draft' \in Draft /\ editorOpen' \in BOOLEAN /\ bootstrap' \in PasswordDialog /\ FreshDraft(draft')
  <2>1. draft \in Draft /\ editorOpen \in BOOLEAN /\ bootstrap \in PasswordDialog /\ FreshDraft(draft)
    BY DEF EditorTypeOK, PasswordDialog, FormsFit
  <2>2. EmptyHost \in Draft /\ FreshDraft(EmptyHost) /\ NoBootstrap \in PasswordDialog /\ AskPassword(o) \in PasswordDialog
    BY EmptyForms, NoSubmissionFits, ShellTypes, AskTypes
  <2>3. (draft' = EmptyHost /\ editorOpen' = FALSE) \/ (draft' = draft /\ editorOpen' = editorOpen)
    BY DEF Replied, CloseEditor, KeepEditor
  <2>4. bootstrap' \in {bootstrap, NoBootstrap, AskPassword(o)}
    BY DEF Replied
  <2> QED BY <2>1, <2>2, <2>3, <2>4
<1>2. SubmissionEnds(o) /\ shell' = FreeShell
  BY DEF Replied
<1>3. EditorTypeOK'
  BY <1>1, <1>2, ShellTypes DEF EditorTypeOK, SubmissionEnds, OnlyOf, rowVars, queryVars, PasswordDialog, ShellStates
<1> QED BY <1>1, <1>2, <1>3, SubmissionEndFits

LEMMA ShellFormsFit ==
  ASSUME EditorTypeOK, FormsFit, NEW o \in Op, ShellStep(o), submission[o].at # "ended"
  PROVE  EditorTypeOK' /\ FormsFit'
<1>1. ops' = ops /\ UNCHANGED <<rowVars, queryVars, attached>>
  BY ShellSteps
<1>2. CASE Replied(o)
  BY <1>1, <1>2, ShellFormTypes
<1>3. ASSUME NEW at \in {"test", "copy", "manual"}, Child(o, at) PROVE EditorTypeOK' /\ FormsFit'
  <2>1. shell' \in ShellStates
    BY <1>3, ShellTypes DEF Child
  <2>2. UNCHANGED <<ops, hosts, creds, hostList, credList, draft, editorOpen, bootstrap, submission, attached>>
    BY <1>1, <1>3 DEF Child, rowVars, queryVars, formVars
  <2> QED BY <2>1, <2>2 DEF EditorTypeOK, FormsFit, ShellStates
<1>4. CASE SubmissionMoves(o, "retest") /\ shell' = FreeShell /\ UNCHANGED formVars
  <2>1. UNCHANGED <<ops, hosts, creds, hostList, credList, draft, editorOpen, bootstrap, attached>> /\ "retest" \in Late
    BY <1>1, <1>4 DEF rowVars, queryVars, formVars, Late
  <2>2. FreshDraft(draft')
    BY <2>1 DEF FormsFit
  <2>3. FormsFit'
    BY <1>4, <2>1, <2>2, AdvanceFits
  <2> QED BY <1>4, <2>1, <2>3, ShellTypes DEF EditorTypeOK, SubmissionMoves, OnlyOf, ShellStates
<1> QED BY <1>2, <1>3, <1>4, ShellSteps DEF TryStarts, TryEnds, InstallStarts, InstallEnds

(* The shell and what waits for it.                                        *)
LEMMA ServerMoves == ASSUME EditorTypeOK, NEW o \in Op, ServerStep(o) PROVE OnlyOf(o)
<1>1. submission \in [Op -> Submission] /\ "duplicates" \in Stages /\ "keys" \in Stages
  BY DEF EditorTypeOK, Stages
<1>2. CASE Denied(o)
  BY <1>2, DeniedMoves DEF SubmissionEnds
<1>3. CASE HostSaved(o)
  BY <1>1, <1>3, SavedMoves
<1>4. submission' = Done(o) => OnlyOf(o)
  BY <1>1, DoneEnds DEF SubmissionEnds
<1>5. submission' = Advanced(o, "duplicates") => OnlyOf(o)
  BY <1>1, AdvanceMoves DEF SubmissionMoves
<1>6. submission' = Advanced(o, "keys") => OnlyOf(o)
  BY <1>1, AdvanceMoves DEF SubmissionMoves
<1>7. CASE Attached(o) \/ DuplicatesDeleted(o) \/ CredentialsDeleted(o)
  BY <1>4, <1>5, <1>6, <1>7 DEF Attached, DuplicatesDeleted, CredentialsDeleted
<1> QED BY <1>2, <1>3, <1>7 DEF ServerStep, Denied

LEMMA EditorKinds ==
  ASSUME EditorNext
  PROVE  \/ FormStep \/ SubmitHost \/ SubmitBootstrap
         \/ \E o \in Op : ServerStep(o) \/ TestAttachedKey(o) \/ ShellStep(o)
BY DEF EditorNext, FormStep, ServerStep, ShellStep, ShellEnds

LEMMA EditorMessages ==
  ASSUME NEW o \in Op, NEW p \in Op
  PROVE  /\ TryOf(o) \in Message /\ InstallOf(o) \in Message
         /\ TryOf(o) # InstallOf(p) /\ (o # p => TryOf(o) # TryOf(p) /\ InstallOf(o) # InstallOf(p))
         /\ TryOf(o).cmd = "ssh_key_test" /\ InstallOf(o).cmd = "ssh_key_install"
BY CommandsDiffer DEF TryOf, InstallOf, Command, Message, AllCommands, EditorCommands, Maybe1

FitsShell(q, s, sh, p) ==
  /\ Once(q, TryOf(p)) /\ Once(q, InstallOf(p))
  /\ Has(q, TryOf(p)) => s.at \in {"test", "retest"} /\ sh.of # p
  /\ Has(q, InstallOf(p)) => s.at = "install" /\ sh.of # p
FitsChild(sub, sh) ==
  /\ sh.at = "free" <=> sh.of = None
  /\ sh.at = "test" => sub[sh.of].at \in {"test", "retest"}
  /\ sh.at \in {"copy", "manual"} => sub[sh.of].at = "install"
LEMMA ShellParts == ShellFits <=> (\A o \in Op : FitsShell(ipc, submission[o], shell, o)) /\ FitsChild(submission, shell)
BY DEF ShellFits, FitsShell, FitsChild

LEMMA ShellPartsThen ==
  ASSUME \A o \in Op : FitsShell(ipc', submission'[o], shell', o), FitsChild(submission', shell') PROVE ShellFits'
BY DEF ShellFits, FitsShell, FitsChild

(* What is sent or run for the submission o says nothing of another.       *)
Mostly(s, t, o) == \A m : m \notin {TryOf(o), InstallOf(o)} => (Has(t, m) => Has(s, m)) /\ (Once(s, m) => Once(t, m))

LEMMA OtherShell ==
  ASSUME ShellFits, NEW o \in Op, NEW p \in Op, p # o, OnlyOf(o), Mostly(ipc, ipc', o), shell'.of \in {shell.of, o, None}
  PROVE  FitsShell(ipc', submission'[p], shell', p)
<1>1. FitsShell(ipc, submission[p], shell, p)
  BY ShellParts
<1>2. submission'[p] = submission[p]
  BY DEF OnlyOf
<1>3. TryOf(p) \notin {TryOf(o), InstallOf(o)} /\ InstallOf(p) \notin {TryOf(o), InstallOf(o)}
  BY EditorMessages
<1>5. /\ Once(ipc, TryOf(p)) => Once(ipc', TryOf(p))
      /\ Once(ipc, InstallOf(p)) => Once(ipc', InstallOf(p))
      /\ Has(ipc', TryOf(p)) => Has(ipc, TryOf(p))
      /\ Has(ipc', InstallOf(p)) => Has(ipc, InstallOf(p))
  BY <1>3 DEF Mostly
<1>6. p # None
  BY EditorNumbers
<1> QED BY <1>1, <1>2, <1>5, <1>6 DEF FitsShell

LEMMA ChildOther ==
  ASSUME EditorTypeOK, ShellFits, NEW o \in Op, OnlyOf(o), shell' = shell, shell.of # o PROVE FitsChild(submission', shell')
<1>1. FitsChild(submission, shell) /\ shell.of \in Op \cup {None} /\ shell.at \in {"free", "test", "copy", "manual"}
  BY ShellParts DEF EditorTypeOK
<1>2. shell.of # None => submission'[shell.of] = submission[shell.of]
  BY <1>1 DEF OnlyOf
<1> QED BY <1>1, <1>2 DEF FitsChild

(* A submission that waits for nothing of the shell may move.              *)
LEMMA ShellApart ==
  ASSUME EditorTypeOK, ShellFits, NEW o \in Op, OnlyOf(o), UNCHANGED <<ipc, shell>>,
         submission[o].at \notin {"test", "retest", "install"}
  PROVE  ShellFits'
<1>1. FitsShell(ipc, submission[o], shell, o) /\ FitsChild(submission, shell)
  BY ShellParts
<1>2. shell.of # o
  BY <1>1, EditorNumbers DEF FitsChild, EditorTypeOK
<1>3. FitsShell(ipc', submission'[o], shell', o)
  BY <1>1 DEF FitsShell
<1>4. Mostly(ipc, ipc', o)
  BY DEF Mostly
<1>5. ASSUME NEW p \in Op, p # o PROVE FitsShell(ipc', submission'[p], shell', p)
  BY <1>4, <1>5, OtherShell
<1>6. FitsChild(submission', shell')
  BY <1>2, ChildOther
<1> QED BY <1>3, <1>5, <1>6, ShellPartsThen

(* A command is sent for one that waits for nothing of the shell yet.      *)
LEMMA ShellAsked ==
  ASSUME EditorTypeOK, ShellFits, ipc \in Seq(Message), NEW o \in Op, OnlyOf(o), UNCHANGED shell,
         submission[o].at \notin {"test", "retest", "install"},
         \/ ipc' = Append(ipc, TryOf(o)) /\ submission'[o].at = "test"
         \/ ipc' = Append(ipc, InstallOf(o)) /\ submission'[o].at = "install"
  PROVE  ShellFits'
<1>1. FitsShell(ipc, submission[o], shell, o) /\ FitsChild(submission, shell)
  BY ShellParts
<1>2. shell.of # o
  BY <1>1, EditorNumbers DEF FitsChild, EditorTypeOK
<1>3. ~Has(ipc, TryOf(o)) /\ ~Has(ipc, InstallOf(o))
  BY <1>1 DEF FitsShell
<1>4. TryOf(o) # InstallOf(o) /\ TryOf(o) \in Message /\ InstallOf(o) \in Message
  BY EditorMessages
<1>5. CASE ipc' = Append(ipc, TryOf(o)) /\ submission'[o].at = "test"
  <2>1. /\ \A m : Has(ipc', m) <=> Has(ipc, m) \/ m = TryOf(o)
        /\ \A m : (~Has(ipc, m) \/ (m # TryOf(o) /\ Once(ipc, m))) => Once(ipc', m)
    BY <1>4, <1>5, LastSent
  <2>2. FitsShell(ipc', submission'[o], shell', o)
    BY <1>1, <1>2, <1>3, <1>4, <1>5, <2>1 DEF FitsShell
  <2>3. Mostly(ipc, ipc', o)
    BY <2>1 DEF Mostly
  <2>4. ASSUME NEW p \in Op, p # o PROVE FitsShell(ipc', submission'[p], shell', p)
    BY <2>3, <2>4, OtherShell
  <2>5. FitsChild(submission', shell')
    BY <1>2, ChildOther
  <2> QED BY <2>2, <2>4, <2>5, ShellPartsThen
<1>6. CASE ipc' = Append(ipc, InstallOf(o)) /\ submission'[o].at = "install"
  <2>1. /\ \A m : Has(ipc', m) <=> Has(ipc, m) \/ m = InstallOf(o)
        /\ \A m : (~Has(ipc, m) \/ (m # InstallOf(o) /\ Once(ipc, m))) => Once(ipc', m)
    BY <1>4, <1>6, LastSent
  <2>2. FitsShell(ipc', submission'[o], shell', o)
    BY <1>1, <1>2, <1>3, <1>4, <1>6, <2>1 DEF FitsShell
  <2>3. Mostly(ipc, ipc', o)
    BY <2>1 DEF Mostly
  <2>4. ASSUME NEW p \in Op, p # o PROVE FitsShell(ipc', submission'[p], shell', p)
    BY <2>3, <2>4, OtherShell
  <2>5. FitsChild(submission', shell')
    BY <1>2, ChildOther
  <2> QED BY <2>2, <2>4, <2>5, ShellPartsThen
<1> QED BY <1>5, <1>6

(* Which submission the shell works for.                                   *)
LEMMA HeadWaits == ASSUME ipc \in Seq(Message), ipc # <<>> PROVE Has(ipc, Head(ipc))
<1>1. 1 \in DOMAIN ipc /\ Head(ipc) = ipc[1]
  OBVIOUS
<1> QED BY <1>1 DEF Has

LEMMA ShellWorks ==
  ASSUME EditorTypeOK, ShellFits, ipc \in Seq(Message), NEW o \in Op
  PROVE  /\ TryStarts(o) \/ TryEnds(o) => submission[o].at \in {"test", "retest"}
         /\ InstallStarts(o) \/ InstallEnds(o) => submission[o].at = "install"
<1>1. FitsShell(ipc, submission[o], shell, o) /\ FitsChild(submission, shell)
  BY ShellParts
<1>2. Run("ssh_key_test", o) => Has(ipc, TryOf(o))
  BY HeadWaits DEF Run, TryOf
<1>3. Run("ssh_key_install", o) => Has(ipc, InstallOf(o))
  BY HeadWaits DEF Run, InstallOf
<1>4. TryStarts(o) \/ TryEnds(o) => submission[o].at \in {"test", "retest"}
  BY <1>1, <1>2 DEF TryStarts, TryEnds, FitsShell, FitsChild
<1>5. InstallStarts(o) \/ InstallEnds(o) => submission[o].at = "install"
  BY <1>1, <1>3 DEF InstallStarts, InstallEnds, FitsShell, FitsChild
<1> QED BY <1>4, <1>5

LEMMA ShellRan ==
  ASSUME EditorTypeOK, ShellFits, ipc \in Seq(Message), NEW o \in Op, TryStarts(o) \/ InstallStarts(o)
  PROVE  /\ Mostly(ipc, ipc', o) /\ ~Has(ipc', TryOf(o)) /\ ~Has(ipc', InstallOf(o))
<1>1. FitsShell(ipc, submission[o], shell, o)
  BY ShellParts
<1>2. submission[o].at \notin {"test", "retest"} \/ submission[o].at # "install"
  OBVIOUS
<1>3. ASSUME NEW f, f \in {TryOf(o), InstallOf(o)}, ipc # <<>>, Head(ipc) = f, ipc' = Tail(ipc)
      PROVE  Mostly(ipc, ipc', o) /\ ~Has(ipc', TryOf(o)) /\ ~Has(ipc', InstallOf(o))
  <2>1. /\ \A m : Has(ipc', m) => Has(ipc, m)
        /\ \A m : Once(ipc, m) => Once(ipc', m)
        /\ Once(ipc, Head(ipc)) => ~Has(ipc', Head(ipc))
    BY <1>3, FirstRun
  <2>2. ~Has(ipc', f)
    BY <1>1, <1>3, <2>1 DEF FitsShell
  <2>3. Has(ipc, f)
    BY <1>3, HeadWaits
  <2>4. ~Has(ipc, TryOf(o)) \/ ~Has(ipc, InstallOf(o))
    BY <1>1, <1>2 DEF FitsShell
  <2>5. ~Has(ipc', TryOf(o)) /\ ~Has(ipc', InstallOf(o))
    BY <1>3, <2>1, <2>2, <2>3, <2>4
  <2> QED BY <2>1, <2>5 DEF Mostly
<1>4. ipc # <<>> /\ Head(ipc) \in {TryOf(o), InstallOf(o)} /\ ipc' = Tail(ipc)
  BY DEF TryStarts, InstallStarts, Run, TryOf, InstallOf
<1> QED BY <1>3, <1>4

LEMMA ShellQuiet ==
  ASSUME EditorTypeOK, ShellFits, NEW o \in Op, OnlyOf(o), Mostly(ipc, ipc', o),
         ~Has(ipc', TryOf(o)), ~Has(ipc', InstallOf(o)), shell'.of \in {shell.of, o, None},
         Once(ipc', TryOf(o)), Once(ipc', InstallOf(o)), FitsChild(submission', shell')
  PROVE  ShellFits'
<1>1. FitsShell(ipc', submission'[o], shell', o)
  BY DEF FitsShell
<1>2. ASSUME NEW p \in Op, p # o PROVE FitsShell(ipc', submission'[p], shell', p)
  BY <1>2, OtherShell
<1> QED BY <1>1, <1>2, ShellPartsThen

LEMMA NeverTwice == \A s, m : ~Has(s, m) => Once(s, m)
BY DEF Has, Once

LEMMA ChildMoves ==
  ASSUME EditorTypeOK, NEW o \in Op, NEW at \in {"test", "copy", "manual"}, Child(o, at)
  PROVE  submission' = submission /\ OnlyOf(o) /\ shell'.at = at /\ shell'.of = o
<1>1. submission' = submission /\ shell' = [[FreeShell EXCEPT !.at = at] EXCEPT !.of = o]
  BY DEF Child
<1>2. shell'.at = at /\ shell'.of = o
  BY <1>1 DEF FreeShell
<1> QED BY <1>1, <1>2 DEF OnlyOf, EditorTypeOK

LEMMA ShellStepFits ==
  ASSUME EditorTypeOK, ShellFits, ipc \in Seq(Message), NEW o \in Op, ShellStep(o)
  PROVE  ShellFits'
<1>1. FitsShell(ipc, submission[o], shell, o) /\ FitsChild(submission, shell)
  BY ShellParts
<1>2. TryStarts(o) \/ TryEnds(o) \/ InstallStarts(o) \/ InstallEnds(o)
  BY ShellSteps
<1>3. FreeShell.at = "free" /\ FreeShell.of = None /\ o # None
  BY ShellTypes, EditorNumbers
<1>4. ASSUME shell' = FreeShell PROVE FitsChild(submission', shell')
  BY <1>3, <1>4 DEF FitsChild
<1>5. ASSUME NEW at \in {"test", "copy", "manual"}, Child(o, at),
             at = "test" => submission[o].at \in {"test", "retest"}, at # "test" => submission[o].at = "install"
      PROVE  FitsChild(submission', shell')
  BY <1>3, <1>5, ChildMoves DEF FitsChild
<1>6. CASE TryStarts(o) \/ InstallStarts(o)
  <2>1. Mostly(ipc, ipc', o) /\ ~Has(ipc', TryOf(o)) /\ ~Has(ipc', InstallOf(o))
    BY <1>6, ShellRan
  <2>2. Once(ipc', TryOf(o)) /\ Once(ipc', InstallOf(o))
    BY <2>1, NeverTwice
  <2>3. CASE Replied(o)
    <3>1. OnlyOf(o) /\ shell' = FreeShell
      BY <2>3 DEF Replied, SubmissionEnds
    <3> QED BY <1>3, <1>4, <2>1, <2>2, <3>1, ShellQuiet
  <2>4. CASE TryStarts(o) /\ Child(o, "test")
    <3>1. OnlyOf(o) /\ shell'.of = o
      BY <2>4, ChildMoves
    <3>2. FitsChild(submission', shell')
      BY <1>5, <2>4, ShellWorks
    <3> QED BY <2>1, <2>2, <3>1, <3>2, ShellQuiet
  <2>5. ASSUME NEW at \in {"copy", "manual"}, InstallStarts(o), Child(o, at) PROVE ShellFits'
    <3>1. OnlyOf(o) /\ shell'.of = o
      BY <2>5, ChildMoves
    <3>2. submission[o].at = "install"
      BY <2>5, ShellWorks
    <3>3. FitsChild(submission', shell')
      BY <1>5, <2>5, <3>2
    <3> QED BY <2>1, <2>2, <3>1, <3>3, ShellQuiet
  <2> QED BY <1>6, <2>3, <2>4, <2>5 DEF TryStarts, InstallStarts
<1>7. CASE TryEnds(o) \/ InstallEnds(o)
  <2>1. shell.of = o /\ ~Has(ipc, TryOf(o)) /\ ~Has(ipc, InstallOf(o))
    BY <1>1, <1>7 DEF TryEnds, InstallEnds, FitsShell
  <2>2. ASSUME UNCHANGED ipc PROVE /\ Mostly(ipc, ipc', o) /\ ~Has(ipc', TryOf(o)) /\ ~Has(ipc', InstallOf(o))
                                   /\ Once(ipc', TryOf(o)) /\ Once(ipc', InstallOf(o))
    BY <2>1, <2>2, NeverTwice DEF Mostly
  <2>3. CASE Replied(o) /\ UNCHANGED ipc
    <3>1. OnlyOf(o) /\ shell' = FreeShell
      BY <2>3 DEF Replied, SubmissionEnds
    <3>2. FitsChild(submission', shell') /\ shell'.of \in {shell.of, o, None}
      BY <1>3, <1>4, <3>1
    <3> QED BY <2>2, <2>3, <3>1, <3>2, ShellQuiet
  <2>4. CASE InstallEnds(o) /\ Child(o, "manual") /\ UNCHANGED ipc
    <3>1. OnlyOf(o) /\ shell'.of = o
      BY <2>4, ChildMoves
    <3>2. submission[o].at = "install"
      BY <2>4, ShellWorks
    <3>3. FitsChild(submission', shell')
      BY <1>5, <2>4, <3>2
    <3>4. shell'.of \in {shell.of, o, None}
      BY <3>1
    <3> QED BY <2>2, <2>4, <3>1, <3>3, <3>4, ShellQuiet
  <2>5. CASE SubmissionMoves(o, "retest") /\ TestKey(o) /\ shell' = FreeShell
    <3>1. ipc' = Append(ipc, TryOf(o)) /\ TryOf(o) \in Message /\ TryOf(o) # InstallOf(o)
      BY <2>5, EditorMessages DEF TestKey, TryOf
    <3>2. /\ \A m : Has(ipc', m) <=> Has(ipc, m) \/ m = TryOf(o)
          /\ \A m : (~Has(ipc, m) \/ (m # TryOf(o) /\ Once(ipc, m))) => Once(ipc', m)
      BY <3>1, LastSent
    <3>3. OnlyOf(o) /\ submission'[o].at = "retest"
      BY <2>5 DEF SubmissionMoves
    <3>4. FitsShell(ipc', submission'[o], shell', o)
      BY <1>3, <2>1, <2>5, <3>1, <3>2, <3>3, NeverTwice DEF FitsShell
    <3>5. Mostly(ipc, ipc', o)
      BY <3>2 DEF Mostly
    <3>6. shell'.of \in {shell.of, o, None}
      BY <1>3, <2>5
    <3>7. ASSUME NEW p \in Op, p # o PROVE FitsShell(ipc', submission'[p], shell', p)
      BY <3>3, <3>5, <3>6, <3>7, OtherShell
    <3>8. FitsChild(submission', shell')
      BY <1>4, <2>5
    <3> QED BY <3>4, <3>7, <3>8, ShellPartsThen
  <2> QED BY <1>7, <2>3, <2>4, <2>5 DEF TryEnds, InstallEnds
<1> QED BY <1>2, <1>6, <1>7

LEMMA NewSubmission ==
  ASSUME BridgeTypeOK, EditorTypeOK, FormsFit, NEW n \in Op, n = ops + 1 PROVE submission[n].at = "ended"
<1>1. ops \in Nat /\ ~(n <= ops)
  BY DEF BridgeTypeOK
<1> QED BY <1>1 DEF FormsFit

LEMMA EditorShellFits ==
  ASSUME BridgeTypeOK, EditorTypeOK, FormsFit, ShellFits, ipc \in Seq(Message), EditorNext
  PROVE  ShellFits'
<1>1. CASE FormStep
  <2>1. UNCHANGED <<ipc, submission, shell>>
    BY <1>1, FormMoves DEF bridge
  <2> QED BY <2>1 DEF ShellFits
<1>2. CASE SubmitHost
  <2>1. PICK n \in Op : n = ops' /\ n = ops + 1 /\ OnlyOf(n)
    BY <1>2, SubmittedMoves
  <2>2. submission[n].at = "ended" /\ UNCHANGED <<ipc, shell>>
    BY <1>2, <2>1, NewSubmission DEF SubmitHost
  <2> QED BY <2>1, <2>2, ShellApart
<1>3. CASE SubmitBootstrap
  <2>1. PICK n \in Op : n = ops' /\ n = ops + 1 /\ OnlyOf(n) /\ submission'[n].at = "install"
    BY <1>3, BootstrapMoves
  <2>2. submission[n].at = "ended" /\ UNCHANGED shell /\ ipc' = Append(ipc, InstallOf(n))
    BY <1>3, <2>1, NewSubmission DEF SubmitBootstrap, InstallKey, InstallOf
  <2> QED BY <2>1, <2>2, ShellAsked
<1>4. ASSUME NEW o \in Op, ServerStep(o) PROVE ShellFits'
  <2>1. submission[o].at \in {"host", "credential", "duplicates", "clear"} /\ UNCHANGED <<ipc, shell>>
    BY <1>4 DEF ServerStep, HostSaved, HostNotSaved, Attached, NotAttached, DuplicatesDeleted, CredentialsDeleted, NotDeleted,
                Failed, bridge
  <2>2. OnlyOf(o)
    BY <1>4, ServerMoves
  <2> QED BY <2>1, <2>2, ShellApart
<1>5. ASSUME NEW o \in Op, TestAttachedKey(o) PROVE ShellFits'
  <2>1. submission[o].at = "keys" /\ UNCHANGED shell
    BY <1>5, KeysStepMoves
  <2>2. CASE SubmissionEnds(o) /\ UNCHANGED ipc
    BY <2>1, <2>2, ShellApart DEF SubmissionEnds
  <2>3. CASE SubmissionMoves(o, "test") /\ TestKey(o)
    <3>1. OnlyOf(o) /\ submission'[o].at = "test" /\ ipc' = Append(ipc, TryOf(o))
      BY <2>3 DEF SubmissionMoves, TestKey, TryOf
    <3> QED BY <2>1, <3>1, ShellAsked
  <2> QED BY <1>5, <2>2, <2>3, KeysStepMoves
<1>6. ASSUME NEW o \in Op, ShellStep(o) PROVE ShellFits'
  BY <1>6, ShellStepFits
<1> QED BY <1>1, <1>2, <1>3, <1>4, <1>5, <1>6, EditorKinds

(* The dialog that cannot be closed.                                       *)
LEMMA DialogStays ==
  ASSUME DialogEnds, NEW o \in Op, OnlyOf(o), submission[o].at \notin {"install", "retest"},
         bootstrap'.status # "installing" \/ bootstrap' = bootstrap
  PROVE  DialogEnds'
<1> SUFFICES ASSUME bootstrap'.status = "installing" PROVE \E p \in Op : submission'[p].at \in {"install", "retest"}
  BY DEF DialogEnds
<1>1. PICK p \in Op : submission[p].at \in {"install", "retest"}
  BY DEF DialogEnds
<1>2. submission'[p] = submission[p]
  BY <1>1 DEF OnlyOf
<1> QED BY <1>1, <1>2

LEMMA EditorDialogEnds ==
  ASSUME BridgeTypeOK, EditorTypeOK, FormsFit, ShellFits, DialogEnds, ipc \in Seq(Message), EditorNext
  PROVE  DialogEnds'
<1>1. CASE FormStep
  BY <1>1, FormMoves, ShellTypes DEF DialogEnds
<1>2. CASE SubmitHost
  <2>1. PICK n \in Op : n = ops' /\ n = ops + 1 /\ OnlyOf(n)
    BY <1>2, SubmittedMoves
  <2>2. submission[n].at = "ended" /\ bootstrap' = bootstrap
    BY <1>2, <2>1, NewSubmission DEF SubmitHost, formVars
  <2> QED BY <2>1, <2>2, DialogStays
<1>3. CASE SubmitBootstrap
  <2>1. PICK n \in Op : n = ops' /\ submission'[n].at = "install"
    BY <1>3, BootstrapMoves
  <2> QED BY <2>1 DEF DialogEnds
<1>4. ASSUME NEW o \in Op, ServerStep(o) PROVE DialogEnds'
  <2>1. submission[o].at \in {"host", "credential", "duplicates", "clear"} /\ bootstrap' = bootstrap
    BY <1>4 DEF ServerStep, HostSaved, HostNotSaved, Attached, NotAttached, DuplicatesDeleted, CredentialsDeleted, NotDeleted,
                Failed, formVars
  <2>2. OnlyOf(o)
    BY <1>4, ServerMoves
  <2> QED BY <2>1, <2>2, DialogStays
<1>5. ASSUME NEW o \in Op, TestAttachedKey(o) PROVE DialogEnds'
  <2>1. submission[o].at = "keys" /\ bootstrap' = bootstrap /\ OnlyOf(o)
    BY <1>5, KeysStepMoves DEF SubmissionEnds, SubmissionMoves, formVars
  <2> QED BY <2>1, DialogStays
<1>6. ASSUME NEW o \in Op, ShellStep(o) PROVE DialogEnds'
  <2>1. AskPassword(o).status = "password" /\ NoBootstrap.status = "none"
    BY AskTypes, ShellTypes
  <2>2. ASSUME bootstrap' \in {NoBootstrap, AskPassword(o)} PROVE DialogEnds'
    BY <2>1, <2>2 DEF DialogEnds
  <2>3. ASSUME Replied(o), submission[o].at \in {"test", "retest"} PROVE DialogEnds'
    <3>1. OnlyOf(o) /\ (bootstrap' \in {NoBootstrap, AskPassword(o)} \/ (bootstrap' = bootstrap /\ submission[o].at # "retest"))
      BY <2>3 DEF Replied, SubmissionEnds
    <3> QED BY <2>2, <2>3, <3>1, DialogStays
  <2>4. ASSUME NEW at \in {"test", "copy", "manual"}, Child(o, at) PROVE DialogEnds'
    BY <2>4 DEF Child, formVars, DialogEnds
  <2>5. ASSUME SubmissionMoves(o, "retest") PROVE DialogEnds'
    BY <2>5 DEF SubmissionMoves, DialogEnds
  <2>6. CASE TryStarts(o)
    BY <2>3, <2>4, <2>6, ShellWorks DEF TryStarts
  <2>7. CASE TryEnds(o)
    BY <2>3, <2>7, ShellWorks DEF TryEnds
  <2>8. CASE InstallStarts(o)
    BY <2>2, <2>4, <2>8 DEF InstallStarts
  <2>9. CASE InstallEnds(o)
    BY <2>2, <2>4, <2>5, <2>9 DEF InstallEnds
  <2> QED BY <1>6, <2>6, <2>7, <2>8, <2>9, ShellSteps
<1> QED BY <1>1, <1>2, <1>3, <1>4, <1>5, <1>6, EditorKinds

(* Whose a credential is: a step tells nobody of another host's, and what  *)
(* a submission attaches is its own.                                       *)
TellsOf(s, i, h) == (s.draft.cred = i \/ i \in s.listed) /\ s.draft.id = h
HeldFor(cs, i, h) == \E c \in cs : c.id = i /\ c.host = h
LEMMA OwnsParts ==
  \A i, h \in Rec : Owns(i, h) <=> \/ HeldFor(creds, i, h) \/ HeldFor(credList, i, h)
                                   \/ draft.cred = i /\ draft.id = h
                                   \/ \E o \in Op : TellsOf(submission[o], i, h)
BY DEF Owns, HeldFor, TellsOf

LEMMA OwnsPartsThen ==
  \A i, h \in Rec : Owns(i, h)' <=> \/ HeldFor(creds', i, h) \/ HeldFor(credList', i, h)
                                    \/ draft'.cred = i /\ draft'.id = h
                                    \/ \E o \in Op : TellsOf(submission'[o], i, h)
<1> SUFFICES ASSUME NEW i \in Rec, NEW h \in Rec
             PROVE Owns(i, h)' <=> \/ HeldFor(creds', i, h) \/ HeldFor(credList', i, h)
                                   \/ draft'.cred = i /\ draft'.id = h
                                   \/ \E o \in Op : TellsOf(submission'[o], i, h)
  OBVIOUS
<1> QED BY DEF Owns, HeldFor, TellsOf

LEMMA OwnsLess ==
  ASSUME NEW o \in Op, OnlyOf(o), NEW i \in Rec, NEW h \in Rec, Owns(i, h)',
         HeldFor(creds', i, h) => Owns(i, h), HeldFor(credList', i, h) => Owns(i, h),
         draft'.cred = i /\ draft'.id = h => Owns(i, h),
         TellsOf(submission'[o], i, h) => Owns(i, h)
  PROVE  Owns(i, h)
<1>1. ASSUME NEW p \in Op, p # o, TellsOf(submission'[p], i, h) PROVE Owns(i, h)
  <2>1. submission'[p] = submission[p]
    BY <1>1 DEF OnlyOf
  <2> QED BY <1>1, <2>1, OwnsParts
<1> QED BY <1>1, OwnsPartsThen

(* Nobody learns of a credential.                                          *)
Known == \A i, h \in Rec : Owns(i, h)' => Owns(i, h)
LEMMA OwnersStay ==
  ASSUME EditorTypeOK, BridgeTypeOK, OwnersFit, NEW o \in Op, OnlyOf(o), Known, ops' = ops \/ ops' = ops + 1,
         submission'[o].at \in {"host", "credential"} => submission[o].at \in {"host", "credential"} \/ o = ops + 1,
         submission'[o].at # "duplicates"
  PROVE  OwnersFit'
<1>1. ops \in Nat /\ New(ops) <= New(ops')
  BY DEF BridgeTypeOK, New
<1>2. New(ops) \in Nat /\ New(ops') \in Nat /\ Rec \subseteq Nat
  BY <1>1 DEF New, Rec
<1>3. ASSUME NEW i \in Rec, NEW g \in Rec, NEW h \in Rec, Owns(i, g)', Owns(i, h)' PROVE g = h
  BY <1>3 DEF Known, OwnersFit
<1>4. ASSUME NEW i \in Rec, NEW h \in Rec, Owns(i, h)' PROVE i <= New(ops')
  <2>1. i <= New(ops)
    BY <1>4 DEF Known, OwnersFit
  <2> QED BY <1>1, <1>2, <2>1
<1>5. ASSUME NEW p \in Op, NEW h \in Rec, submission'[p].at \in {"host", "credential"}, Owns(New(p), h)' PROVE FALSE
  <2>1. Owns(New(p), h) /\ New(p) \in Rec /\ p \in Nat
    BY <1>5, EditorNumbers DEF Known
  <2>2. New(p) <= New(ops)
    BY <2>1 DEF OwnersFit
  <2>3. p # ops + 1
    BY <1>1, <2>1, <2>2 DEF New
  <2>4. submission[p].at \in {"host", "credential"}
    BY <1>5, <2>3 DEF OnlyOf
  <2> QED BY <2>1, <2>4 DEF OwnersFit
<1>6. ASSUME NEW p \in Op, NEW h \in Rec, submission'[p].at = "duplicates", Owns(CredId(p), h)' PROVE h = submission'[p].host
  <2>1. p # o /\ submission'[p] = submission[p]
    BY <1>6 DEF OnlyOf
  <2>2. PICK i : i = CredId(p)
    OBVIOUS
  <2>3. CredId(p)' = i /\ i \in Rec
    BY <2>1, <2>2, CredTypes DEF CredId
  <2>4. Owns(i, h)'
    BY <1>6, <2>3 DEF Owns
  <2>5. Owns(i, h)
    BY <2>3, <2>4 DEF Known
  <2> QED BY <1>6, <2>1, <2>2, <2>5 DEF OwnersFit
<1> QED BY <1>3, <1>4, <1>5, <1>6 DEF OwnersFit

(* What the submission o attaches was nobody's, or its host's.             *)
LEMMA OwnCredential ==
  ASSUME EditorTypeOK, BridgeTypeOK, FormsFit, OwnersFit, NEW o \in Op, submission[o].at \in {"credential", "duplicates"}
  PROVE  /\ CredId(o) \in Rec /\ submission[o].host \in Rec /\ CredId(o) <= New(ops)
         /\ \A g \in Rec : Owns(CredId(o), g) => g = submission[o].host
         /\ \A p \in Op : submission[p].at \in {"host", "credential"} /\ p # o => CredId(o) # New(p)
         /\ \A p \in Op : submission[p].at = "duplicates" /\ CredId(p) = CredId(o) => submission[p].host = submission[o].host
         /\ submission[o].draft.cred # None => Owns(CredId(o), submission[o].host)
<1>1. CredId(o) \in Rec /\ submission[o].host \in Rec
  BY SavedRows
<1>2. ops \in Nat /\ o \in Nat /\ o <= ops /\ New(o) <= New(ops)
  BY EditorNumbers DEF FormsFit, BridgeTypeOK, New
<1>3. ASSUME NEW p \in Op, submission[p].at \in {"credential", "duplicates"}, submission[p].draft.cred # None
      PROVE Owns(CredId(p), submission[p].host) /\ CredId(p) = submission[p].draft.cred
  <2>1. submission[p].host = submission[p].draft.id /\ CredId(p) = submission[p].draft.cred
    BY <1>3 DEF FormsFit, SubmissionFits, FreshDraft, CredId
  <2>2. TellsOf(submission[p], CredId(p), submission[p].host)
    BY <2>1 DEF TellsOf
  <2>3. CredId(p) \in Rec /\ submission[p].host \in Rec
    BY <1>3, SavedRows
  <2> QED BY <2>1, <2>2, <2>3, OwnsParts
<1>4. submission[o].draft.cred = None => CredId(o) = New(o)
  BY DEF CredId
<1>5. ASSUME NEW g \in Rec, Owns(CredId(o), g) PROVE g = submission[o].host
  <2>1. CASE submission[o].draft.cred # None
    BY <1>1, <1>3, <1>5, <2>1 DEF OwnersFit
  <2>2. CASE submission[o].draft.cred = None
    BY <1>4, <1>5, <2>2 DEF OwnersFit
  <2> QED BY <2>1, <2>2
<1>6. ASSUME NEW p \in Op, submission[p].at \in {"host", "credential"}, p # o PROVE CredId(o) # New(p)
  <2>1. CASE submission[o].draft.cred # None
    BY <1>1, <1>3, <1>6, <2>1 DEF OwnersFit
  <2>2. CASE submission[o].draft.cred = None
    BY <1>4, <1>6, <2>2, EditorNumbers DEF New
  <2> QED BY <2>1, <2>2
<1>7. ASSUME NEW p \in Op, submission[p].at = "duplicates", CredId(p) = CredId(o) PROVE submission[p].host = submission[o].host
  <2>1. submission[p].host \in Rec
    BY <1>7, SavedRows
  <2>2. CASE submission[p].draft.cred # None
    BY <1>3, <1>5, <1>7, <2>1, <2>2
  <2>3. CASE submission[o].draft.cred # None
    BY <1>1, <1>3, <1>7, <2>3 DEF OwnersFit
  <2>4. CASE submission[p].draft.cred = None /\ submission[o].draft.cred = None
    <3>1. New(p) = New(o)
      BY <1>7, <2>4 DEF CredId
    <3> QED BY <3>1, EditorNumbers DEF New
  <2> QED BY <2>2, <2>3, <2>4
<1>8. CredId(o) <= New(ops)
  <2>1. CASE submission[o].draft.cred # None
    BY <1>1, <1>3, <2>1 DEF OwnersFit
  <2>2. CASE submission[o].draft.cred = None
    BY <1>2, <1>4, <2>2
  <2> QED BY <2>1, <2>2
<1> QED BY <1>1, <1>3, <1>5, <1>6, <1>7, <1>8

LEMMA OwnersGain ==
  ASSUME EditorTypeOK, BridgeTypeOK, FormsFit, OwnersFit, NEW o \in Op, submission[o].at \in {"credential", "duplicates"},
         OnlyOf(o), submission'[o].at \notin {"host", "credential"}, ops' = ops,
         submission'[o].at = "duplicates" => submission'[o].draft = submission[o].draft /\ submission'[o].host = submission[o].host,
         \A i, h \in Rec : Owns(i, h)' => Owns(i, h) \/ (i = CredId(o) /\ h = submission[o].host)
  PROVE  OwnersFit'
<1>1. PICK k, m : k = CredId(o) /\ m = submission[o].host
  OBVIOUS
<1>2. /\ k \in Rec /\ m \in Rec /\ k <= New(ops)
      /\ \A g \in Rec : Owns(k, g) => g = m
      /\ \A p \in Op : submission[p].at \in {"host", "credential"} /\ p # o => k # New(p)
      /\ \A p \in Op : submission[p].at = "duplicates" /\ CredId(p) = k => submission[p].host = m
  BY <1>1, OwnCredential
<1>3. \A i, h \in Rec : Owns(i, h)' => Owns(i, h) \/ (i = k /\ h = m)
  BY <1>1
<1>4. ASSUME NEW i \in Rec, NEW g \in Rec, NEW h \in Rec, Owns(i, g)', Owns(i, h)' PROVE g = h
  BY <1>2, <1>3, <1>4 DEF OwnersFit
<1>5. ASSUME NEW i \in Rec, NEW h \in Rec, Owns(i, h)' PROVE i <= New(ops')
  BY <1>2, <1>3, <1>5 DEF OwnersFit
<1>6. ASSUME NEW p \in Op, NEW h \in Rec, submission'[p].at \in {"host", "credential"}, Owns(New(p), h)' PROVE FALSE
  <2>1. p # o /\ submission[p].at \in {"host", "credential"} /\ New(p) \in Rec
    BY <1>6, EditorNumbers DEF OnlyOf
  <2>2. Owns(New(p), h)
    BY <1>2, <1>3, <1>6, <2>1
  <2> QED BY <2>1, <2>2 DEF OwnersFit
<1>7. ASSUME NEW p \in Op, NEW h \in Rec, submission'[p].at = "duplicates", Owns(CredId(p), h)' PROVE h = submission'[p].host
  <2>1. submission'[p].draft = submission[p].draft /\ submission'[p].host = submission[p].host
    BY <1>7 DEF OnlyOf
  <2>2. PICK i : i = CredId(p)
    OBVIOUS
  <2>3. CredId(p)' = i /\ i \in Rec
    BY <2>1, <2>2, CredTypes DEF CredId
  <2>4. Owns(i, h)'
    BY <1>7, <2>3 DEF Owns
  <2>5. Owns(i, h) \/ (i = k /\ h = m)
    BY <1>3, <2>3, <2>4
  <2>6. CASE p = o
    BY <1>1, <1>2, <2>1, <2>2, <2>5, <2>6
  <2>7. CASE p # o
    <3>1. submission[p].at = "duplicates"
      BY <1>7, <2>7 DEF OnlyOf
    <3> QED BY <1>2, <2>1, <2>2, <2>3, <2>5, <3>1 DEF OwnersFit
  <2> QED BY <2>6, <2>7
<1> QED BY <1>4, <1>5, <1>6, <1>7 DEF OwnersFit

LEMMA EmptyTells == \A i, h \in Rec : ~TellsOf(NoSubmission, i, h) /\ ~(EmptyHost.id = h)
BY EmptyForms, EditorNumbers DEF TellsOf

LEMMA RowsKnown ==
  ASSUME NEW cs, cs \subseteq creds \cup credList, NEW i \in Rec, NEW h \in Rec, HeldFor(cs, i, h) PROVE Owns(i, h)
<1>1. HeldFor(creds, i, h) \/ HeldFor(credList, i, h)
  BY DEF HeldFor
<1> QED BY <1>1, OwnsParts

LEMMA OwnersOfForms ==
  ASSUME BridgeTypeOK, EditorTypeOK, FormsFit, OwnersFit, FormStep PROVE OwnersFit'
<1>1. UNCHANGED <<ops, creds, credList, submission>>
  BY FormMoves DEF bridge, rowVars, queryVars
<1>2. ASSUME NEW i \in Rec, NEW h \in Rec, draft'.cred = i, draft'.id = h PROVE Owns(i, h)
  <2>1. CASE draft'.id = draft.id /\ draft'.cred = draft.cred
    BY <1>2, <2>1, OwnsParts
  <2>2. CASE draft'.id = None
    BY <1>2, <2>2, EditorNumbers
  <2>3. CASE draft'.id \in hostList /\ CredOf(draft'.id, draft'.cred)
    <3>1. CredOf(h, i) /\ i # None
      BY <1>2, <2>3, EditorNumbers
    <3>2. HeldFor(credList, i, h)
      BY <3>1 DEF CredOf, hostCredentialsForHost, HeldFor
    <3> QED BY <3>2, OwnsParts
  <2> QED BY <2>1, <2>2, <2>3, FormMoves
<1>3. ASSUME NEW i \in Rec, NEW h \in Rec, Owns(i, h)' PROVE Owns(i, h)
  <2>1. CASE draft'.cred = i /\ draft'.id = h
    BY <1>2, <2>1
  <2>2. CASE HeldFor(creds', i, h) \/ HeldFor(credList', i, h) \/ \E o \in Op : TellsOf(submission'[o], i, h)
    BY <1>1, <2>2, OwnsParts
  <2> QED BY <1>3, <2>1, <2>2, OwnsPartsThen
<1>4. \A o \in Op : CredId(o)' = CredId(o)
  BY <1>1 DEF CredId
<1>5. \A i, g, h \in Rec : Owns(i, g)' /\ Owns(i, h)' => g = h
  BY <1>3 DEF OwnersFit
<1>6. \A i, h \in Rec : Owns(i, h)' => i <= New(ops')
  BY <1>1, <1>3 DEF OwnersFit
<1>7. \A o \in Op, h \in Rec : submission'[o].at \in {"host", "credential"} => ~(Owns(New(o), h)')
  BY <1>1, <1>3, EditorNumbers DEF OwnersFit
<1>8. ASSUME NEW o \in Op, NEW h \in Rec, submission'[o].at = "duplicates", Owns(CredId(o), h)' PROVE h = submission'[o].host
  <2>1. PICK i : i = CredId(o)
    OBVIOUS
  <2>2. CredId(o)' = i /\ i \in Rec
    BY <1>4, <2>1, CredTypes
  <2>3. Owns(i, h)'
    BY <1>8, <2>2 DEF Owns
  <2> QED BY <1>1, <1>3, <1>8, <2>1, <2>2, <2>3 DEF OwnersFit
<1> QED BY <1>5, <1>6, <1>7, <1>8 DEF OwnersFit

LEMMA OwnersOfSubmits ==
  ASSUME BridgeTypeOK, EditorTypeOK, FormsFit, OwnersFit, SubmitHost \/ SubmitBootstrap PROVE OwnersFit'
<1>1. PICK n \in Op : n = ops' /\ n = ops + 1 /\ OnlyOf(n)
  BY SubmittedMoves, BootstrapMoves
<1>2. UNCHANGED <<creds, credList, draft>>
  BY DEF SubmitHost, SubmitBootstrap, rowVars, queryVars, formVars
<1>3. submission'[n].at # "duplicates" /\ \A i, h \in Rec : TellsOf(submission'[n], i, h) => Owns(i, h)
  <2>1. CASE SubmitHost
    <3>1. /\ submission'[n].at = "host"
          /\ submission'[n].listed = Ids(hostCredentialsForHost(draft.id, credList)) /\ submission'[n].draft.id = draft.id
          /\ \/ submission'[n].draft.cred = draft.cred
             \/ \E c \in hostCredentialsForHost(draft.id, credList) : submission'[n].draft.cred = c.id
             \/ submission'[n].draft.cred = None
      BY <1>1, <2>1, SubmittedMoves
    <3>2. ASSUME NEW i \in Rec, NEW h \in Rec, TellsOf(submission'[n], i, h) PROVE Owns(i, h)
      <4>1. h = draft.id /\ (i = draft.cred \/ \E c \in hostCredentialsForHost(draft.id, credList) : i = c.id)
        BY <3>1, <3>2, EditorNumbers DEF TellsOf, Ids
      <4>2. CASE i = draft.cred
        BY <4>1, <4>2, OwnsParts
      <4>3. CASE \E c \in hostCredentialsForHost(draft.id, credList) : i = c.id
        <5>1. HeldFor(credList, i, h)
          BY <4>1, <4>3 DEF hostCredentialsForHost, HeldFor
        <5> QED BY <5>1, OwnsParts
      <4> QED BY <4>1, <4>2, <4>3
    <3> QED BY <3>1, <3>2
  <2>2. CASE SubmitBootstrap
    <3>1. submission'[n].at = "install" /\ submission'[n].draft = EmptyHost
      BY <1>1, <2>2, BootstrapMoves
    <3> QED BY <3>1, EmptyTells DEF TellsOf
  <2> QED BY <2>1, <2>2
<1>4. Known
  <2> SUFFICES ASSUME NEW i \in Rec, NEW h \in Rec, Owns(i, h)' PROVE Owns(i, h)
    BY DEF Known
  <2>1. (HeldFor(creds', i, h) => Owns(i, h)) /\ (HeldFor(credList', i, h) => Owns(i, h)) /\ (draft'.cred = i /\ draft'.id = h => Owns(i, h))
    BY <1>2, OwnsParts
  <2> QED BY <1>1, <1>3, <2>1, OwnsLess
<1> QED BY <1>1, <1>3, <1>4, OwnersStay

(* An answer of the server that attaches nothing.                          *)
LEMMA SameTells ==
  ASSUME NEW o \in Op, NEW t, t = NoSubmission \/ (t.draft = submission[o].draft /\ t.listed = submission[o].listed)
  PROVE  \A i, h \in Rec : TellsOf(t, i, h) => Owns(i, h)
<1> SUFFICES ASSUME NEW i \in Rec, NEW h \in Rec, TellsOf(t, i, h) PROVE Owns(i, h)
  OBVIOUS
<1>1. TellsOf(submission[o], i, h)
  BY EmptyTells DEF TellsOf
<1> QED BY <1>1, OwnsParts

LEMMA NothingAttached ==
  ASSUME NEW o \in Op, OnlyOf(o), creds' \subseteq creds, credList' \subseteq creds \cup credList,
         \/ submission'[o] = NoSubmission
         \/ submission'[o].draft = submission[o].draft /\ submission'[o].listed = submission[o].listed,
         draft' \in {draft, EmptyHost}
  PROVE  Known
<1> SUFFICES ASSUME NEW i \in Rec, NEW h \in Rec, Owns(i, h)' PROVE Owns(i, h)
  BY DEF Known
<1>1. creds' \subseteq creds \cup credList
  OBVIOUS
<1>2. (HeldFor(creds', i, h) => Owns(i, h)) /\ (HeldFor(credList', i, h) => Owns(i, h))
  BY <1>1, RowsKnown
<1>3. draft'.cred = i /\ draft'.id = h => Owns(i, h)
  BY EmptyTells, OwnsParts
<1>4. PICK t : t = submission'[o]
  OBVIOUS
<1>5. TellsOf(submission'[o], i, h) => Owns(i, h)
  BY <1>4, SameTells
<1> QED BY <1>2, <1>3, <1>5, OwnsLess

LEMMA AttachGives ==
  ASSUME BridgeTypeOK, EditorTypeOK, FormsFit, NEW o \in Op, submission[o].at = "credential", Attach(o),
         OnlyOf(o), credList' \in {credList, creds'}, draft' = draft,
         \/ submission'[o] = NoSubmission
         \/ submission'[o].draft = submission[o].draft /\ submission'[o].listed = submission[o].listed
  PROVE  \A i, h \in Rec : Owns(i, h)' => Owns(i, h) \/ (i = CredId(o) /\ h = submission[o].host)
<1> SUFFICES ASSUME NEW i \in Rec, NEW h \in Rec, Owns(i, h)', ~(i = CredId(o) /\ h = submission[o].host) PROVE Owns(i, h)
  OBVIOUS
<1>1. submission[o].host \in Rec
  BY SavedRows
<1>2. PICK c \in Credential : /\ creds' = Without(creds, {CredId(o)}) \cup {c}
                              /\ c.id = CredId(o) /\ c.host = submission[o].host
  BY <1>1, AttachTypes
<1>3. HeldFor(creds', i, h) => Owns(i, h)
  <2>1. HeldFor(creds', i, h) => HeldFor(creds, i, h)
    BY <1>2 DEF HeldFor, Without
  <2> QED BY <2>1, OwnsParts
<1>4. HeldFor(credList', i, h) => Owns(i, h)
  <2>1. HeldFor(credList, i, h) => Owns(i, h)
    BY OwnsParts
  <2> QED BY <1>3, <2>1
<1>5. draft'.cred = i /\ draft'.id = h => Owns(i, h)
  BY OwnsParts
<1>6. PICK t : t = submission'[o]
  OBVIOUS
<1>7. TellsOf(submission'[o], i, h) => Owns(i, h)
  BY <1>6, SameTells
<1> QED BY <1>3, <1>4, <1>5, <1>7, OwnsLess

LEMMA OwnersOfServer ==
  ASSUME BridgeTypeOK, EditorTypeOK, FormsFit, OwnersFit, NEW o \in Op, ServerStep(o) PROVE OwnersFit'
<1>1. OnlyOf(o) /\ ops' = ops
  <2>1. ops' = ops
    BY DEF ServerStep, HostSaved, HostNotSaved, Attached, NotAttached, DuplicatesDeleted, CredentialsDeleted, NotDeleted,
           Failed, bridge
  <2> QED BY <2>1, ServerMoves
<1>2. NoSubmission.at = "ended"
  BY EmptyForms
<1>3. CASE HostSaved(o) \/ HostNotSaved(o)
  <2>1. creds' = creds /\ submission[o].at = "host" /\ credList' \in {credList, creds} /\ draft' = draft
    BY <1>3 DEF HostSaved, HostNotSaved, Failed, Lists, formVars, queryVars
  <2>2. \/ submission'[o] = NoSubmission
        \/ /\ submission'[o].draft = submission[o].draft /\ submission'[o].listed = submission[o].listed
           /\ submission'[o].at # "duplicates"
    BY <1>3, SavedMoves, DeniedMoves DEF EditorTypeOK, Denied, SubmissionEnds
  <2>3. Known
    BY <1>1, <2>1, <2>2, NothingAttached
  <2>4. submission'[o].at # "duplicates"
    BY <1>2, <2>2
  <2> QED BY <1>1, <2>1, <2>3, <2>4, OwnersStay
<1>4. CASE Attached(o)
  <2>1. submission[o].at = "credential" /\ Attach(o) /\ credList' = creds' /\ draft' = draft
    BY <1>4 DEF Attached, Lists, formVars
  <2>2. SubmissionMoves(o, "duplicates")
    <3>1. submission' = Advanced(o, "duplicates") /\ "duplicates" \in Stages
      BY <1>4 DEF Attached, Stages
    <3> QED BY <3>1, AdvanceMoves DEF EditorTypeOK
  <2>3. /\ submission'[o].at = "duplicates" /\ submission'[o].draft = submission[o].draft
        /\ submission'[o].listed = submission[o].listed /\ submission'[o].host = submission[o].host
    BY <2>2 DEF SubmissionMoves
  <2>4. \A i, h \in Rec : Owns(i, h)' => Owns(i, h) \/ (i = CredId(o) /\ h = submission[o].host)
    BY <1>1, <2>1, <2>3, AttachGives
  <2> QED BY <1>1, <2>1, <2>3, <2>4, OwnersGain
<1>5. CASE NotAttached(o)
  <2>1. submission[o].at = "credential" /\ credList' = credList /\ draft' = draft /\ submission'[o] = NoSubmission
    BY <1>5, DeniedMoves DEF NotAttached, Denied, SubmissionEnds, queryVars, formVars
  <2>2. CASE Attach(o)
    <3>1. \A i, h \in Rec : Owns(i, h)' => Owns(i, h) \/ (i = CredId(o) /\ h = submission[o].host)
      BY <1>1, <2>1, <2>2, AttachGives
    <3> QED BY <1>1, <1>2, <2>1, <3>1, OwnersGain
  <2>3. CASE creds' = creds
    <3>1. Known
      BY <1>1, <2>1, <2>3, NothingAttached
    <3> QED BY <1>1, <1>2, <2>1, <3>1, OwnersStay
  <2> QED BY <1>5, <2>2, <2>3 DEF NotAttached
<1>6. CASE DuplicatesDeleted(o)
  <2>1. submission[o].at = "duplicates" /\ creds' \subseteq creds /\ credList' = creds'
    BY <1>6 DEF DuplicatesDeleted, Lists, Without
  <2>2. CASE CloseEditor /\ submission' = Done(o)
    <3>1. submission'[o] = NoSubmission /\ draft' = EmptyHost
      BY <2>2, DoneEnds DEF EditorTypeOK, SubmissionEnds, CloseEditor
    <3>2. Known
      BY <1>1, <2>1, <3>1, NothingAttached
    <3> QED BY <1>1, <1>2, <3>1, <3>2, OwnersStay
  <2>3. CASE SavedDraft(o) /\ submission' = Advanced(o, "keys")
    <3>1. SubmissionMoves(o, "keys")
      BY <2>3, AdvanceMoves DEF EditorTypeOK, Stages
    <3>2. submission'[o].at = "keys" /\ submission'[o].draft = submission[o].draft /\ submission'[o].listed = submission[o].listed
      BY <3>1 DEF SubmissionMoves
    <3>3. draft'.id = submission[o].host /\ draft'.cred = CredId(o)
      BY <2>1, <2>3, SavedRows, SavedDrafts
    <3>4. ASSUME NEW i \in Rec, NEW h \in Rec, Owns(i, h)', ~(i = CredId(o) /\ h = submission[o].host) PROVE Owns(i, h)
      <4>1. creds' \subseteq creds \cup credList /\ credList' \subseteq creds \cup credList
        BY <2>1
      <4>2. (HeldFor(creds', i, h) => Owns(i, h)) /\ (HeldFor(credList', i, h) => Owns(i, h))
        BY <4>1, RowsKnown
      <4>3. draft'.cred = i /\ draft'.id = h => Owns(i, h)
        BY <3>3, <3>4
      <4>4. PICK t : t = submission'[o]
        OBVIOUS
      <4>5. TellsOf(submission'[o], i, h) => Owns(i, h)
        BY <3>2, <4>4, SameTells
      <4> QED BY <1>1, <3>4, <4>2, <4>3, <4>5, OwnsLess
    <3>5. \A i, h \in Rec : Owns(i, h)' => Owns(i, h) \/ (i = CredId(o) /\ h = submission[o].host)
      BY <3>4
    <3> QED BY <1>1, <2>1, <3>2, <3>5, OwnersGain
  <2> QED BY <1>6, <2>2, <2>3 DEF DuplicatesDeleted
<1>7. CASE CredentialsDeleted(o) \/ NotDeleted(o)
  <2>1. creds' \subseteq creds
    BY <1>7 DEF CredentialsDeleted, NotDeleted, Without
  <2>2. credList' \subseteq creds \cup credList /\ draft' \in {draft, EmptyHost} /\ submission' = Done(o)
    BY <1>7, <2>1 DEF CredentialsDeleted, NotDeleted, Failed, Lists, CloseEditor, queryVars, formVars
  <2>3. submission'[o] = NoSubmission
    BY <2>2, DoneEnds DEF EditorTypeOK, SubmissionEnds
  <2>4. Known
    BY <1>1, <2>1, <2>2, <2>3, NothingAttached
  <2> QED BY <1>1, <1>2, <2>3, <2>4, OwnersStay
<1> QED BY <1>3, <1>4, <1>5, <1>6, <1>7 DEF ServerStep

LEMMA EditorOwnersFit ==
  ASSUME BridgeTypeOK, EditorTypeOK, FormsFit, OwnersFit, ShellFits, ipc \in Seq(Message), EditorNext PROVE OwnersFit'
<1>1. NoSubmission.at = "ended"
  BY EmptyForms
<1>2. ASSUME NEW o \in Op, TestAttachedKey(o) PROVE OwnersFit'
  <2>1. UNCHANGED <<ops, creds, credList, draft>>
    BY <1>2, KeysStepMoves DEF rowVars, queryVars, formVars
  <2>2. SubmissionEnds(o) \/ SubmissionMoves(o, "test")
    BY <1>2, KeysStepMoves
  <2>3. OnlyOf(o) /\ \/ submission'[o] = NoSubmission
                     \/ /\ submission'[o].draft = submission[o].draft /\ submission'[o].listed = submission[o].listed
                        /\ submission'[o].at = "test"
    BY <2>2 DEF SubmissionEnds, SubmissionMoves
  <2>4. Known
    BY <2>1, <2>3, NothingAttached
  <2> QED BY <1>1, <2>1, <2>3, <2>4, OwnersStay
<1>3. ASSUME NEW o \in Op, ShellStep(o) PROVE OwnersFit'
  <2>1. UNCHANGED <<ops, creds, credList>>
    BY <1>3, ShellSteps DEF rowVars, queryVars
  <2>2. CASE Replied(o) \/ (SubmissionMoves(o, "retest") /\ UNCHANGED formVars)
    <3>1. OnlyOf(o) /\ \/ submission'[o] = NoSubmission
                       \/ /\ submission'[o].draft = submission[o].draft /\ submission'[o].listed = submission[o].listed
                          /\ submission'[o].at = "retest"
      BY <2>2 DEF Replied, SubmissionEnds, SubmissionMoves
    <3>2. draft' \in {draft, EmptyHost}
      BY <2>2 DEF Replied, CloseEditor, KeepEditor, formVars
    <3>3. Known
      BY <2>1, <3>1, <3>2, NothingAttached
    <3> QED BY <1>1, <2>1, <3>1, <3>3, OwnersStay
  <2>3. ASSUME NEW at, Child(o, at) PROVE OwnersFit'
    <3>1. UNCHANGED <<ops, creds, credList, draft, submission>>
      BY <2>1, <2>3 DEF Child, formVars
    <3> QED BY <3>1 DEF OwnersFit, Owns, CredId
  <2>4. \/ Replied(o) \/ Child(o, "test") \/ Child(o, "copy") \/ Child(o, "manual")
        \/ SubmissionMoves(o, "retest") /\ UNCHANGED formVars
    BY <1>3, ShellSteps DEF TryStarts, TryEnds, InstallStarts, InstallEnds
  <2> QED BY <2>2, <2>3, <2>4
<1> QED BY <1>2, <1>3, EditorKinds, OwnersOfForms, OwnersOfSubmits, OwnersOfServer

(* For the user who waits: the dialog and the one submission.              *)
LEMMA EditorMoves ==
  ASSUME BridgeTypeOK, EditorTypeOK, FormsFit, ShellFits, ipc \in Seq(Message), NEW o \in Op,
         ServerStep(o) \/ TestAttachedKey(o) \/ ShellStep(o)
  PROVE  Submits(o)
<1>1. ServerStep(o) => submission[o].at \in {"host", "credential", "duplicates", "clear"}
  BY DEF ServerStep, HostSaved, HostNotSaved, Attached, NotAttached, DuplicatesDeleted, CredentialsDeleted, NotDeleted
<1>2. TestAttachedKey(o) => submission[o].at = "keys"
  BY DEF TestAttachedKey
<1>3. ShellStep(o) => submission[o].at \in {"test", "retest", "install"}
  BY ShellSteps, ShellWorks
<1> QED BY <1>1, <1>2, <1>3 DEF Submits

LEMMA NoDialog ==
  ASSUME \A o \in Op : ~(Submits(o)'), bootstrap' = NoBootstrap \/ (editorOpen' /\ bootstrap'.host = draft'.id /\ bootstrap'.status # "none")
  PROVE  DialogFits'
<1>1. \A o \in Op : submission'[o].at = "ended"
  BY DEF Submits
<1> QED BY <1>1 DEF DialogFits, Submits, Late

LEMMA OneDialog ==
  ASSUME DialogFits, NEW n \in Op, OnlyOf(n), \A p \in Op : Submits(p) => p = n, editorOpen',
         submission'[n].at \in Late => submission'[n].host = draft'.id,
         submission'[n].at \in {"install", "retest"} <=> bootstrap' # NoBootstrap, bootstrap'.status # "password",
         bootstrap' # NoBootstrap => bootstrap'.host = draft'.id /\ bootstrap'.status # "none"
  PROVE  DialogFits'
<1>1. ASSUME NEW p \in Op, p # n PROVE submission'[p].at = "ended"
  BY <1>1 DEF OnlyOf, Submits
<1>2. \A p \in Op : submission'[p].at # "ended" => p = n
  BY <1>1
<1>3. \A p \in Op : submission'[p].at \in Late => submission'[p].host = draft'.id
  BY <1>2 DEF Late
<1> QED BY <1>2, <1>3 DEF DialogFits, Submits

LEMMA Restless == Submitting <=> \E o \in Op : Submits(o)
BY DEF Submitting, Submits

LEMMA EditorDialogFits ==
  ASSUME BridgeTypeOK, EditorTypeOK, FormsFit, ShellFits, DialogFits, ~Hasty, ipc \in Seq(Message), EditorNext
  PROVE  DialogFits'
<1>1. NoBootstrap.status = "none" /\ NoSubmission.at = "ended"
  BY ShellTypes, EmptyForms
<1>2. CASE FormStep
  <2>1. submission' = submission
    BY <1>2, FormMoves
  <2>2. (\A o \in Op : ~Submits(o)) /\ bootstrap' = NoBootstrap
    <3>1. CASE CancelBootstrap
      <4>1. bootstrap.status = "password" /\ bootstrap' = NoBootstrap
        BY <3>1 DEF CancelBootstrap
      <4> QED BY <4>1 DEF DialogFits
    <3>2. CASE OpenNewHost \/ DismissEditor \/ (\E h \in Rec : OpenHost(h)) \/ (\E i \in Ident : PickIdentity(i))
      <4>1. Undisturbed /\ bootstrap' = bootstrap
        BY <3>2 DEF OpenNewHost, DismissEditor, OpenHost, PickIdentity
      <4> QED BY <4>1, Restless DEF Undisturbed
    <3> QED BY <1>2, <3>1, <3>2 DEF FormStep
  <2>3. \A o \in Op : ~(Submits(o)')
    BY <2>1, <2>2 DEF Submits
  <2> QED BY <2>2, <2>3, NoDialog
<1>3. CASE SubmitHost
  <2>1. PICK n \in Op : n = ops' /\ OnlyOf(n) /\ submission'[n].at = "host"
    BY <1>3, SubmittedMoves
  <2>2. (\A o \in Op : ~Submits(o)) /\ bootstrap = NoBootstrap /\ editorOpen
    BY <1>3, Restless DEF SubmitHost, Undisturbed
  <2>3. bootstrap' = NoBootstrap /\ editorOpen'
    BY <1>3, <2>2 DEF SubmitHost, formVars
  <2>4. submission'[n].at \notin Late /\ submission'[n].at \notin {"install", "retest"}
    BY <2>1 DEF Late
  <2> QED BY <1>1, <2>1, <2>2, <2>3, <2>4, OneDialog
<1>4. CASE SubmitBootstrap
  <2>1. PICK n \in Op : n = ops' /\ OnlyOf(n) /\ submission'[n].at = "install" /\ submission'[n].host = bootstrap.host
                        /\ bootstrap'.host = bootstrap.host /\ bootstrap'.status = "installing"
    BY <1>4, BootstrapMoves
  <2>2. bootstrap.status = "password" /\ UNCHANGED <<draft, editorOpen>>
    BY <1>4 DEF SubmitBootstrap
  <2>3. (\A o \in Op : ~Submits(o)) /\ bootstrap # NoBootstrap
    BY <1>1, <2>2 DEF DialogFits
  <2>4. editorOpen /\ bootstrap.host = draft.id
    BY <2>3 DEF DialogFits
  <2>5. bootstrap' # NoBootstrap
    BY <1>1, <2>1
  <2>6. editorOpen'
    BY <2>2, <2>4
  <2>7. bootstrap'.host = draft'.id /\ submission'[n].host = draft'.id
    BY <2>1, <2>2, <2>4
  <2> QED BY <2>1, <2>3, <2>5, <2>6, <2>7, OneDialog
<1>5. ASSUME NEW o \in Op, ServerStep(o) \/ TestAttachedKey(o) \/ ShellStep(o)
      PROVE  /\ \A p \in Op : Submits(p) => p = o
             /\ editorOpen /\ bootstrap.status # "password"
             /\ submission[o].at \in Late => submission[o].host = draft.id
             /\ submission[o].at \in {"install", "retest"} <=> bootstrap # NoBootstrap
             /\ bootstrap # NoBootstrap => bootstrap.host = draft.id /\ bootstrap.status # "none"
  <2>1. Submits(o)
    BY <1>5, EditorMoves
  <2>2. \A p \in Op : Submits(p) => p = o
    BY <2>1 DEF DialogFits
  <2>3. editorOpen /\ bootstrap.status # "password"
    BY <2>1 DEF DialogFits
  <2>4. submission[o].at \in {"install", "retest"} <=> bootstrap # NoBootstrap
    BY <2>1 DEF DialogFits
  <2>5. submission[o].at \in Late => submission[o].host = draft.id
    BY DEF DialogFits
  <2>6. bootstrap # NoBootstrap => bootstrap.host = draft.id /\ bootstrap.status # "none"
    BY DEF DialogFits
  <2> QED BY <2>2, <2>3, <2>4, <2>5, <2>6
<1>6. ASSUME NEW o \in Op, OnlyOf(o), submission'[o] = NoSubmission, \A p \in Op : Submits(p) => p = o
      PROVE  \A p \in Op : ~(Submits(p)')
  <2> SUFFICES ASSUME NEW p \in Op PROVE submission'[p].at = "ended"
    BY DEF Submits
  <2>1. CASE p = o
    BY <1>1, <1>6, <2>1
  <2>2. CASE p # o
    BY <1>6, <2>2 DEF OnlyOf, Submits
  <2> QED BY <2>1, <2>2
<1>7. ASSUME NEW o \in Op, ServerStep(o) PROVE DialogFits'
  <2>1. submission[o].at \in {"host", "credential", "duplicates", "clear"} /\ bootstrap' = bootstrap
    BY <1>7 DEF ServerStep, HostSaved, HostNotSaved, Attached, NotAttached, DuplicatesDeleted, CredentialsDeleted, NotDeleted,
                Failed, formVars
  <2>2. bootstrap' = NoBootstrap /\ editorOpen /\ OnlyOf(o)
    BY <1>5, <1>7, <2>1, ServerMoves
  <2>3. ASSUME submission' = Done(o) PROVE DialogFits'
    <3>1. submission'[o] = NoSubmission
      BY <2>3, DoneEnds DEF EditorTypeOK, SubmissionEnds
    <3> QED BY <1>5, <1>6, <1>7, <2>2, <3>1, NoDialog
  <2>4. ASSUME submission'[o].at \notin Late, editorOpen' = editorOpen PROVE DialogFits'
    <3>1. submission'[o].at \notin {"install", "retest"} /\ editorOpen'
      BY <2>2, <2>4 DEF Late
    <3> QED BY <1>1, <1>5, <1>7, <2>2, <2>4, <3>1, OneDialog
  <2>5. CASE Denied(o) \/ CredentialsDeleted(o)
    BY <2>3, <2>5 DEF Denied, HostNotSaved, NotAttached, NotDeleted, Failed, CredentialsDeleted
  <2>6. CASE HostSaved(o)
    <3>1. submission'[o].at \in {"clear", "credential"} /\ editorOpen' = editorOpen
      BY <2>6, SavedMoves DEF EditorTypeOK, HostSaved, formVars
    <3> QED BY <2>4, <3>1 DEF Late
  <2>7. CASE Attached(o)
    <3>1. submission' = Advanced(o, "duplicates") /\ "duplicates" \in Stages /\ editorOpen' = editorOpen
      BY <2>7 DEF Attached, Stages, formVars
    <3>2. submission'[o].at = "duplicates"
      BY <3>1, AdvanceMoves DEF EditorTypeOK, SubmissionMoves
    <3> QED BY <2>4, <3>1, <3>2 DEF Late
  <2>8. CASE DuplicatesDeleted(o)
    <3>1. CASE submission' = Done(o)
      BY <2>3, <3>1
    <3>2. CASE SavedDraft(o) /\ UNCHANGED editorOpen /\ submission' = Advanced(o, "keys")
      <4>1. SubmissionMoves(o, "keys")
        BY <3>2, AdvanceMoves DEF EditorTypeOK, Stages
      <4>2. submission'[o].at = "keys" /\ submission'[o].host = submission[o].host
        BY <4>1 DEF SubmissionMoves
      <4>3. draft'.id = submission[o].host
        <5>1. submission[o].at = "duplicates"
          BY <2>8 DEF DuplicatesDeleted
        <5> QED BY <3>2, <5>1, SavedRows, SavedDrafts
      <4>4. submission'[o].host = draft'.id /\ submission'[o].at \notin {"install", "retest"} /\ editorOpen'
        BY <2>2, <3>2, <4>2, <4>3
      <4> QED BY <1>1, <1>5, <1>7, <2>2, <4>4, OneDialog
    <3> QED BY <2>8, <3>1, <3>2 DEF DuplicatesDeleted
  <2> QED BY <1>7, <2>5, <2>6, <2>7, <2>8 DEF ServerStep, Denied
<1>8. ASSUME NEW o \in Op, TestAttachedKey(o) PROVE DialogFits'
  <2>1. submission[o].at = "keys" /\ UNCHANGED <<draft, editorOpen, bootstrap>>
    BY <1>8, KeysStepMoves DEF formVars
  <2>2. bootstrap' = NoBootstrap /\ editorOpen' /\ submission[o].host = draft'.id
    BY <1>5, <1>8, <2>1 DEF Late
  <2>3. CASE SubmissionEnds(o)
    <3>1. OnlyOf(o) /\ submission'[o] = NoSubmission
      BY <2>3 DEF SubmissionEnds
    <3> QED BY <1>5, <1>6, <1>8, <2>2, <3>1, NoDialog
  <2>4. CASE SubmissionMoves(o, "test")
    <3>1. OnlyOf(o) /\ submission'[o].at = "test" /\ submission'[o].host = submission[o].host
      BY <2>4 DEF SubmissionMoves
    <3>2. submission'[o].at \notin {"install", "retest"} /\ submission'[o].host = draft'.id
      BY <2>2, <3>1
    <3> QED BY <1>1, <1>5, <1>8, <2>2, <3>1, <3>2, OneDialog
  <2> QED BY <1>8, <2>3, <2>4, KeysStepMoves
<1>9. ASSUME NEW o \in Op, ShellStep(o) PROVE DialogFits'
  <2>0. AskPassword(o).status = "password" /\ AskPassword(o).host = submission[o].host
    BY AskTypes
  <2>1. submission[o].at \in {"test", "retest", "install"} /\ submission[o].host = draft.id
    <3>1. submission[o].at \in {"test", "retest", "install"}
      BY <1>9, ShellSteps, ShellWorks
    <3> QED BY <1>5, <1>9, <3>1 DEF Late
  <2>2. ASSUME Replied(o), submission[o].at = "install" => bootstrap' \in {NoBootstrap, AskPassword(o)} PROVE DialogFits'
    <3>1. OnlyOf(o) /\ submission'[o] = NoSubmission
      BY <2>2 DEF Replied, SubmissionEnds
    <3>2. bootstrap # AskPassword(o)
      BY <1>5, <1>9, <2>0
    <3>3. ASSUME bootstrap' # NoBootstrap PROVE KeepEditor /\ bootstrap' = AskPassword(o)
      <4>1. CASE CloseEditor /\ bootstrap' = (IF submission[o].at = "retest" THEN NoBootstrap ELSE bootstrap)
        BY <1>5, <1>9, <2>1, <2>2, <3>2, <3>3, <4>1
      <4>2. CASE KeepEditor /\ bootstrap' = bootstrap /\ submission[o].at # "retest"
        BY <1>5, <1>9, <2>1, <2>2, <3>2, <3>3, <4>2
      <4> QED BY <2>2, <3>3, <4>1, <4>2 DEF Replied
    <3>4. bootstrap' = NoBootstrap \/ (editorOpen' /\ bootstrap'.host = draft'.id /\ bootstrap'.status # "none")
      <4>1. CASE bootstrap' = NoBootstrap
        BY <4>1
      <4>2. CASE KeepEditor /\ bootstrap' = AskPassword(o)
        BY <1>5, <1>9, <2>0, <2>1, <4>2 DEF KeepEditor
      <4> QED BY <3>3, <4>1, <4>2
    <3>5. \A p \in Op : ~(Submits(p)')
      BY <1>5, <1>6, <1>9, <3>1
    <3> QED BY <3>4, <3>5, NoDialog
  <2>3. ASSUME NEW at, Child(o, at) PROVE DialogFits'
    BY <2>3 DEF Child, formVars, DialogFits, Submits
  <2>4. CASE SubmissionMoves(o, "retest") /\ UNCHANGED formVars /\ submission[o].at = "install"
    <3>1. OnlyOf(o) /\ submission'[o].at = "retest" /\ submission'[o].host = submission[o].host
          /\ UNCHANGED <<draft, editorOpen, bootstrap>>
      BY <2>4 DEF SubmissionMoves, formVars
    <3>2. bootstrap' # NoBootstrap /\ bootstrap'.status # "password" /\ bootstrap'.host = draft'.id /\ bootstrap'.status # "none"
      BY <1>5, <1>9, <2>4, <3>1
    <3>3. editorOpen' /\ submission'[o].host = draft'.id
      BY <1>5, <1>9, <2>1, <3>1
    <3> QED BY <1>5, <1>9, <3>1, <3>2, <3>3, OneDialog
  <2>5. CASE TryStarts(o)
    <3>1. submission[o].at # "install"
      BY <2>5, ShellWorks
    <3> QED BY <2>2, <2>3, <2>5, <3>1 DEF TryStarts
  <2>6. CASE TryEnds(o)
    <3>1. submission[o].at # "install"
      BY <2>6, ShellWorks
    <3> QED BY <2>2, <2>6, <3>1 DEF TryEnds
  <2>7. CASE InstallStarts(o)
    BY <2>2, <2>3, <2>7 DEF InstallStarts
  <2>8. CASE InstallEnds(o)
    <3>1. submission[o].at = "install"
      BY <2>8, ShellWorks
    <3> QED BY <2>2, <2>3, <2>4, <2>8, <3>1 DEF InstallEnds
  <2> QED BY <1>9, <2>5, <2>6, <2>7, <2>8, ShellSteps
<1> QED BY <1>2, <1>3, <1>4, <1>7, <1>8, <1>9, EditorKinds

(* And its hosts: their credentials are listed as they are, and the one of *)
(* a host whose submissions went well is the one that was picked.          *)
OneOf(X, i) == IF i = "none" THEN X = {} ELSE \E c \in X : X = {c} /\ c.ident = i
Saves(s, o) == IF s.draft.cred # None THEN s.draft.cred ELSE New(o)
HostOf(s, o, X, h) ==
  /\ s.host = h /\ s.at \in {"host", "credential", "clear"} => s.listed = Ids(X)
  /\ s.host = h /\ s.at = "duplicates" =>
       Ids(X) \subseteq s.listed \cup {Saves(s, o)} /\ \E c \in X : c.id = Saves(s, o) /\ c.ident = s.draft.ident
Clean(h, sub) == \A o \in Op : sub[o].host = h => sub[o].at # "duplicates"
FitsOf(h, X, Y, sub, a) ==
  /\ X = Y
  /\ \A o \in Op : HostOf(sub[o], o, X, h)
  /\ a \in Ident /\ Clean(h, sub) => OneOf(X, a)
CredsOf(h, cs) == hostCredentialsForHost(h, cs)

LEMMA FitsParts == \A h \in Rec : HostFits(h) <=> FitsOf(h, CredsOf(h, creds), CredsOf(h, credList), submission, attached[h])
BY DEF HostFits, FitsOf, HostOf, Saves, Clean, OneOf, CredsOf, Of, Single, CredId

LEMMA FitsPartsThen ==
  ASSUME NEW h \in Rec, FitsOf(h, CredsOf(h, creds'), CredsOf(h, credList'), submission', attached'[h]) PROVE HostFits(h)'
BY DEF HostFits, FitsOf, HostOf, Saves, Clean, OneOf, CredsOf, Of, Single, CredId, hostCredentialsForHost

LEMMA OtherHost ==
  ASSUME NEW h, NEW X, NEW Y, NEW Z, NEW a, FitsOf(h, X, Y, submission, a), NEW o \in Op, OnlyOf(o), Z \in {X, Y},
         HostOf(submission'[o], o, X, h), submission[o].host = h => submission[o].at # "duplicates"
  PROVE  FitsOf(h, X, Z, submission', a)
<1>1. X = Z
  BY DEF FitsOf
<1>2. ASSUME NEW p \in Op PROVE HostOf(submission'[p], p, X, h)
  <2>1. CASE p = o
    BY <2>1
  <2>2. CASE p # o
    <3>1. submission'[p] = submission[p]
      BY <2>2 DEF OnlyOf
    <3> QED BY <3>1 DEF FitsOf
  <2> QED BY <2>1, <2>2
<1>3. Clean(h, submission') => Clean(h, submission)
  <2> SUFFICES ASSUME Clean(h, submission'), NEW p \in Op, submission[p].host = h PROVE submission[p].at # "duplicates"
    BY DEF Clean
  <2>1. CASE p # o
    <3>1. submission'[p] = submission[p]
      BY <2>1 DEF OnlyOf
    <3> QED BY <3>1 DEF Clean
  <2> QED BY <2>1
<1>4. a \in Ident /\ Clean(h, submission) => OneOf(X, a)
  BY DEF FitsOf
<1> QED BY <1>1, <1>2, <1>3, <1>4 DEF FitsOf

LEMMA AsideOf ==
  ASSUME NEW s, NEW o, NEW X, NEW h, s.at \in Late \cup {"ended"} \/ s.host # h PROVE HostOf(s, o, X, h)
BY DEF HostOf, Late

(* The numbers of the hosts that are known somewhere.                      *)
LEMMA Bounds ==
  ASSUME BridgeTypeOK, EditorTypeOK, HostsFit, NEW n, n = New(ops'), ops' = ops \/ ops' = ops + 1
  PROVE  /\ n \in Nat /\ New(ops) \in Nat /\ New(ops) <= n
         /\ \A h \in hosts \cup hostList : h <= n
         /\ \A c \in creds \cup credList : c.host <= n
         /\ draft.id <= n /\ \A o \in Op : submission[o].draft.id <= n /\ submission[o].host <= n
<1>1. ops \in Nat /\ n \in Nat /\ New(ops) \in Nat /\ New(ops) <= n
  BY DEF BridgeTypeOK, New
<1>2. /\ \A h \in hosts \cup hostList : h \in Nat /\ h <= New(ops)
      /\ \A c \in creds \cup credList : c.host \in Nat /\ c.host <= New(ops)
      /\ draft.id \in Nat /\ draft.id <= New(ops)
      /\ \A o \in Op : submission[o].draft.id \in Nat /\ submission[o].host \in Nat
                       /\ submission[o].draft.id <= New(ops) /\ submission[o].host <= New(ops)
  <2>1. KnownHosts(New(ops))
    BY DEF HostsFit
  <2>2. hosts \cup hostList \subseteq Rec /\ creds \cup credList \subseteq Credential /\ draft.id \in Rec \cup {None}
    BY SubmissionFields DEF EditorTypeOK
  <2>3. \A o \in Op : submission[o].draft.id \in Rec \cup {None} /\ submission[o].host \in Rec \cup {None}
    BY SubmissionFields DEF EditorTypeOK
  <2>4. \A c \in Credential : c.host \in Rec
    BY DEF Credential
  <2>5. \A h \in Rec \cup {None} : h \in Nat
    BY EditorNumbers
  <2> QED BY <2>1, <2>2, <2>3, <2>4, <2>5 DEF KnownHosts
<1> QED BY <1>1, <1>2

LEMMA HostsThen ==
  ASSUME BridgeTypeOK, EditorTypeOK, HostsFit, NEW o \in Op, OnlyOf(o), NEW n, n = New(ops'), ops' = ops \/ ops' = ops + 1,
         \A c, d \in creds' : c.id = d.id => c = d,
         \A h \in hosts' \cup hostList' : h \in hosts \cup hostList \/ h <= n,
         \A c \in creds' \cup credList' : c \in creds \cup credList \/ c.host <= n,
         draft'.id <= n, submission'[o].draft.id <= n, submission'[o].host <= n,
         \A p \in Op : submission'[p].at = "host" => \A c \in creds' : c.host # New(p),
         \A h \in Rec : attached'[h] # "failed" =>
           FitsOf(h, CredsOf(h, creds'), CredsOf(h, credList'), submission', attached'[h])
  PROVE  HostsFit'
<1>1. /\ \A h \in hosts \cup hostList : h <= n
      /\ \A c \in creds \cup credList : c.host <= n
      /\ \A p \in Op : submission[p].draft.id <= n /\ submission[p].host <= n
  BY Bounds
<1>2. \A p \in Op : submission'[p].draft.id <= n /\ submission'[p].host <= n
  BY <1>1 DEF OnlyOf
<1>3. \A h \in hosts' \cup hostList' : h <= n
  BY <1>1
<1>4. \A c \in creds' \cup credList' : c.host <= n
  BY <1>1
<1>5. KnownHosts(New(ops))'
  BY <1>2, <1>3, <1>4 DEF KnownHosts
<1>6. ASSUME NEW h \in Rec, attached'[h] # "failed" PROVE HostFits(h)'
  BY <1>6, FitsPartsThen
<1> QED BY <1>5, <1>6 DEF HostsFit

(* Nothing of a host changes, and a submission that deletes nothing moves. *)
LEMMA HostsStay ==
  ASSUME BridgeTypeOK, EditorTypeOK, HostsFit, NEW o \in Op, OnlyOf(o), ops' = ops \/ ops' = ops + 1,
         UNCHANGED <<creds, credList, hostList>>, hosts' \subseteq hosts \cup {submission[o].host, HostId(o)},
         HostId(o) <= New(ops'), submission[o].at # "duplicates",
         draft' = draft \/ draft' = EmptyHost, submission'[o].draft.id <= New(ops'), submission'[o].host <= New(ops'),
         submission'[o].at \in Late \cup {"ended"},
         \A h \in Rec : attached'[h] \in {attached[h], "failed"}
  PROVE  HostsFit'
<1>1. PICK n : n = New(ops')
  OBVIOUS
<1>2. /\ n \in Nat /\ draft.id <= n /\ submission[o].host <= n
  BY <1>1, Bounds
<1>3. draft'.id <= n
  BY <1>2, EmptyForms, EditorNumbers
<1>4. \A h \in hosts' \cup hostList' : h \in hosts \cup hostList \/ h <= n
  BY <1>1, <1>2
<1>5. \A p \in Op : submission'[p].at = "host" => submission[p].at = "host"
  BY DEF OnlyOf, Late
<1>6. \A p \in Op : submission'[p].at = "host" => \A c \in creds' : c.host # New(p)
  BY <1>5 DEF HostsFit
<1>7. ASSUME NEW h \in Rec, attached'[h] # "failed"
      PROVE FitsOf(h, CredsOf(h, creds'), CredsOf(h, credList'), submission', attached'[h])
  <2>1. attached'[h] = attached[h]
    BY <1>7
  <2>2. FitsOf(h, CredsOf(h, creds), CredsOf(h, credList), submission, attached[h])
    BY <1>7, <2>1, FitsParts DEF HostsFit
  <2>3. PICK s : s = submission'[o]
    OBVIOUS
  <2>4. HostOf(submission'[o], o, CredsOf(h, creds), h)
    BY <2>3, AsideOf
  <2>5. FitsOf(h, CredsOf(h, creds), CredsOf(h, credList), submission', attached[h])
    BY <2>2, <2>4, OtherHost
  <2> QED BY <2>1, <2>5
<1>8. \A c, d \in creds' : c.id = d.id => c = d
  BY DEF HostsFit
<1> QED BY <1>1, <1>3, <1>4, <1>6, <1>7, <1>8, HostsThen

LEMMA HostsOfForms ==
  ASSUME BridgeTypeOK, EditorTypeOK, HostsFit, FormStep PROVE HostsFit'
<1>1. UNCHANGED <<ops, hosts, creds, hostList, credList, submission, attached>>
  BY FormMoves DEF bridge, rowVars, queryVars
<1>2. draft'.id <= New(ops)
  <2>1. PICK n : n = New(ops')
    OBVIOUS
  <2>2. n = New(ops) /\ n \in Nat /\ draft.id <= n /\ \A h \in hostList : h <= n
    BY <1>1, <2>1, Bounds
  <2>3. draft'.id \in {draft.id, None} \cup hostList
    BY FormMoves
  <2> QED BY <2>2, <2>3, EditorNumbers
<1>3. KnownHosts(New(ops))'
  BY <1>1, <1>2 DEF HostsFit, KnownHosts
<1>4. ASSUME NEW h \in Rec, attached'[h] # "failed" PROVE HostFits(h)'
  <2>1. FitsOf(h, CredsOf(h, creds), CredsOf(h, credList), submission, attached[h])
    BY <1>1, <1>4, FitsParts DEF HostsFit
  <2> QED BY <1>1, <2>1, FitsPartsThen
<1> QED BY <1>1, <1>3, <1>4 DEF HostsFit

LEMMA HostsOfSubmit ==
  ASSUME BridgeTypeOK, EditorTypeOK, FormsFit, HostsFit, SubmitHost PROVE HostsFit'
<1>1. PICK q \in Op : /\ q = ops' /\ q = ops + 1 /\ OnlyOf(q) /\ submission'[q].at = "host" /\ submission'[q].host = draft.id
                      /\ submission'[q].listed = Ids(hostCredentialsForHost(draft.id, credList))
                      /\ submission'[q].draft.id = draft.id
  BY SubmittedMoves
<1>2. UNCHANGED <<hosts, creds, hostList, credList, draft, attached>>
  BY DEF SubmitHost, rowVars, queryVars, formVars
<1>3. PICK n : n = New(ops')
  OBVIOUS
<1>4. /\ n \in Nat /\ New(ops) \in Nat /\ draft.id <= n /\ ops \in Nat /\ n = New(q) /\ New(q) = New(ops) + 1
  <2>1. ops' = ops + 1 /\ n = New(q)
    BY <1>1, <1>3
  <2>2. n \in Nat /\ New(ops) \in Nat /\ draft.id <= n
    BY <1>3, <2>1, Bounds
  <2>3. ops \in Nat
    BY DEF BridgeTypeOK
  <2>4. New(q) = New(ops) + 1
    BY <1>1, <2>3 DEF New
  <2> QED BY <2>1, <2>2, <2>3, <2>4
<1>5. submission[q].at = "ended"
  BY <1>1, NewSubmission
<1>6. ASSUME NEW p \in Op, submission'[p].at = "host" PROVE \A c \in creds' : c.host # New(p)
  <2>1. CASE p # q
    <3>1. submission[p].at = "host"
      BY <1>1, <1>6, <2>1 DEF OnlyOf
    <3> QED BY <1>2, <3>1 DEF HostsFit
  <2>2. CASE p = q
    <3>1. \A c \in creds : c.host <= New(ops) /\ c.host \in Nat
      <4>1. \A c \in creds : c.host \in Rec
        BY DEF EditorTypeOK, Credential
      <4> QED BY <4>1, EditorNumbers DEF HostsFit, KnownHosts
    <3>2. \A c \in creds : c.host # New(q)
      BY <1>4, <3>1
    <3> QED BY <1>2, <2>2, <3>2
  <2> QED BY <2>1, <2>2
<1>7. ASSUME NEW h \in Rec, attached'[h] # "failed"
      PROVE FitsOf(h, CredsOf(h, creds'), CredsOf(h, credList'), submission', attached'[h])
  <2>1. FitsOf(h, CredsOf(h, creds), CredsOf(h, credList), submission, attached[h])
    BY <1>2, <1>7, FitsParts DEF HostsFit
  <2>2. CredsOf(h, creds) = CredsOf(h, credList)
    BY <2>1 DEF FitsOf
  <2>3. HostOf(submission'[q], q, CredsOf(h, creds), h)
    <3>1. CASE h = draft.id
      <4>1. submission'[q].listed = Ids(CredsOf(h, creds))
        BY <1>1, <2>2, <3>1 DEF CredsOf
      <4> QED BY <1>1, <4>1 DEF HostOf
    <3>2. CASE h # draft.id
      BY <1>1, <3>2 DEF HostOf
    <3> QED BY <3>1, <3>2
  <2>4. FitsOf(h, CredsOf(h, creds), CredsOf(h, credList), submission', attached[h])
    BY <1>1, <1>5, <2>1, <2>3, OtherHost
  <2> QED BY <1>2, <2>4
<1>8. \A c, d \in creds' : c.id = d.id => c = d
  BY <1>2 DEF HostsFit
<1> QED BY <1>1, <1>2, <1>3, <1>4, <1>6, <1>7, <1>8, HostsThen

LEMMA HostsOfSaved ==
  ASSUME BridgeTypeOK, EditorTypeOK, FormsFit, HostsFit, NEW o \in Op, HostSaved(o) PROVE HostsFit'
<1>1. /\ submission[o].at = "host" /\ hosts' = hosts \cup {HostId(o)} /\ creds' = creds /\ hostList' = hosts' /\ credList' = creds
      /\ UNCHANGED <<ops, draft, attached>>
  BY DEF HostSaved, Lists, bridge, formVars
<1>2. /\ OnlyOf(o) /\ HostId(o) \in Rec
      /\ submission'[o].draft = submission[o].draft /\ submission'[o].listed = submission[o].listed
      /\ submission'[o].host = HostId(o)
      /\ submission'[o].at = IF submission[o].draft.ident = "none" THEN "clear" ELSE "credential"
  BY SavedMoves DEF EditorTypeOK
<1>3. PICK n : n = New(ops')
  OBVIOUS
<1>4. n \in Nat /\ draft.id <= n /\ submission[o].draft.id <= n /\ submission[o].host <= n /\ n = New(ops)
  BY <1>1, <1>3, Bounds
<1>5. HostId(o) <= n
  <2>1. New(o) <= n
    BY <1>1, <1>4, EditorNumbers DEF FormsFit, New, BridgeTypeOK
  <2> QED BY <1>4, <2>1 DEF HostId
<1>6. \A p \in Op : submission'[p].at = "host" => \A c \in creds' : c.host # New(p)
  BY <1>1, <1>2 DEF OnlyOf, HostsFit
<1>7. ASSUME NEW h \in Rec, attached'[h] # "failed"
      PROVE FitsOf(h, CredsOf(h, creds'), CredsOf(h, credList'), submission', attached'[h])
  <2>1. FitsOf(h, CredsOf(h, creds), CredsOf(h, credList), submission, attached[h])
    BY <1>1, <1>7, FitsParts DEF HostsFit
  <2>2. submission'[o].host = h => submission'[o].listed = Ids(CredsOf(h, creds))
    <3> SUFFICES ASSUME HostId(o) = h PROVE submission[o].listed = Ids(CredsOf(h, creds))
      BY <1>2
    <3>1. CASE submission[o].draft.id # None
      <4>1. submission[o].host = h
        BY <1>1, <3>1 DEF FormsFit, SubmissionFits, HostId
      <4> QED BY <1>1, <2>1, <4>1 DEF FitsOf, HostOf
    <3>2. CASE submission[o].draft.id = None
      <4>1. h = New(o) /\ submission[o].listed = {}
        BY <3>2 DEF FormsFit, SubmissionFits, HostId
      <4>2. CredsOf(h, creds) = {}
        BY <1>1, <4>1 DEF HostsFit, CredsOf, hostCredentialsForHost
      <4> QED BY <4>1, <4>2 DEF Ids
    <3> QED BY <3>1, <3>2
  <2>3. HostOf(submission'[o], o, CredsOf(h, creds), h)
    BY <1>2, <2>2 DEF HostOf
  <2>4. FitsOf(h, CredsOf(h, creds), CredsOf(h, creds), submission', attached[h])
    BY <1>1, <1>2, <2>1, <2>3, OtherHost
  <2> QED BY <1>1, <2>4
<1>8. \A c, d \in creds' : c.id = d.id => c = d
  BY <1>1 DEF HostsFit
<1>9. \A h \in hosts' \cup hostList' : h \in hosts \cup hostList \/ h <= n
  BY <1>1, <1>5
<1>10. \A c \in creds' \cup credList' : c \in creds \cup credList \/ c.host <= n
  BY <1>1
<1>11. draft'.id <= n /\ submission'[o].draft.id <= n /\ submission'[o].host <= n
  BY <1>1, <1>2, <1>4, <1>5
<1>12. ops' = ops
  BY <1>1
<1> QED BY <1>2, <1>3, <1>6, <1>7, <1>8, <1>9, <1>10, <1>11, <1>12, HostsThen

(* The only submission changes the credentials of its host only.           *)
LEMMA OwnHost ==
  ASSUME NEW o \in Op, OnlyOf(o), \A p \in Op : Submits(p) => p = o, NEW h, NEW X, NEW a,
         HostOf(submission'[o], o, X, h), a \in Ident /\ Clean(h, submission') => OneOf(X, a)
  PROVE  FitsOf(h, X, X, submission', a)
<1>1. ASSUME NEW p \in Op PROVE HostOf(submission'[p], p, X, h)
  <2>1. CASE p = o
    BY <2>1
  <2>2. CASE p # o
    <3>1. submission'[p].at = "ended"
      BY <2>2 DEF OnlyOf, Submits
    <3> QED BY <3>1 DEF HostOf
  <2> QED BY <2>1, <2>2
<1> QED BY <1>1 DEF FitsOf

LEMMA HostsOfRows ==
  ASSUME BridgeTypeOK, EditorTypeOK, HostsFit, NEW o \in Op, OnlyOf(o), NEW m \in Rec, m = submission[o].host, ops' = ops,
         \A p \in Op : Submits(p) => p = o,
         hosts' = hosts, hostList' \in {hostList, hosts}, credList' \in {credList, creds'},
         \A c, d \in creds' : c.id = d.id => c = d, \A c \in creds' : c \in creds \/ c.host = m,
         \A h \in Rec : h # m => CredsOf(h, creds') = CredsOf(h, creds) /\ attached'[h] = attached[h],
         submission'[o].host \in {m, None}, submission'[o].draft.id \in {submission[o].draft.id, None},
         submission'[o].at # "host", draft'.id \in {draft.id, None, m},
         attached'[m] # "failed" => FitsOf(m, CredsOf(m, creds'), CredsOf(m, credList'), submission', attached'[m])
  PROVE  HostsFit'
<1>1. PICK n : n = New(ops')
  OBVIOUS
<1>2. /\ n \in Nat /\ draft.id <= n /\ submission[o].draft.id <= n /\ m <= n /\ 0 <= n
      /\ \A c \in creds \cup credList : c.host <= n
  BY <1>1, Bounds
<1>3. draft'.id <= n /\ submission'[o].draft.id <= n /\ submission'[o].host <= n
  BY <1>2, EditorNumbers
<1>4. \A c \in creds' \cup credList' : c \in creds \cup credList \/ c.host <= n
  BY <1>2
<1>5. \A h \in hosts' \cup hostList' : h \in hosts \cup hostList \/ h <= n
  OBVIOUS
<1>6. ASSUME NEW p \in Op, submission'[p].at = "host" PROVE FALSE
  <2>1. p # o /\ Submits(p)
    BY <1>6 DEF OnlyOf, Submits
  <2> QED BY <2>1
<1>7. ASSUME NEW h \in Rec, attached'[h] # "failed"
      PROVE FitsOf(h, CredsOf(h, creds'), CredsOf(h, credList'), submission', attached'[h])
  <2>1. CASE h = m
    BY <1>7, <2>1
  <2>2. CASE h # m
    <3>1. CredsOf(h, creds') = CredsOf(h, creds) /\ attached'[h] = attached[h]
      BY <2>2
    <3>2. FitsOf(h, CredsOf(h, creds), CredsOf(h, credList), submission, attached[h])
      BY <1>7, <3>1, FitsParts DEF HostsFit
    <3>3. HostOf(submission'[o], o, CredsOf(h, creds), h)
      BY <2>2, EditorNumbers DEF HostOf
    <3>4. CredsOf(h, credList') \in {CredsOf(h, creds), CredsOf(h, credList)}
      BY <3>1
    <3>5. PICK Z : Z = CredsOf(h, credList')
      OBVIOUS
    <3>6. FitsOf(h, CredsOf(h, creds), Z, submission', attached[h])
      BY <2>2, <3>2, <3>3, <3>4, <3>5, OtherHost
    <3> QED BY <3>1, <3>5, <3>6
  <2> QED BY <2>1, <2>2
<1> QED BY <1>1, <1>3, <1>4, <1>5, <1>6, <1>7, HostsThen

(* The credentials of another host stay where they are.                    *)
LEMMA ApartAttached ==
  ASSUME BridgeTypeOK, EditorTypeOK, FormsFit, OwnersFit, NEW o \in Op, submission[o].at = "credential", Attach(o),
         NEW h \in Rec, h # submission[o].host
  PROVE  CredsOf(h, creds') = CredsOf(h, creds)
<1>1. submission[o].host \in Rec /\ CredId(o) \in Rec /\ \A g \in Rec : Owns(CredId(o), g) => g = submission[o].host
  BY OwnCredential
<1>2. PICK c \in Credential : creds' = Without(creds, {CredId(o)}) \cup {c} /\ c.host = submission[o].host
  BY <1>1, AttachTypes
<1>3. ASSUME NEW d \in CredsOf(h, creds) PROVE d.id # CredId(o)
  <2>1. HeldFor(creds, d.id, h) /\ d.id \in Rec
    BY <1>3 DEF HeldFor, CredsOf, hostCredentialsForHost, EditorTypeOK, Credential
  <2>2. Owns(d.id, h)
    BY <2>1, OwnsParts
  <2> QED BY <1>1, <2>2
<1> QED BY <1>2, <1>3 DEF CredsOf, hostCredentialsForHost, Without

LEMMA ApartDeleted ==
  ASSUME EditorTypeOK, FormsFit, OwnersFit, NEW o \in Op, submission[o].at \in {"duplicates", "clear"},
         NEW gone \in SUBSET Doomed(o), NEW h \in Rec, h # submission[o].host
  PROVE  CredsOf(h, Without(creds, gone)) = CredsOf(h, creds)
<1>1. ASSUME NEW d \in CredsOf(h, creds) PROVE d.id \notin gone
  <2>1. HeldFor(creds, d.id, h) /\ d.id \in Rec
    BY <1>1 DEF HeldFor, CredsOf, hostCredentialsForHost, EditorTypeOK, Credential
  <2>2. SUFFICES ASSUME d.id \in gone PROVE FALSE
    OBVIOUS
  <2>3. d.id \in submission[o].listed \/ (d.id = submission[o].draft.cred /\ submission[o].draft.cred # None)
    BY <2>1, <2>2 DEF Doomed
  <2>4. submission[o].draft.id # None /\ submission[o].host = submission[o].draft.id
    BY <2>3 DEF FormsFit, SubmissionFits, FreshDraft
  <2>5. TellsOf(submission[o], d.id, submission[o].host) /\ submission[o].host \in Rec
    BY <2>3, <2>4, SavedRows DEF TellsOf
  <2>6. Owns(d.id, submission[o].host) /\ Owns(d.id, h)
    BY <2>1, <2>5, OwnsParts
  <2> QED BY <2>1, <2>5, <2>6 DEF OwnersFit
<1> QED BY <1>1 DEF CredsOf, hostCredentialsForHost, Without

(* A request that failed says nothing of its host any more.                *)
LEMMA HostsOfDenied ==
  ASSUME BridgeTypeOK, EditorTypeOK, FormsFit, OwnersFit, HostsFit, ~Hasty, NEW o \in Op, \A p \in Op : Submits(p) => p = o, Denied(o)
  PROVE  HostsFit'
<1>1. /\ OnlyOf(o) /\ submission'[o] = NoSubmission
      /\ UNCHANGED <<ops, hostList, credList, draft>>
      /\ \A h \in Rec : attached'[h] = IF h = submission[o].host THEN "failed" ELSE attached[h]
  BY DeniedMoves DEF SubmissionEnds, bridge, queryVars, formVars
<1>2. NoSubmission.at = "ended" /\ NoSubmission.draft.id = None /\ NoSubmission.host = None
  BY EmptyForms
<1>3. PICK n : n = New(ops')
  OBVIOUS
<1>4. n \in Nat /\ n = New(ops) /\ submission[o].draft.id <= n
  BY <1>1, <1>3, Bounds
<1>5. CASE HostNotSaved(o)
  <2>1. submission[o].at = "host" /\ creds' = creds /\ hosts' \subseteq hosts \cup {submission[o].host, HostId(o)}
    BY <1>5 DEF HostNotSaved
  <2>2. HostId(o) <= n
    <3>1. New(o) <= n
      BY <1>1, <1>4, <2>1, EditorNumbers DEF FormsFit, New, BridgeTypeOK
    <3> QED BY <1>4, <3>1 DEF HostId
  <2>3. submission'[o].draft.id <= n /\ submission'[o].host <= n
    BY <1>1, <1>2, <1>4, EditorNumbers
  <2>4. HostId(o) <= New(ops') /\ submission'[o].draft.id <= New(ops') /\ submission'[o].host <= New(ops')
    BY <1>3, <2>2, <2>3
  <2>5. submission'[o].at \in Late \cup {"ended"} /\ submission[o].at # "duplicates" /\ draft' = draft /\ ops' = ops
    BY <1>1, <1>2, <2>1
  <2>6. \A h \in Rec : attached'[h] \in {attached[h], "failed"}
    BY <1>1
  <2> QED BY <1>1, <2>1, <2>4, <2>5, <2>6, HostsStay
<1>6. CASE NotAttached(o) \/ NotDeleted(o)
  <2>1. submission[o].at \in {"credential", "duplicates", "clear"} /\ hosts' = hosts
    BY <1>6 DEF NotAttached, NotDeleted
  <2>2. PICK m \in Rec : m = submission[o].host
    BY <2>1, SavedRows
  <2>3. /\ \A c, d \in creds' : c.id = d.id => c = d
        /\ \A c \in creds' : c \in creds \/ c.host = m
        /\ \A h \in Rec : h # m => CredsOf(h, creds') = CredsOf(h, creds)
    <3>1. \A c, d \in creds : c.id = d.id => c = d
      BY DEF HostsFit
    <3>2. CASE creds' = creds
      BY <3>1, <3>2
    <3>3. CASE submission[o].at = "credential" /\ Attach(o)
      <4>1. PICK c \in Credential : creds' = Without(creds, {CredId(o)}) \cup {c} /\ c.host = m /\ c.id = CredId(o)
        BY <2>2, <3>3, AttachTypes
      <4> QED BY <2>2, <3>1, <3>3, <4>1, ApartAttached DEF Without
    <3>4. ASSUME NEW gone \in SUBSET Doomed(o), creds' = Without(creds, gone), submission[o].at \in {"duplicates", "clear"}
          PROVE /\ \A c, d \in creds' : c.id = d.id => c = d
                /\ \A c \in creds' : c \in creds \/ c.host = m
                /\ \A h \in Rec : h # m => CredsOf(h, creds') = CredsOf(h, creds)
      BY <2>2, <3>1, <3>4, ApartDeleted DEF Without
    <3> QED BY <1>6, <3>2, <3>3, <3>4 DEF NotAttached, NotDeleted
  <2>4. \A h \in Rec : h # m => attached'[h] = attached[h]
    BY <1>1, <2>2
  <2>5. attached'[m] = "failed"
    BY <1>1, <2>2
  <2>6. submission'[o].host \in {m, None} /\ submission'[o].draft.id \in {submission[o].draft.id, None} /\ submission'[o].at # "host"
        /\ draft'.id \in {draft.id, None, m} /\ ops' = ops /\ hostList' \in {hostList, hosts} /\ credList' \in {credList, creds'}
    BY <1>1, <1>2
  <2>7. \A h \in Rec : h # m => CredsOf(h, creds') = CredsOf(h, creds) /\ attached'[h] = attached[h]
    BY <2>3, <2>4
  <2> QED BY <1>1, <2>1, <2>2, <2>3, <2>5, <2>6, <2>7, HostsOfRows
<1> QED BY <1>5, <1>6 DEF Denied

LEMMA HostsOfAttached ==
  ASSUME BridgeTypeOK, EditorTypeOK, FormsFit, OwnersFit, HostsFit, NEW o \in Op, \A p \in Op : Submits(p) => p = o, Attached(o)
  PROVE  HostsFit'
<1>1. /\ submission[o].at = "credential" /\ Attach(o) /\ hosts' = hosts /\ hostList' = hosts /\ credList' = creds'
      /\ UNCHANGED <<ops, draft, attached>>
  BY DEF Attached, Lists, bridge, formVars
<1>2. /\ OnlyOf(o) /\ submission'[o].at = "duplicates" /\ submission'[o].draft = submission[o].draft
      /\ submission'[o].listed = submission[o].listed /\ submission'[o].host = submission[o].host
  <2>1. submission' = Advanced(o, "duplicates") /\ "duplicates" \in Stages
    BY DEF Attached, Stages
  <2>2. SubmissionMoves(o, "duplicates")
    BY <2>1, AdvanceMoves DEF EditorTypeOK
  <2> QED BY <2>2 DEF SubmissionMoves
<1>3. PICK m \in Rec : m = submission[o].host
  BY <1>1, SavedRows
<1>4. PICK c \in Credential : /\ creds' = Without(creds, {CredId(o)}) \cup {c}
                              /\ c.id = CredId(o) /\ c.host = m /\ c.ident = submission[o].draft.ident
  BY <1>1, <1>3, AttachTypes
<1>5. \A b, d \in creds' : b.id = d.id => b = d
  BY <1>4 DEF HostsFit, Without
<1>6. \A d \in creds' : d \in creds \/ d.host = m
  BY <1>4 DEF Without
<1>7. \A h \in Rec : h # m => CredsOf(h, creds') = CredsOf(h, creds) /\ attached'[h] = attached[h]
  BY <1>1, <1>3, ApartAttached
<1>8. ASSUME attached'[m] # "failed" PROVE FitsOf(m, CredsOf(m, creds'), CredsOf(m, credList'), submission', attached'[m])
  <2>1. FitsOf(m, CredsOf(m, creds), CredsOf(m, credList), submission, attached[m])
    BY <1>1, <1>8, FitsParts DEF HostsFit
  <2>2. submission[o].listed = Ids(CredsOf(m, creds))
    BY <1>1, <1>3, <2>1 DEF FitsOf, HostOf
  <2>3. Saves(submission'[o], o) = CredId(o)
    BY <1>2 DEF Saves, CredId
  <2>4. \A d \in CredsOf(m, creds') : d \in CredsOf(m, creds) \/ d = c
    BY <1>4 DEF CredsOf, hostCredentialsForHost, Without
  <2>5. Ids(CredsOf(m, creds')) \subseteq submission'[o].listed \cup {CredId(o)}
    BY <1>2, <1>4, <2>2, <2>4 DEF Ids
  <2>6. c \in CredsOf(m, creds')
    BY <1>4 DEF CredsOf, hostCredentialsForHost
  <2>7. HostOf(submission'[o], o, CredsOf(m, creds'), m)
    BY <1>2, <1>4, <2>3, <2>5, <2>6 DEF HostOf
  <2>8. ~Clean(m, submission')
    BY <1>2, <1>3 DEF Clean
  <2>9. FitsOf(m, CredsOf(m, creds'), CredsOf(m, creds'), submission', attached'[m])
    BY <1>2, <2>7, <2>8, OwnHost
  <2> QED BY <1>1, <2>9
<1>9. submission'[o].host \in {m, None} /\ submission'[o].draft.id \in {submission[o].draft.id, None} /\ submission'[o].at # "host"
      /\ draft'.id \in {draft.id, None, m} /\ ops' = ops /\ hostList' \in {hostList, hosts} /\ credList' \in {credList, creds'}
  BY <1>1, <1>2, <1>3
<1> QED BY <1>1, <1>2, <1>3, <1>5, <1>6, <1>7, <1>8, <1>9, HostsOfRows

LEMMA HostsOfDeleted ==
  ASSUME BridgeTypeOK, EditorTypeOK, FormsFit, OwnersFit, HostsFit, ~Hasty, NEW o \in Op, \A p \in Op : Submits(p) => p = o,
         DuplicatesDeleted(o) \/ CredentialsDeleted(o)
  PROVE  HostsFit'
<1>1. /\ submission[o].at \in {"duplicates", "clear"} /\ creds' = Without(creds, Doomed(o)) /\ hosts' = hosts /\ hostList' = hosts
      /\ credList' = creds' /\ ops' = ops /\ Cleaned(o)
  BY DEF DuplicatesDeleted, CredentialsDeleted, Lists, bridge
<1>2. PICK m \in Rec : m = submission[o].host
  BY <1>1, SavedRows
<1>3. \A h \in Rec : attached'[h] = IF h = m /\ attached[h] # "failed" THEN submission[o].draft.ident ELSE attached[h]
  BY <1>1, <1>2, CleanedMoves
<1>4. /\ OnlyOf(o) /\ submission'[o].at \in {"keys", "ended"} /\ submission'[o].host \in {m, None}
      /\ submission'[o].draft.id \in {submission[o].draft.id, None} /\ draft'.id \in {draft.id, None, m}
  <2>1. CASE CloseEditor /\ submission' = Done(o)
    <3>1. SubmissionEnds(o)
      BY <2>1, DoneEnds DEF EditorTypeOK
    <3> QED BY <2>1, <3>1, EmptyForms DEF SubmissionEnds, CloseEditor
  <2>2. CASE SavedDraft(o) /\ submission' = Advanced(o, "keys")
    <3>1. SubmissionMoves(o, "keys")
      BY <2>2, AdvanceMoves DEF EditorTypeOK, Stages
    <3>2. draft'.id = submission[o].host
      BY <1>2, <2>2, SavedDrafts
    <3> QED BY <1>2, <3>1, <3>2 DEF SubmissionMoves
  <2> QED BY <2>1, <2>2 DEF DuplicatesDeleted, CredentialsDeleted
<1>5. \A b, d \in creds' : b.id = d.id => b = d
  BY <1>1 DEF HostsFit, Without
<1>6. \A d \in creds' : d \in creds \/ d.host = m
  BY <1>1 DEF Without
<1>7. \A h \in Rec : h # m => CredsOf(h, creds') = CredsOf(h, creds) /\ attached'[h] = attached[h]
  <2>1. Doomed(o) \in SUBSET Doomed(o)
    OBVIOUS
  <2> QED BY <1>1, <1>2, <1>3, <2>1, ApartDeleted
<1>8. ASSUME attached'[m] # "failed" PROVE FitsOf(m, CredsOf(m, creds'), CredsOf(m, credList'), submission', attached'[m])
  <2>0. attached[m] # "failed" /\ attached'[m] = submission[o].draft.ident
    BY <1>3, <1>8
  <2>1. FitsOf(m, CredsOf(m, creds), CredsOf(m, credList), submission, attached[m])
    BY <2>0, FitsParts DEF HostsFit
  <2>2. OneOf(CredsOf(m, creds'), submission[o].draft.ident)
    <3>1. CASE submission[o].at = "duplicates"
      <4>1. Saves(submission[o], o) = CredId(o)
        BY DEF Saves, CredId
      <4>2. Ids(CredsOf(m, creds)) \subseteq submission[o].listed \cup {CredId(o)}
        BY <1>2, <2>1, <3>1, <4>1 DEF FitsOf, HostOf
      <4>3. PICK c \in CredsOf(m, creds) : c.id = CredId(o) /\ c.ident = submission[o].draft.ident
        BY <1>2, <2>1, <3>1, <4>1 DEF FitsOf, HostOf
      <4>4. Doomed(o) = submission[o].listed \ {CredId(o)}
        BY <3>1 DEF Doomed
      <4>5. c \in CredsOf(m, creds')
        BY <1>1, <4>3, <4>4 DEF CredsOf, hostCredentialsForHost, Without
      <4>6. ASSUME NEW d \in CredsOf(m, creds') PROVE d = c
        <5>1. d \in CredsOf(m, creds) /\ d.id \notin Doomed(o)
          BY <1>1, <4>6 DEF CredsOf, hostCredentialsForHost, Without
        <5>2. d.id = CredId(o)
          BY <4>2, <4>4, <5>1 DEF Ids
        <5> QED BY <4>3, <5>1, <5>2 DEF HostsFit, CredsOf, hostCredentialsForHost
      <4>7. CredsOf(m, creds') = {c}
        BY <4>5, <4>6
      <4>8. submission[o].draft.ident # "none"
        BY <3>1 DEF FormsFit, SubmissionFits
      <4> QED BY <4>3, <4>5, <4>7, <4>8 DEF OneOf
    <3>2. CASE submission[o].at = "clear"
      <4>1. submission[o].listed = Ids(CredsOf(m, creds))
        BY <1>2, <2>1, <3>2 DEF FitsOf, HostOf
      <4>2. submission[o].listed \subseteq Doomed(o)
        BY <3>2 DEF Doomed
      <4>3. CredsOf(m, creds') = {}
        BY <1>1, <4>1, <4>2 DEF CredsOf, hostCredentialsForHost, Without, Ids
      <4>4. submission[o].draft.ident = "none"
        BY <3>2 DEF FormsFit, SubmissionFits
      <4> QED BY <4>3, <4>4 DEF OneOf
    <3> QED BY <1>1, <3>1, <3>2
  <2>3. HostOf(submission'[o], o, CredsOf(m, creds'), m)
    BY <1>4 DEF HostOf
  <2>4. FitsOf(m, CredsOf(m, creds'), CredsOf(m, creds'), submission', attached'[m])
    BY <1>4, <2>0, <2>2, <2>3, OwnHost
  <2> QED BY <1>1, <2>4
<1>9. submission'[o].at # "host" /\ hostList' \in {hostList, hosts} /\ credList' \in {credList, creds'}
  BY <1>1, <1>4
<1> QED BY <1>1, <1>2, <1>4, <1>5, <1>6, <1>7, <1>8, <1>9, HostsOfRows

LEMMA EditorHostsFit ==
  ASSUME BridgeTypeOK, EditorTypeOK, OwnersFit, FormsFit, ShellFits, DialogFits, HostsFit, ~Hasty, ipc \in Seq(Message), EditorNext
  PROVE  HostsFit'
<1>1. ASSUME NEW o \in Op, ServerStep(o) \/ TestAttachedKey(o) \/ ShellStep(o) PROVE \A p \in Op : Submits(p) => p = o
  <2>1. Submits(o)
    BY <1>1, EditorMoves
  <2> QED BY <2>1 DEF DialogFits
<1>2. PICK n : n = New(ops')
  OBVIOUS
<1>3. (ops' = ops \/ ops' = ops + 1) => n \in Nat /\ draft.id <= n /\ \A p \in Op : submission[p].draft.id <= n /\ submission[p].host <= n
  BY <1>2, Bounds
<1>4. ASSUME NEW o \in Op, o <= ops', ops' \in Nat, ops' = ops \/ ops' = ops + 1 PROVE HostId(o) <= n
  <2>1. New(o) <= n
    BY <1>2, <1>4, EditorNumbers DEF New
  <2> QED BY <1>3, <1>4, <2>1 DEF HostId
<1>5. NoSubmission.at = "ended" /\ NoSubmission.draft.id = None /\ NoSubmission.host = None /\ EmptyHost.id = None
  BY EmptyForms
<1>6. CASE SubmitBootstrap
  <2>1. PICK q \in Op : q = ops' /\ q = ops + 1 /\ OnlyOf(q) /\ submission'[q].at = "install" /\ submission'[q].host = bootstrap.host
                        /\ submission'[q].draft = EmptyHost
    BY <1>6, BootstrapMoves
  <2>2. UNCHANGED <<hosts, creds, hostList, credList, draft, attached>> /\ bootstrap.status = "password"
    BY <1>6 DEF SubmitBootstrap, rowVars, queryVars
  <2>3. bootstrap.host = draft.id
    <3>1. bootstrap # NoBootstrap
      BY <2>2, ShellTypes
    <3> QED BY <3>1 DEF DialogFits
  <2>4. ops \in Nat /\ ops' \in Nat /\ ops' = ops + 1 /\ q <= ops'
    BY <2>1, EditorNumbers DEF BridgeTypeOK
  <2>5. submission'[q].host <= n /\ submission'[q].draft.id <= n /\ HostId(q) <= n
    BY <1>3, <1>4, <1>5, <2>1, <2>3, <2>4, EditorNumbers
  <2>6. submission'[q].host <= New(ops') /\ submission'[q].draft.id <= New(ops') /\ HostId(q) <= New(ops')
    BY <1>2, <2>5
  <2>7. submission[q].at # "duplicates" /\ submission'[q].at \in Late \cup {"ended"}
    BY <2>1, NewSubmission DEF Late
  <2>8. \A h \in Rec : attached'[h] \in {attached[h], "failed"}
    BY <2>2
  <2> QED BY <2>1, <2>2, <2>4, <2>6, <2>7, <2>8, HostsStay
<1>7. ASSUME NEW o \in Op, Submits(o), submission[o].at \in Late, OnlyOf(o),
             UNCHANGED <<ops, hosts, creds, hostList, credList, attached>>, draft' = draft \/ draft' = EmptyHost,
             \/ submission'[o] = NoSubmission
             \/ /\ submission'[o].draft = submission[o].draft /\ submission'[o].host = submission[o].host
                /\ submission'[o].at \in Late
      PROVE HostsFit'
  <2>1. o <= ops' /\ ops' \in Nat /\ ops' = ops
    BY <1>7 DEF Submits, FormsFit, BridgeTypeOK
  <2>2. HostId(o) <= New(ops')
    BY <1>2, <1>4, <2>1
  <2>3. submission'[o].draft.id <= n /\ submission'[o].host <= n
    BY <1>3, <1>5, <1>7, <2>1, EditorNumbers
  <2>4. submission'[o].draft.id <= New(ops') /\ submission'[o].host <= New(ops')
    BY <1>2, <2>3
  <2>5. submission'[o].at \in Late \cup {"ended"} /\ submission[o].at # "duplicates"
    BY <1>5, <1>7 DEF Late
  <2>6. \A h \in Rec : attached'[h] \in {attached[h], "failed"}
    BY <1>7
  <2> QED BY <1>7, <2>1, <2>2, <2>4, <2>5, <2>6, HostsStay
<1>8. ASSUME NEW o \in Op, TestAttachedKey(o) PROVE HostsFit'
  <2>1. submission[o].at = "keys" /\ UNCHANGED <<ops, hosts, creds, hostList, credList, draft, attached>>
    BY <1>8, KeysStepMoves DEF rowVars, queryVars, formVars
  <2>2. SubmissionEnds(o) \/ SubmissionMoves(o, "test")
    BY <1>8, KeysStepMoves
  <2>3. OnlyOf(o) /\ \/ submission'[o] = NoSubmission
                     \/ /\ submission'[o].draft = submission[o].draft /\ submission'[o].host = submission[o].host
                        /\ submission'[o].at \in Late
    BY <2>2 DEF SubmissionEnds, SubmissionMoves, Late
  <2>4. Submits(o) /\ submission[o].at \in Late
    BY <2>1 DEF Submits, Late
  <2> QED BY <1>7, <2>1, <2>3, <2>4
<1>9. ASSUME NEW o \in Op, ShellStep(o) PROVE HostsFit'
  <2>1. UNCHANGED <<ops, hosts, creds, hostList, credList, attached>>
    BY <1>9, ShellSteps DEF rowVars, queryVars
  <2>2. submission[o].at \in {"test", "retest", "install"}
    BY <1>9, ShellSteps, ShellWorks
  <2>3. Submits(o) /\ submission[o].at \in Late
    BY <2>2 DEF Submits, Late
  <2>4. CASE Replied(o)
    <3>1. OnlyOf(o) /\ submission'[o] = NoSubmission /\ (draft' = draft \/ draft' = EmptyHost)
      BY <2>4 DEF Replied, SubmissionEnds, CloseEditor, KeepEditor
    <3> QED BY <1>7, <2>1, <2>3, <3>1
  <2>5. CASE SubmissionMoves(o, "retest") /\ UNCHANGED formVars
    <3>1. OnlyOf(o) /\ submission'[o].draft = submission[o].draft /\ submission'[o].host = submission[o].host
          /\ submission'[o].at \in Late /\ draft' = draft
      BY <2>5 DEF SubmissionMoves, Late, formVars
    <3> QED BY <1>7, <2>1, <2>3, <3>1
  <2>6. ASSUME NEW at, Child(o, at) PROVE HostsFit'
    <3>1. OnlyOf(o) /\ submission' = submission /\ draft' = draft
      BY <2>6 DEF Child, formVars, OnlyOf, EditorTypeOK
    <3> QED BY <1>7, <2>1, <2>3, <3>1
  <2>7. \/ Replied(o) \/ Child(o, "test") \/ Child(o, "copy") \/ Child(o, "manual")
        \/ SubmissionMoves(o, "retest") /\ UNCHANGED formVars
    BY <1>9, ShellSteps DEF TryStarts, TryEnds, InstallStarts, InstallEnds
  <2> QED BY <2>4, <2>5, <2>6, <2>7
<1>10. ASSUME NEW o \in Op, ServerStep(o) PROVE HostsFit'
  <2>1. \A p \in Op : Submits(p) => p = o
    BY <1>1, <1>10
  <2>2. Denied(o) \/ HostSaved(o) \/ Attached(o) \/ DuplicatesDeleted(o) \/ CredentialsDeleted(o)
    BY <1>10 DEF ServerStep, Denied
  <2> QED BY <2>1, <2>2, HostsOfDenied, HostsOfSaved, HostsOfAttached, HostsOfDeleted
<1> QED BY <1>6, <1>8, <1>9, <1>10, EditorKinds, HostsOfForms, HostsOfSubmit

LEMMA EditorInductive ==
  ASSUME BridgeTypeOK, EditorInv, "editor" \in used, used' = used, pace' = pace, ipc \in Seq(Message), EditorNext PROVE EditorInv'
<1>1. EditorTypeOK /\ OwnersFit /\ FormsFit /\ ShellFits /\ DialogEnds
  BY DEF EditorInv
<1>2. EditorTypeOK' /\ FormsFit'
  <2>1. ASSUME NEW o \in Op, ShellStep(o) PROVE submission[o].at # "ended"
    BY <1>1, <2>1, EditorMoves DEF Submits
  <2> QED BY <1>1, <2>1, EditorKinds, FormStepFits, SubmitFits, ServerFits, KeysStepFits, ShellFormsFit
<1>3. ShellFits' /\ DialogEnds' /\ OwnersFit'
  BY <1>1, EditorShellFits, EditorDialogEnds, EditorOwnersFit
<1>4. ~Hasty => DialogFits' /\ HostsFit'
  BY <1>1, EditorDialogFits, EditorHostsFit DEF EditorInv
<1>5. ~(Hasty') => ~Hasty
  BY DEF Hasty
<1> QED BY <1>2, <1>3, <1>4, <1>5 DEF EditorInv

(* The other parts begin operations and send commands of their own.        *)
LEMMA EditorRests ==
  ASSUME BridgeTypeOK, EditorInv, UNCHANGED <<editorVars, pace, used>>, ops' = ops \/ ops' = ops + 1,
         "editor" \in used => \A o \in Op : /\ Same(ipc, ipc', TryOf(o), TryOf(o))
                                            /\ Same(ipc, ipc', InstallOf(o), InstallOf(o))
  PROVE  EditorInv'
<1>1. UNCHANGED <<hosts, creds, hostList, credList, draft, editorOpen, bootstrap, submission, shell, attached>>
  BY DEF editorVars, rowVars, queryVars, formVars
<1>2. ops \in Nat /\ New(ops) \in Nat /\ New(ops') \in Nat /\ New(ops) <= New(ops') /\ ops <= ops' /\ ops' \in Nat
  BY DEF BridgeTypeOK, New
<1>3. EditorTypeOK'
  BY <1>1 DEF EditorInv, EditorTypeOK
<1>4. FormsFit'
  <2>1. \A o \in Op : submission[o].at # "ended" => o <= ops'
    BY <1>2, EditorNumbers DEF EditorInv, FormsFit
  <2> QED BY <1>1, <2>1 DEF EditorInv, FormsFit
<1>5. OwnersFit'
  <2>1. \A i, h \in Rec : Owns(i, h)' <=> Owns(i, h)
    BY <1>1 DEF Owns
  <2>2. \A o \in Op, h \in Rec : Owns(CredId(o), h)' <=> Owns(CredId(o), h)
    BY <1>1 DEF Owns, CredId
  <2>3. \A i, h \in Rec : Owns(i, h) => i <= New(ops')
    BY <1>2, EditorNumbers DEF EditorInv, OwnersFit
  <2>4. \A i, g, h \in Rec : Owns(i, g)' /\ Owns(i, h)' => g = h
    BY <2>1 DEF EditorInv, OwnersFit
  <2>5. \A i, h \in Rec : Owns(i, h)' => i <= New(ops')
    BY <2>1, <2>3
  <2>6. \A o \in Op, h \in Rec : submission'[o].at \in {"host", "credential"} => ~(Owns(New(o), h)')
    BY <1>1, <2>1, EditorNumbers DEF EditorInv, OwnersFit
  <2>7. \A o \in Op, h \in Rec : submission'[o].at = "duplicates" /\ Owns(CredId(o), h)' => h = submission'[o].host
    BY <1>1, <2>2 DEF EditorInv, OwnersFit
  <2> QED BY <2>4, <2>5, <2>6, <2>7 DEF OwnersFit
<1>6. DialogEnds'
  BY <1>1 DEF EditorInv, DialogEnds
<1>7. "editor" \in used' => ShellFits'
  <2> SUFFICES ASSUME "editor" \in used PROVE ShellFits'
    OBVIOUS
  <2>1. ASSUME NEW o \in Op PROVE FitsShell(ipc', submission'[o], shell', o)
    <3>1. FitsShell(ipc, submission[o], shell, o)
      BY ShellParts DEF EditorInv
    <3>2. Same(ipc, ipc', TryOf(o), TryOf(o)) /\ Same(ipc, ipc', InstallOf(o), InstallOf(o))
      OBVIOUS
    <3> QED BY <1>1, <3>1, <3>2 DEF FitsShell, Same
  <2>2. FitsChild(submission', shell')
    BY <1>1, ShellParts DEF EditorInv
  <2> QED BY <2>1, <2>2, ShellPartsThen
<1>8. ~(Hasty') => DialogFits' /\ HostsFit'
  <2> SUFFICES ASSUME ~Hasty PROVE DialogFits' /\ HostsFit'
    BY DEF Hasty
  <2>1. DialogFits'
    BY <1>1 DEF EditorInv, DialogFits, Submits
  <2>2. PICK n : n = New(ops')
    OBVIOUS
  <2>3. KnownHosts(New(ops))'
    <3>1. /\ \A h \in hosts \cup hostList : h <= n
          /\ \A c \in creds \cup credList : c.host <= n
          /\ draft.id <= n /\ \A o \in Op : submission[o].draft.id <= n /\ submission[o].host <= n
      BY <2>2, Bounds DEF EditorInv
    <3> QED BY <1>1, <2>2, <3>1 DEF KnownHosts
  <2>4. ASSUME NEW h \in Rec, attached'[h] # "failed" PROVE HostFits(h)'
    <3>1. FitsOf(h, CredsOf(h, creds), CredsOf(h, credList), submission, attached[h])
      BY <1>1, <2>4, FitsParts DEF EditorInv, HostsFit
    <3> QED BY <1>1, <3>1, FitsPartsThen
  <2> QED BY <1>1, <2>1, <2>3, <2>4 DEF EditorInv, HostsFit
<1> QED BY <1>3, <1>4, <1>5, <1>6, <1>7, <1>8 DEF EditorInv

LEMMA EditorInitial == Init => EditorInv
<1> SUFFICES ASSUME Init PROVE EditorInv
  OBVIOUS
<1>1. /\ hosts = {1} /\ hostList = hosts /\ credList = creds /\ draft = EmptyHost /\ editorOpen = FALSE
      /\ creds = {[id |-> i, host |-> 1, ident |-> "a", updatedAt |-> 0] : i \in {1, 2}}
      /\ submission = [o \in Op |-> NoSubmission] /\ bootstrap = NoBootstrap /\ shell = FreeShell
      /\ attached = [h \in Rec |-> "unknown"] /\ ops = 0 /\ ipc = <<>>
  BY DEF Init, EditorInit, BridgeInit
<1>2. 1 \in Rec /\ 2 \in Rec /\ 0 \in Time
  BY EditorNumbers DEF Rec, Time
<1>3. \A c \in creds : c \in Credential /\ c.id \in {1, 2} /\ c.host = 1
  BY <1>1, <1>2 DEF Credential, Ident
<1>4. /\ NoSubmission \in Submission /\ NoSubmission.at = "ended" /\ NoSubmission.draft.id = None /\ NoSubmission.host = None
      /\ EmptyHost \in Draft /\ EmptyHost.id = None /\ EmptyHost.cred = None /\ NoSubmission.listed = {}
  BY EmptyForms
<1>5. \A o \in Op : submission[o] = NoSubmission
  BY <1>1
<1>6. EditorTypeOK
  <2>1. hosts \subseteq Rec /\ hostList \subseteq Rec /\ creds \subseteq Credential /\ credList \subseteq Credential
    BY <1>1, <1>2, <1>3
  <2>2. draft \in Draft /\ editorOpen \in BOOLEAN
    BY <1>1, <1>4
  <2>3. submission \in [Op -> Submission]
    BY <1>1, <1>4
  <2>4. bootstrap \in PasswordDialog /\ shell \in ShellStates
    BY <1>1, ShellTypes
  <2>5. attached \in [Rec -> Ident \cup {"unknown", "failed"}]
    BY <1>1
  <2> QED BY <2>1, <2>2, <2>3, <2>4, <2>5 DEF EditorTypeOK, PasswordDialog, ShellStates
<1>7. FormsFit
  BY <1>1, <1>4, <1>5, NoSubmissionFits DEF FormsFit
<1>8. ASSUME NEW i \in Rec, NEW h \in Rec, Owns(i, h) PROVE i \in {1, 2} /\ h = 1
  <2>1. HeldFor(creds, i, h)
    BY <1>1, <1>4, <1>5, <1>8, OwnsParts, EmptyTells
  <2> QED BY <1>3, <2>1 DEF HeldFor
<1>9. OwnersFit
  <2>1. New(ops) = 2
    BY <1>1 DEF New
  <2>2. \A i, h \in Rec : Owns(i, h) => i <= New(ops)
    BY <1>8, <2>1
  <2>3. \A i, g, h \in Rec : Owns(i, g) /\ Owns(i, h) => g = h
    BY <1>8
  <2> QED BY <1>4, <1>5, <2>2, <2>3 DEF OwnersFit
<1>10. ShellFits
  <2>1. \A m : ~Has(ipc, m) /\ Once(ipc, m)
    BY <1>1 DEF Has, Once
  <2> QED BY <1>1, <2>1, ShellTypes DEF ShellFits
<1>11. DialogEnds
  BY <1>1, ShellTypes DEF DialogEnds
<1>12. DialogFits
  BY <1>1, <1>4, <1>5 DEF DialogFits, Submits, Late
<1>13. HostsFit
  <2>1. New(ops) = 2
    BY <1>1 DEF New
  <2>2. \A c, d \in creds : c.id = d.id => c = d
    BY <1>1
  <2>3. KnownHosts(2)
    BY <1>1, <1>3, <1>4, <1>5, EditorNumbers DEF KnownHosts
  <2>4. ASSUME NEW h \in Rec PROVE HostFits(h)
    <3>1. attached[h] \notin Ident
      BY <1>1 DEF Ident
    <3>2. \A o \in Op : HostOf(submission[o], o, CredsOf(h, creds), h)
      BY <1>4, <1>5 DEF HostOf
    <3>3. FitsOf(h, CredsOf(h, creds), CredsOf(h, credList), submission, attached[h])
      BY <1>1, <3>1, <3>2 DEF FitsOf
    <3> QED BY <3>3, FitsParts
  <2> QED BY <1>4, <1>5, <2>1, <2>2, <2>3, <2>4 DEF HostsFit
<1> QED BY <1>6, <1>7, <1>9, <1>10, <1>11, <1>12, <1>13 DEF EditorInv

LEMMA EditorStep ==
  ASSUME Grounds, Grounds', SentInv, EditorInv, [Next]_vars PROVE EditorInv'
<1>1. BridgeTypeOK /\ ipc \in Seq(Message) /\ (ops' = ops \/ ops' = ops + 1)
  BY Counts DEF Grounds, SentInv
<1>2. pace' = pace /\ used' = used
  BY MannerStays DEF manner
<1>3. CASE "editor" \in used /\ EditorNext
  BY <1>1, <1>2, <1>3, EditorInductive
<1>4. ASSUME UNCHANGED editorVars, NEW C, Sends(C, ipc, ipc'), "ssh_key_test" \notin C, "ssh_key_install" \notin C PROVE EditorInv'
  <2>1. ASSUME NEW o \in Op PROVE Same(ipc, ipc', TryOf(o), TryOf(o)) /\ Same(ipc, ipc', InstallOf(o), InstallOf(o))
    <3>1. TryOf(o).cmd = "ssh_key_test" /\ InstallOf(o).cmd = "ssh_key_install"
      BY EditorMessages
    <3> QED BY <1>4, <3>1 DEF Sends
  <2> QED BY <1>1, <1>2, <1>4, <2>1, EditorRests
<1>5. CASE SignOut
  <2>1. "editor" \notin used /\ UNCHANGED editorVars
    BY <1>5 DEF SignOut, shellVars
  <2> QED BY <1>1, <1>2, <2>1, EditorRests
<1>6. \/ SignOut
      \/ "editor" \in used /\ EditorNext
      \/ UNCHANGED editorVars /\ (TabsNext \/ TunnelsNext \/ TransfersNext \/ UNCHANGED ipc)
  <2>1. UNCHANGED vars => UNCHANGED <<editorVars, ipc>>
    BY DEF vars, shellVars, bridge
  <2>2. (RecordsNext \/ KeysNext \/ AgentsNext \/ PanesNext \/ AssistantNext \/ WebNext \/ ListingsNext
          \/ AiNext \/ PipesNext) => UNCHANGED ipc
    BY OthersQuiet
  <2>3. CASE UNCHANGED vars
    BY <2>1, <2>3
  <2>4. CASE Next
    <3>1. \/ SignOut
          \/ "editor" \in used /\ EditorNext
          \/ UNCHANGED editorVars /\ (TabsNext \/ TunnelsNext \/ TransfersNext)
          \/ UNCHANGED editorVars /\ (RecordsNext \/ KeysNext \/ AgentsNext \/ PanesNext \/ AssistantNext
                                      \/ WebNext \/ ListingsNext \/ AiNext \/ PipesNext)
      BY <2>4 DEF Next, shellVars
    <3> QED BY <2>2, <3>1
  <2> QED BY <2>3, <2>4
<1>7. CASE UNCHANGED editorVars /\ (TabsNext \/ TunnelsNext \/ TransfersNext \/ UNCHANGED ipc)
  <2>1. "ssh_key_test" \notin TabCommands \cup TunnelCommands \cup TransferCommands
        /\ "ssh_key_install" \notin TabCommands \cup TunnelCommands \cup TransferCommands
    BY DEF TabCommands, TunnelCommands, TransferCommands
  <2>2. \E C \in {TabCommands, TunnelCommands, TransferCommands} : Sends(C, ipc, ipc')
    BY <1>1, <1>7, TabsSend, TunnelsSend, TransfersSend, StillSends
  <2> QED BY <1>4, <1>7, <2>1, <2>2
<1> QED BY <1>3, <1>5, <1>6, <1>7

(* Each credential is held under its host wherever it is held; what waits  *)
(* for the shell is what a submission waits for; and for the user who      *)
(* waits there is one submission, for the host in the editor, and each     *)
(* host has its credentials listed as they are (HostsPage.tsx,             *)
(* host-credentials.ts).                                                   *)
THEOREM EditorInvariant == Spec => []EditorInv
<1>1. Spec => [](BridgeTypeOK /\ TabsInv)
  BY BridgeInvariant, TabsInvariant, PTL
<1>2. Grounds <=> BridgeTypeOK /\ TabsInv
  BY DEF Grounds
<1> QED BY <1>1, <1>2, SpecSteps, SentInvariant, EditorInitial, EditorStep, PTL

LEMMA EditorAgreesThen == ASSUME EditorInv PROVE EditorAgrees
<1>1. EditorTypeOK /\ OwnersFit /\ FormsFit
  BY DEF EditorInv
<1>2. ASSUME NEW c \in creds, c.id = draft.cred PROVE c.host = draft.id
  <2>1. c.id \in Rec /\ c.host \in Rec /\ draft.id \in Rec \cup {None}
    BY <1>1, SubmissionFields DEF EditorTypeOK, Credential
  <2>2. draft.id # None
    BY <1>1, <1>2, <2>1, EditorNumbers DEF FormsFit, FreshDraft
  <2>3. HeldFor(creds, c.id, c.host)
    BY DEF HeldFor
  <2>4. Owns(c.id, c.host) /\ Owns(c.id, draft.id)
    BY <1>2, <2>1, <2>2, <2>3, OwnsParts
  <2> QED BY <1>1, <2>1, <2>2, <2>4 DEF OwnersFit
<1>3. bootstrap.status = "installing" => \E o \in Op : submission[o].at \in {"install", "retest"}
  BY DEF EditorInv, DialogEnds
<1>4. ASSUME pace = "patient" PROVE DialogFits /\ HostsFit
  BY <1>4 DEF EditorInv, Hasty
<1>5. ASSUME pace = "patient", NEW h \in Rec, attached[h] \in Ident, ~Submitting PROVE OneOf(CredsOf(h, creds), attached[h])
  <2>1. attached[h] # "failed"
    BY <1>5 DEF Ident
  <2>2. FitsOf(h, CredsOf(h, creds), CredsOf(h, credList), submission, attached[h])
    BY <1>4, <1>5, <2>1, FitsParts DEF HostsFit
  <2>3. Clean(h, submission)
    BY <1>5 DEF Submitting, Clean
  <2> QED BY <1>5, <2>2, <2>3 DEF FitsOf
<1>6. pace = "patient" => (bootstrap # NoBootstrap => editorOpen /\ bootstrap.host = draft.id)
  BY <1>4 DEF DialogFits
<1> QED BY <1>2, <1>3, <1>5, <1>6 DEF EditorAgrees, OneOf, CredsOf

(* A credential never goes from one host to another, whatever was opened   *)
(* meanwhile; the dialog that cannot be closed has an operation that will  *)
(* end it; and for the user who waits the dialog is about the host in the  *)
(* editor, and a host that was saved without a failure has the identity    *)
(* that was picked and no other (submitHost, submitBootstrap).             *)
THEOREM TheEditorAgrees == Spec => []EditorAgrees
BY EditorInvariant, EditorAgreesThen, PTL

------------------------------------------------------------------------------
(* Transfers are owned by accounts that were signed in.                    *)
OwnersTyped == owner \in [Op -> 0 .. MaxAccount]

LEMMA OwnersInductive == BridgeTypeOK /\ OwnersTyped /\ [Next]_vars => OwnersTyped'
<1> SUFFICES ASSUME BridgeTypeOK, OwnersTyped, [Next]_vars PROVE OwnersTyped'
  OBVIOUS
<1>1. CASE UNCHANGED owner
  BY <1>1 DEF OwnersTyped
<1>2. CASE Transfer
  BY <1>2 DEF Transfer, OwnersTyped, BridgeTypeOK
<1>3. CASE TransfersNext
  <2>1. ASSUME NEW o \in Op, TransferStep(o) \/ TransferExit(o) \/ RemoveTransfer(o) PROVE UNCHANGED owner
    BY <2>1 DEF TransferStep, SpawnTransfer, Refusal, CancelTransfer, Monitor, TransferExit, RemoveTransfer
  <2>2. OpenSftp \/ LeaveSftp \/ Hear => UNCHANGED owner
    BY DEF OpenSftp, LeaveSftp, Hear, transferVars
  <2> QED BY <1>1, <1>2, <1>3, <2>1, <2>2 DEF TransfersNext
<1>4. TransfersNext \/ UNCHANGED owner
  <2>1. SignOut => UNCHANGED owner
    BY DEF SignOut
  <2> QED BY <2>1 DEF Next, vars, transferVars
<1> QED BY <1>1, <1>3, <1>4

LEMMA TransfersTyped == Spec => []TransfersTypeOK
<1>1. Spec => []OwnersTyped
  <2>1. BridgeTypeOK /\ Init => OwnersTyped
    BY DEF Init, TransfersInit, OwnersTyped, BridgeTypeOK, BridgeInit
  <2> QED BY <2>1, OwnersInductive, BridgeInvariant, SpecSteps, PTL
<1>2. ASSUME TransfersInv, OwnersTyped PROVE TransfersTypeOK
  <2>1. \A i \in DOMAIN events : events[i] \in Happening
    BY <1>2 DEF TransfersInv, TransferTypes
  <2> QED BY <1>2, <2>1 DEF TransfersInv, TransferTypes, OwnersTyped, TransfersTypeOK, Happening
<1> QED BY <1>1, <1>2, TransfersInvariant, PTL

(* Each part of the client keeps its types, with whatever part is in use,  *)
(* for a patient and a hasty user, through any number of sign-outs.        *)
THEOREM TypesHold == Spec => []TypeOK
<1>1. Spec => [](PanesInv /\ AssistantInv /\ AiInv)
  <2>1. Spec => []PanesInv
    BY PanesInitial, PanesInductive, BridgeInvariant, SpecSteps, PTL
  <2>2. Spec => []AssistantInv
    BY AssistantInitial, AssistantInductive, BridgeInvariant, SpecSteps, PTL
  <2>3. Spec => []AiInv
    BY AiInitial, AiInductive, BridgeInvariant, SpecSteps, PTL
  <2> QED BY <2>1, <2>2, <2>3, PTL
<1>2. TabsInv => TabsTypeOK
  <2>1. TabsInv => \A i \in DOMAIN tabs : tabs[i] \in Tab
    BY DEF TabsInv, TabsTypes
  <2> QED BY <2>1 DEF TabsInv, TabsTypes, TabsTypeOK, Tab, Ending, Maybe1
<1>3. SentInv => TunnelsTypeOK
  BY DEF SentInv
<1>4. PanesInv /\ AssistantInv /\ AiInv => PanesTypeOK /\ AssistantTypeOK /\ AiTypeOK
  BY DEF PanesInv, AssistantInv, AiInv
<1>5. WebInv /\ AgentsInv => WebTypeOK /\ AgentsTypeOK
  BY DEF WebInv, WebTypes, WebTypeOK, AgentsInv, AgentsTypeOK
<1>6. EditorInv => EditorTypeOK
  BY DEF EditorInv
<1>7. (BridgeTypeOK /\ TabsTypeOK /\ TunnelsTypeOK /\ TransfersTypeOK /\ RecordsTypeOK /\ KeysTypeOK /\ AgentsTypeOK
       /\ PanesTypeOK /\ AssistantTypeOK /\ WebTypeOK /\ EditorTypeOK /\ AiTypeOK /\ PipesTypeOK) => TypeOK
  BY DEF TypeOK
<1> QED BY <1>1, <1>2, <1>3, <1>4, <1>5, <1>6, <1>7, BridgeInvariant, TabsInvariant, SentInvariant, TransfersTyped,
           RecordsTyped, KeysTyped, AgentsInvariant, WebInvariant, EditorInvariant, PipesTyped, PTL

------------------------------------------------------------------------------
(* What was chosen last counts, in the five parts of the client where      *)
(* something else can answer late, each under the condition that its own   *)
(* theorem states: for the user who waits, the directory and the host of   *)
(* the pane (SftpPage.tsx), the key accepted for a server (host-keys.ts)   *)
(* and the identity of the host in the editor (HostsPage.tsx); for every   *)
(* user, the line and the question of the assistant, but for the requests  *)
(* that went astray (InlineSuggestion.tsx, AskAiPanel.tsx); and what the   *)
(* AI settings save, for who saves when they are there (AiSettingsTab.tsx).*)
THEOREM TheLatestChoiceCounts == Spec => []LatestChoiceCounts
<1>1. PanesAgree /\ LateAnswersAreDropped /\ LatestDecision /\ EditorAgrees /\ SettingsAgree => LatestChoiceCounts
  BY DEF LatestChoiceCounts
<1> QED BY <1>1, PanesShowTheirPath, AnswersFitTheQuestion, TheLatestDecisionWins, TheEditorAgrees,
           SettingsBelongTogether, PTL
=============================================================================
