---------------------------- MODULE UsbUrbProofs ----------------------------
(***************************************************************************)
(* Proofs about the URBs of one endpoint: for any set of URBs, whichever   *)
(* of them are too long for a transfer, every accepted submission is in    *)
(* one place until its handler is called once, no URB waits beside an idle *)
(* transfer, and cancelling hits only the URBs it was asked for.           *)
(***************************************************************************)
EXTENDS UsbUrb, SequenceTheorems, FiniteSetTheorems, TLAPS

-----------------------------------------------------------------------------
(* The inductive invariant. *)

(* TAILQ entries: an URB is on the list once, in one transfer, or nowhere. *)
OnePlace ==
    /\ \A i, j \in DOMAIN queue : queue[i] = queue[j] => i = j
    /\ priv[0] = priv[1] => priv[0] = NoUrb
    /\ \A u \in Urbs : ~(Queued(u) /\ InFlight(u))

(* A submission is owed its completion while the URB is in a place. *)
OwedRight ==
    \A u \in Urbs : /\ owed[u] = IF Active(u) THEN 1 ELSE 0
                    /\ hcpriv[u] <=> Active(u)

(* priv_sc1 is set while the transfer is pending, under the lock too. *)
PrivRight == \A x \in Xfers : pending[x] <=> priv[x] # NoUrb

(* The frames of a callback whose transfer is idle, and all its frames. *)
IdlePcs == {"clear_setup", "clear_return", "tr_setup"}
CallbackPcs == IdlePcs \cup {"start_other", "return"}

(* Only libusb20_tr_start() and a handler are called from other frames:    *)
(* what is below the innermost frame waits for them to return.             *)
StackShape ==
    \A i \in 1 .. Len(frames) - 1 :
        \/ frames[i].pc \in {"start1", "return"}
        \/ /\ i = Len(frames) - 1
           /\ frames[i].pc \in {"clear_setup", "clear_return"}
           /\ frames[i + 1].pc = "handler"
           /\ frames[i].urb = frames[i + 1].urb

FrameRight(f) ==
    /\ f.pc \in IdlePcs => ~pending[f.x]
    /\ f.pc \in CallbackPcs => ~(pending[f.x] /\ restart[f.x])
    /\ f.pc \in {"handler", "clear_setup", "clear_return"} => f.urb \in Urbs

FramesSound == \A i \in DOMAIN frames : FrameRight(frames[i])

(* The URB of a running handler has been given back; the handler was       *)
(* called for an unlinked URB, or by a callback that goes on to tr_setup   *)
(* and has told usb_submit_urb() to start nothing.                         *)
HandlerRight ==
    frames # <<>> /\ frames[Len(frames)].pc = "handler" =>
        LET u == frames[Len(frames)].urb IN
        /\ ~Active(u)
        /\ \/ status[u] = "ECONNRESET"
           \/ /\ Len(frames) > 1
              /\ frames[Len(frames) - 1].pc = "clear_setup"
              /\ no_resubmit[u]

FramesRight == StackShape /\ FramesSound /\ HandlerRight

(* bsd_no_resubmit is set only while a callback is waiting to clear it. *)
ResubmitFlag ==
    \A u \in Urbs : no_resubmit[u] =>
        \E i \in DOMAIN frames : /\ frames[i].pc \in {"clear_setup", "clear_return"}
                                 /\ frames[i].urb = u

(* The frame f will look at the list on behalf of transfer x, with the     *)
(* restarts requested in "again".                                          *)
WillServe(f, x, again) ==
    \/ f.pc \in {"clear_setup", "tr_setup", "start0"}
    \/ f.pc \in {"clear_return", "return"} /\ again[f.x]
    \/ f.pc = "start_other" /\ f.x # x
    \/ f.pc = "start1" /\ x = 1

(* A transfer that is idle while an URB waits is about to be served. *)
Served ==
    queue # <<>> =>
        \A x \in Xfers : pending[x] \/ \E i \in DOMAIN frames : WillServe(frames[i], x, restart)

(* A transfer is cancelled on behalf of the URB it works on, and will be   *)
(* started again.                                                          *)
CancelRight ==
    \A x \in Xfers : pending[x] /\ cancel[x] => restart[x] /\ asked[priv[x]]

(* What usb_kill_urb() has seen of a blocked URB stays so. *)
KillRight ==
    /\ killer.pc # "none" => killer.urb \in Urbs
    /\ killer.blocked =>
          /\ killer.pc # "none"
          /\ reject[killer.urb] # 0
          /\ ~Queued(killer.urb)
          /\ killer.pc # "loop" => ~InFlight(killer.urb)
          /\ \A y \in Xfers : y < killer.x => priv[y] # killer.urb

IInv ==
    /\ TypeOK /\ OnePlace /\ OwedRight /\ PrivRight /\ FramesRight /\ ResubmitFlag
    /\ Served /\ CancelRight /\ OnlyAskedAreReset /\ KillRight

-----------------------------------------------------------------------------
(* The call stack. *)

(* Returning from the innermost call, replacing it, and calling from it    *)
(* leave the calls below it as they are.                                   *)
LEMMA StackOps ==
    ASSUME NEW S, NEW s \in Seq(S), s # <<>>, NEW g \in S, NEW h \in S
    PROVE  /\ Len(s) \in Nat /\ Len(s) >= 1 /\ DOMAIN s = 1 .. Len(s)
           /\ Last(s) = s[Len(s)] /\ Last(s) \in S
           /\ /\ Front(s) \in Seq(S) /\ Len(Front(s)) = Len(s) - 1
              /\ DOMAIN Front(s) = 1 .. Len(s) - 1
              /\ \A i \in 1 .. Len(s) - 1 : Front(s)[i] = s[i]
           /\ LET r == Append(Front(s), g) IN
              /\ r \in Seq(S) /\ Len(r) = Len(s) /\ DOMAIN r = 1 .. Len(s)
              /\ \A i \in 1 .. Len(s) - 1 : r[i] = s[i]
              /\ r[Len(s)] = g /\ r # <<>>
           /\ LET r == Append(Append(Front(s), g), h) IN
              /\ r \in Seq(S) /\ Len(r) = Len(s) + 1 /\ DOMAIN r = 1 .. Len(s) + 1
              /\ \A i \in 1 .. Len(s) - 1 : r[i] = s[i]
              /\ r[Len(s)] = g /\ r[Len(s) + 1] = h /\ r # <<>>
<1>1. Len(s) \in Nat /\ Len(s) >= 1 /\ DOMAIN s = 1 .. Len(s)
  OBVIOUS
<1>2. Last(s) = s[Len(s)] /\ Last(s) \in S
  BY <1>1 DEF Last
<1>3. /\ Front(s) \in Seq(S) /\ Len(Front(s)) = Len(s) - 1
      /\ DOMAIN Front(s) = 1 .. Len(s) - 1
      /\ \A i \in 1 .. Len(s) - 1 : Front(s)[i] = s[i]
  BY <1>1 DEF Front
<1> DEFINE f == Front(s)
           r == Append(f, g)
           q == Append(r, h)
<1> HIDE DEF f
<1>4. /\ f \in Seq(S) /\ Len(f) = Len(s) - 1
      /\ \A i \in 1 .. Len(s) - 1 : f[i] = s[i]
  BY <1>3 DEF f
<1>5. /\ r \in Seq(S) /\ Len(r) = Len(s) /\ DOMAIN r = 1 .. Len(s)
      /\ \A i \in 1 .. Len(s) - 1 : r[i] = s[i]
      /\ r[Len(s)] = g /\ r # <<>>
  <2>1. /\ r \in Seq(S) /\ Len(r) = Len(f) + 1 /\ r[Len(f) + 1] = g
        /\ \A i \in 1 .. Len(f) : r[i] = f[i]
    BY <1>4
  <2>2. Len(f) + 1 = Len(s) /\ Len(f) = Len(s) - 1
    BY <1>1, <1>4
  <2> HIDE DEF r
  <2> QED
    BY <1>1, <1>4, <2>1, <2>2
<1> HIDE DEF r
<1>6. /\ q \in Seq(S) /\ Len(q) = Len(s) + 1 /\ DOMAIN q = 1 .. Len(s) + 1
      /\ \A i \in 1 .. Len(s) : q[i] = r[i]
      /\ q[Len(s) + 1] = h /\ q # <<>>
  BY <1>1, <1>5
<1> HIDE DEF q
<1>7. (\A i \in 1 .. Len(s) - 1 : q[i] = s[i]) /\ q[Len(s)] = g
  <2>1. \A i \in 1 .. Len(s) - 1 : i \in 1 .. Len(s)
    BY <1>1
  <2>2. Len(s) \in 1 .. Len(s)
    BY <1>1
  <2> QED
    BY <1>5, <1>6, <2>1, <2>2
<1> QED
  BY <1>1, <1>2, <1>3, <1>5, <1>6, <1>7 DEF f, r, q

-----------------------------------------------------------------------------
(* The list of URBs, each on it once. *)
Once(q) == \A i, j \in DOMAIN q : q[i] = q[j] => i = j

(* TAILQ_INSERT_TAIL() *)
LEMMA InsertTail ==
    ASSUME NEW S, NEW q \in Seq(S), NEW u \in S
    PROVE  /\ Append(q, u) \in Seq(S)
           /\ Append(q, u) # <<>>
           /\ ToSet(Append(q, u)) = ToSet(q) \cup {u}
           /\ Once(q) /\ u \notin ToSet(q) => Once(Append(q, u))
<1>1. /\ Append(q, u) \in Seq(S) /\ Append(q, u) # <<>>
      /\ DOMAIN q = 1 .. Len(q) /\ Len(q) \in Nat
      /\ DOMAIN Append(q, u) = 1 .. Len(q) + 1
      /\ \A i \in 1 .. Len(q) : Append(q, u)[i] = q[i]
      /\ Append(q, u)[Len(q) + 1] = u
  OBVIOUS
<1>2. ToSet(Append(q, u)) \subseteq ToSet(q) \cup {u}
  <2> SUFFICES ASSUME NEW i \in DOMAIN Append(q, u)
               PROVE  Append(q, u)[i] \in ToSet(q) \cup {u}
    BY DEF ToSet
  <2>1. i \in DOMAIN q \/ i = Len(q) + 1
    BY <1>1
  <2> QED
    BY <1>1, <2>1 DEF ToSet
<1>3. ToSet(q) \cup {u} \subseteq ToSet(Append(q, u))
  <2>1. \A i \in DOMAIN q : i \in DOMAIN Append(q, u) /\ Append(q, u)[i] = q[i]
    BY <1>1
  <2>2. Len(q) + 1 \in DOMAIN Append(q, u)
    BY <1>1
  <2> QED
    BY <1>1, <2>1, <2>2 DEF ToSet
<1>4. ASSUME Once(q), u \notin ToSet(q), NEW i \in DOMAIN Append(q, u),
             NEW j \in DOMAIN Append(q, u), Append(q, u)[i] = Append(q, u)[j]
      PROVE  i = j
  <2>1. \A k \in DOMAIN q : q[k] # u
    BY <1>4 DEF ToSet
  <2>2. \A k \in DOMAIN Append(q, u) : k \in DOMAIN q \/ k = Len(q) + 1
    BY <1>1
  <2>3. CASE i \in DOMAIN q /\ j \in DOMAIN q
    BY <1>1, <1>4, <2>3 DEF Once
  <2>4. CASE i = Len(q) + 1 \/ j = Len(q) + 1
    BY <1>1, <1>4, <2>1, <2>2, <2>4
  <2> QED
    BY <2>2, <2>3, <2>4
<1> QED
  BY <1>1, <1>2, <1>3, <1>4 DEF Once

(* TAILQ_FIRST() and TAILQ_REMOVE() of it *)
LEMMA RemoveHead ==
    ASSUME NEW S, NEW q \in Seq(S), q # <<>>, Once(q)
    PROVE  /\ Head(q) \in S /\ Tail(q) \in Seq(S)
           /\ Head(q) \in ToSet(q)
           /\ ToSet(Tail(q)) = ToSet(q) \ {Head(q)}
           /\ Once(Tail(q))
<1>1. /\ Head(q) \in S /\ Tail(q) \in Seq(S)
      /\ Len(q) \in Nat /\ Len(q) >= 1 /\ DOMAIN q = 1 .. Len(q)
      /\ Head(q) = q[1]
      /\ DOMAIN Tail(q) = 1 .. Len(q) - 1
      /\ \A i \in 1 .. Len(q) - 1 : Tail(q)[i] = q[i + 1]
  OBVIOUS
<1>2. 1 \in DOMAIN q
  BY <1>1
<1>3. \A i \in DOMAIN q : i = 1 \/ (i - 1 \in DOMAIN Tail(q) /\ Tail(q)[i - 1] = q[i])
  BY <1>1
<1>4. \A i \in DOMAIN Tail(q) : i + 1 \in DOMAIN q /\ Tail(q)[i] = q[i + 1] /\ i + 1 # 1
  BY <1>1
<1>5. Once(Tail(q))
  BY <1>1, <1>4 DEF Once
<1>6. ToSet(q) \ {Head(q)} \subseteq ToSet(Tail(q))
  BY <1>1, <1>3 DEF ToSet
<1>7. ToSet(Tail(q)) \subseteq ToSet(q) \ {Head(q)}
  BY <1>1, <1>2, <1>4 DEF ToSet, Once
<1> QED
  BY <1>1, <1>2, <1>5, <1>6, <1>7 DEF ToSet

(* TAILQ_REMOVE() *)
LEMMA RemoveEntry ==
    ASSUME NEW S, NEW q \in Seq(S), Once(q), NEW k \in DOMAIN q
    PROVE  /\ RemoveAt(q, k) \in Seq(S)
           /\ ToSet(RemoveAt(q, k)) = ToSet(q) \ {q[k]}
           /\ Once(RemoveAt(q, k))
<1> DEFINE a == SubSeq(q, 1, k - 1)
           b == SubSeq(q, k + 1, Len(q))
           r == a \o b
<1>1. Len(q) \in Nat /\ k \in 1 .. Len(q) /\ DOMAIN q = 1 .. Len(q)
  OBVIOUS
<1>2. a \in Seq(S) /\ Len(a) = k - 1 /\ \A j \in 1 .. k - 1 : a[j] = q[j]
  BY <1>1
<1>3. b \in Seq(S) /\ Len(b) = Len(q) - k /\ \A j \in 1 .. Len(q) - k : b[j] = q[k + j]
  BY <1>1
<1> HIDE DEF a, b
<1>4. /\ r \in Seq(S) /\ Len(r) = Len(a) + Len(b)
      /\ \A j \in 1 .. Len(a) + Len(b) :
            r[j] = IF j <= Len(a) THEN a[j] ELSE b[j - Len(a)]
  BY <1>2, <1>3, ConcatProperties, Zenon
<1> HIDE DEF r
<1>5. DOMAIN r = 1 .. Len(q) - 1
  BY <1>1, <1>2, <1>3, <1>4
<1>6. ASSUME NEW j \in DOMAIN r
      PROVE  r[j] = IF j < k THEN q[j] ELSE q[j + 1]
  <2>1. CASE j < k
    BY <1>1, <1>2, <1>3, <1>4, <1>5, <2>1
  <2>2. CASE j >= k
    <3>1. j - (k - 1) \in 1 .. Len(q) - k /\ ~(j <= Len(a)) /\ j \in 1 .. Len(a) + Len(b)
      BY <1>1, <1>2, <1>3, <1>5, <2>2
    <3>2. r[j] = b[j - (k - 1)]
      BY <1>2, <1>4, <3>1
    <3>3. b[j - (k - 1)] = q[k + (j - (k - 1))]
      BY <1>3, <3>1
    <3>4. k + (j - (k - 1)) = j + 1 /\ ~(j < k)
      BY <1>1, <1>5, <2>2
    <3> QED
      BY <3>2, <3>3, <3>4
  <2> QED
    BY <1>1, <1>5, <2>1, <2>2
<1>7. \A j \in DOMAIN r : /\ j < k => j \in DOMAIN q /\ j # k
                          /\ ~(j < k) => j + 1 \in DOMAIN q /\ j + 1 # k
  BY <1>1, <1>5
<1>8. \A j \in DOMAIN q : \/ j = k
                          \/ j < k /\ j \in DOMAIN r
                          \/ ~(j - 1 < k) /\ j - 1 \in DOMAIN r /\ (j - 1) + 1 = j
  BY <1>1, <1>5
<1>9. Once(r)
  <2> SUFFICES ASSUME NEW i \in DOMAIN r, NEW j \in DOMAIN r, r[i] = r[j]
               PROVE  i = j
    BY DEF Once
  <2> DEFINE p(n) == IF n < k THEN n ELSE n + 1
  <2>1. p(i) \in DOMAIN q /\ p(j) \in DOMAIN q /\ q[p(i)] = q[p(j)]
    BY <1>6, <1>7
  <2>2. p(i) = p(j)
    BY <2>1 DEF Once
  <2> QED
    BY <1>1, <1>5, <2>2
<1>10. ToSet(r) \subseteq ToSet(q) \ {q[k]}
  BY <1>6, <1>7 DEF ToSet, Once
<1>11. ToSet(q) \ {q[k]} \subseteq ToSet(r)
  <2> SUFFICES ASSUME NEW j \in DOMAIN q, j # k
               PROVE  q[j] \in ToSet(r)
    BY DEF ToSet
  <2>1. PICK i \in DOMAIN r : r[i] = q[j]
    BY <1>6, <1>8
  <2> QED
    BY <2>1 DEF ToSet
<1> QED
  BY <1>4, <1>9, <1>10, <1>11 DEF RemoveAt, r, a, b

-----------------------------------------------------------------------------
(* Steps of the call stack, and what they keep. *)
FrameType == [pc : Pcs, x : Xfers, urb : Urbs \cup {NoUrb}]

(* The frames below the innermost one stay; the calls in G take its place. *)
StackStep(G) ==
    /\ \A i \in DOMAIN frames : i \in 1 .. Len(frames) - 1 \/ frames[i] = Top
    /\ \A i \in 1 .. Len(frames) - 1 :
          i \in DOMAIN frames /\ i \in DOMAIN frames' /\ frames'[i] = frames[i]
    /\ \A i \in DOMAIN frames' :
          \/ i \in 1 .. Len(frames) - 1 /\ frames'[i] = frames[i]
          \/ frames'[i] \in G
    /\ \A g \in G : \E i \in DOMAIN frames' : frames'[i] = g

StackOK(G) ==
    frames' \in Seq(FrameType) /\ StackShape' /\ HandlerRight' /\ StackStep(G)

LEMMA TopFacts ==
    ASSUME TypeOK, frames # <<>>
    PROVE  /\ Len(frames) \in Nat /\ Len(frames) >= 1
           /\ DOMAIN frames = 1 .. Len(frames)
           /\ Len(frames) \in DOMAIN frames
           /\ Top = frames[Len(frames)] /\ Top \in FrameType
<1>1. frames \in Seq(FrameType)
  BY DEF TypeOK, FrameType
<1>2. \E f : f \in FrameType
  <2>1. Frame("return", 0, NoUrb) \in FrameType
    BY DEF Frame, FrameType, Pcs, Xfers
  <2> QED
    BY <2>1
<1>3. PICK f : f \in FrameType
  BY <1>2
<1>4. /\ Len(frames) \in Nat /\ Len(frames) >= 1 /\ DOMAIN frames = 1 .. Len(frames)
      /\ Last(frames) = frames[Len(frames)] /\ Last(frames) \in FrameType
  BY <1>1, <1>3, StackOps
<1> QED
  BY <1>4 DEF Top

(* Whatever called from a frame that is not a handler is a tr_start(). *)
LEMMA BelowTop ==
    ASSUME TypeOK, StackShape, frames # <<>>, Top.pc # "handler",
           NEW i \in 1 .. Len(frames) - 1
    PROVE  frames[i].pc \in {"start1", "return"}
<1>1. i = Len(frames) - 1 => i + 1 = Len(frames)
  BY TopFacts
<1> QED
  BY <1>1, TopFacts DEF StackShape

LEMMA Pop ==
    ASSUME TypeOK, StackShape, frames # <<>>, frames' = Below
    PROVE  StackOK({})
<1> DEFINE n == Len(frames)
<1>1. frames \in Seq(FrameType) /\ Frame("return", 0, NoUrb) \in FrameType
  BY DEF TypeOK, FrameType, Frame, Pcs, Xfers
<1>2. /\ n \in Nat /\ n >= 1 /\ DOMAIN frames = 1 .. n /\ Top = frames[n]
      /\ frames' \in Seq(FrameType) /\ Len(frames') = n - 1
      /\ DOMAIN frames' = 1 .. n - 1
      /\ \A i \in 1 .. n - 1 : frames'[i] = frames[i]
  BY <1>1, StackOps DEF Below, Top
<1> HIDE DEF n
<1>3. \A i \in 1 .. n - 2 : frames[i].pc \in {"start1", "return"}
  <2>1. \A i \in 1 .. n - 2 : i \in 1 .. n - 1 /\ i # n - 1
    BY <1>2
  <2> QED
    BY <2>1 DEF StackShape, n
<1>4. StackShape'
  BY <1>2, <1>3 DEF StackShape
<1>5. HandlerRight'
  <2> SUFFICES ASSUME frames' # <<>>
               PROVE  frames'[Len(frames')].pc # "handler"
    BY DEF HandlerRight
  <2>1. n - 1 \in 1 .. n - 1
    BY <1>2
  <2>2. frames[n - 1].pc \in {"start1", "return", "clear_setup", "clear_return"}
    BY <1>2, <2>1 DEF StackShape, n
  <2> QED
    BY <1>2, <2>1, <2>2
<1>6. StackStep({})
  BY <1>2 DEF StackStep, n
<1> QED
  BY <1>2, <1>4, <1>5, <1>6 DEF StackOK

LEMMA Replace ==
    ASSUME TypeOK, StackShape, frames # <<>>, Top.pc # "handler",
           NEW g \in FrameType, g.pc # "handler", frames' = Append(Below, g)
    PROVE  StackOK({g})
<1> DEFINE n == Len(frames)
<1>1. frames \in Seq(FrameType)
  BY DEF TypeOK, FrameType
<1>2. /\ n \in Nat /\ n >= 1 /\ DOMAIN frames = 1 .. n /\ Top = frames[n]
      /\ frames' \in Seq(FrameType) /\ Len(frames') = n
      /\ DOMAIN frames' = 1 .. n
      /\ \A i \in 1 .. n - 1 : frames'[i] = frames[i]
      /\ frames'[n] = g
  BY <1>1, StackOps DEF Below, Top
<1>3. \A i \in 1 .. n - 1 : frames[i].pc \in {"start1", "return"}
  BY BelowTop DEF n
<1> HIDE DEF n
<1>4. StackShape'
  BY <1>2, <1>3 DEF StackShape
<1>5. HandlerRight'
  BY <1>2 DEF HandlerRight
<1>6. StackStep({g})
  <2>1. n \in DOMAIN frames'
    BY <1>2
  <2>2. \A i \in DOMAIN frames' : i \in 1 .. n - 1 \/ i = n
    BY <1>2
  <2>3. \A i \in 1 .. n - 1 : i \in DOMAIN frames /\ i \in DOMAIN frames'
    BY <1>2
  <2> QED
    BY <1>2, <2>1, <2>2, <2>3 DEF StackStep, n
<1> QED
  BY <1>2, <1>4, <1>5, <1>6 DEF StackOK

(* HandlerRight' is left to the caller: it is about the rest of the state. *)
LEMMA Call ==
    ASSUME TypeOK, StackShape, frames # <<>>, Top.pc # "handler",
           NEW g \in FrameType, NEW h \in FrameType,
           \/ g.pc \in {"start1", "return"}
           \/ /\ g.pc \in {"clear_setup", "clear_return"}
              /\ h.pc = "handler" /\ g.urb = h.urb,
           frames' = Append(Append(Below, g), h)
    PROVE  /\ frames' \in Seq(FrameType) /\ StackShape' /\ StackStep({g, h})
           /\ Len(frames') > 1
           /\ frames'[Len(frames')] = h /\ frames'[Len(frames') - 1] = g
           /\ h.pc # "handler" => HandlerRight'
<1> DEFINE n == Len(frames)
<1>1. frames \in Seq(FrameType)
  BY DEF TypeOK, FrameType
<1>2. /\ n \in Nat /\ n >= 1 /\ DOMAIN frames = 1 .. n /\ Top = frames[n]
      /\ frames' \in Seq(FrameType) /\ Len(frames') = n + 1
      /\ DOMAIN frames' = 1 .. n + 1
      /\ \A i \in 1 .. n - 1 : frames'[i] = frames[i]
      /\ frames'[n] = g /\ frames'[n + 1] = h
  BY <1>1, StackOps DEF Below, Top
<1>3. \A i \in 1 .. n - 1 : frames[i].pc \in {"start1", "return"}
  BY BelowTop DEF n
<1> HIDE DEF n
<1>4. StackShape'
  <2> SUFFICES ASSUME NEW i \in 1 .. n
               PROVE  \/ frames'[i].pc \in {"start1", "return"}
                      \/ /\ i = n
                         /\ frames'[i].pc \in {"clear_setup", "clear_return"}
                         /\ frames'[i + 1].pc = "handler"
                         /\ frames'[i].urb = frames'[i + 1].urb
    BY <1>2 DEF StackShape
  <2>1. i = n \/ i \in 1 .. n - 1
    BY <1>2
  <2> QED
    BY <1>2, <1>3, <2>1
<1>5. h.pc # "handler" => HandlerRight'
  BY <1>2 DEF HandlerRight
<1>6. StackStep({g, h})
  <2>1. n \in DOMAIN frames' /\ n + 1 \in DOMAIN frames'
    BY <1>2
  <2>2. \A i \in DOMAIN frames' : i \in 1 .. n - 1 \/ i = n \/ i = n + 1
    BY <1>2
  <2>3. \A i \in DOMAIN frames : i \in 1 .. n - 1 \/ i = n
    BY <1>2
  <2>4. \A i \in 1 .. n - 1 : i \in DOMAIN frames /\ i \in DOMAIN frames'
    BY <1>2
  <2> QED
    BY <1>2, <2>1, <2>2, <2>3, <2>4 DEF StackStep, n
<1>7. Len(frames') - 1 = n /\ Len(frames') > 1
  BY <1>2
<1> QED
  BY <1>2, <1>4, <1>5, <1>6, <1>7

-----------------------------------------------------------------------------
(* Steps under the lock that leave list, transfers and URBs as they are.   *)
LEMMA QuietState ==
    ASSUME IInv,
           UNCHANGED <<queue, opened, priv, pending, cancel, status, hcpriv, owed,
                       reject, killer, asked>>,
           restart' \in [Xfers -> BOOLEAN], no_resubmit' \in [Urbs -> BOOLEAN],
           frames' \in Seq(FrameType)
    PROVE  /\ TypeOK' /\ OnePlace' /\ OwedRight' /\ PrivRight'
           /\ OnlyAskedAreReset' /\ KillRight'
<1>1. TypeOK'
  BY DEF IInv, TypeOK, FrameType
<1>2. OnePlace' /\ OwedRight' /\ PrivRight'
  BY DEF IInv, OnePlace, OwedRight, PrivRight, Active, Queued, InFlight
<1>3. OnlyAskedAreReset' /\ KillRight'
  BY DEF IInv, OnlyAskedAreReset, KillRight, Queued, InFlight
<1> QED
  BY <1>1, <1>2, <1>3

LEMMA FrameTyped ==
    ASSUME TypeOK, NEW i \in DOMAIN frames
    PROVE  frames[i] \in FrameType /\ frames[i].x \in Xfers
<1>1. frames \in Seq(FrameType)
  BY DEF TypeOK, FrameType
<1>2. frames[i] \in FrameType
  BY <1>1
<1> QED
  BY <1>2 DEF FrameType

LEMMA QuietFrames ==
    ASSUME IInv, UNCHANGED <<pending, cancel>>, NEW G, G \subseteq FrameType, StackStep(G),
           \A y \in Xfers : restart'[y] => restart[y] \/ cancel[y],
           \A g \in G : FrameRight(g)
    PROVE  FramesSound'
<1>1. \A i \in DOMAIN frames : frames[i].x \in Xfers /\ FrameRight(frames[i])
  BY FrameTyped DEF IInv, FramesRight, FramesSound
<1>2. \A i \in DOMAIN frames' : frames'[i].x \in Xfers /\ FrameRight(frames'[i])
  <2>1. \A g \in G : g.x \in Xfers
    BY DEF FrameType
  <2> QED
    BY <1>1, <2>1 DEF StackStep
<1>3. \A y \in Xfers : pending[y] /\ cancel[y] => restart[y]
  BY DEF IInv, CancelRight
<1> QED
  BY <1>2, <1>3 DEF FramesSound, FrameRight

LEMMA QuietFlag ==
    ASSUME IInv, UNCHANGED no_resubmit, NEW G, StackStep(G),
           Top.pc \notin {"clear_setup", "clear_return"}
    PROVE  ResubmitFlag'
BY DEF IInv, ResubmitFlag, StackStep

(* The frames that take the place of the innermost one do its work. *)
LEMMA QuietServed ==
    ASSUME IInv, UNCHANGED pending, queue' # <<>> => queue # <<>>, NEW G, StackStep(G),
           \A y \in Xfers : restart[y] => restart'[y],
           \A x \in Xfers : ~pending[x] /\ WillServe(Top, x, restart) => \E g \in G : WillServe(g, x, restart')
    PROVE  Served'
<1> SUFFICES ASSUME queue # <<>>, NEW x \in Xfers, ~pending[x]
             PROVE  \E i \in DOMAIN frames' : WillServe(frames'[i], x, restart')
  BY DEF Served
<1>1. PICK i \in DOMAIN frames : WillServe(frames[i], x, restart)
  BY DEF IInv, Served
<1>2. CASE i \in 1 .. Len(frames) - 1
  <2>1. i \in DOMAIN frames' /\ frames'[i] = frames[i]
    BY <1>2 DEF StackStep
  <2>2. frames[i].x \in Xfers
    BY FrameTyped DEF IInv
  <2>3. WillServe(frames[i], x, restart')
    BY <1>1, <2>1, <2>2 DEF WillServe
  <2> QED
    BY <2>1, <2>3
<1>3. CASE frames[i] = Top
  <2>1. PICK g \in G : WillServe(g, x, restart')
    BY <1>1, <1>3
  <2> QED
    BY <2>1 DEF StackStep, WillServe
<1> QED
  BY <1>2, <1>3 DEF StackStep

-----------------------------------------------------------------------------
(* Each step under the lock keeps the invariant. *)

LEMMA TypeFacts ==
    ASSUME TypeOK
    PROVE  /\ frames \in Seq(FrameType)
           /\ restart \in [Xfers -> BOOLEAN] /\ no_resubmit \in [Urbs -> BOOLEAN]
           /\ \A p \in Pcs, y \in Xfers, u \in Urbs \cup {NoUrb} :
                 /\ Frame(p, y, u) \in FrameType
                 /\ Frame(p, y, u).pc = p /\ Frame(p, y, u).x = y /\ Frame(p, y, u).urb = u
           /\ \A f \in FrameType : f.pc \in Pcs /\ f.x \in Xfers /\ f.urb \in Urbs \cup {NoUrb}
           /\ \A f \in FrameType, p \in Pcs :
                 /\ [f EXCEPT !.pc = p] \in FrameType
                 /\ [f EXCEPT !.pc = p].pc = p
                 /\ [f EXCEPT !.pc = p].x = f.x /\ [f EXCEPT !.pc = p].urb = f.urb
           /\ {"return", "tr_setup", "start1", "start0", "start_other", "handler",
               "clear_setup", "clear_return"} \subseteq Pcs
<1>1. /\ frames \in Seq(FrameType)
      /\ restart \in [Xfers -> BOOLEAN] /\ no_resubmit \in [Urbs -> BOOLEAN]
  BY DEF TypeOK, FrameType
<1> QED
  BY <1>1 DEF Frame, FrameType, Pcs

(* The innermost frame is right and of the type of frames. *)
LEMMA TopRight ==
    ASSUME IInv, ~Unlocked
    PROVE  /\ frames # <<>> /\ TypeOK /\ StackShape
           /\ Top \in FrameType /\ FrameRight(Top)
BY TopFacts DEF IInv, FramesRight, FramesSound, Unlocked

LEMMA HandlerReturnsKeeps ==
    ASSUME IInv, HandlerReturns
    PROVE  IInv'
<1>0. ~Unlocked
  BY DEF HandlerReturns
<1> USE <1>0, TopRight, TypeFacts
<1>1. StackOK({})
  BY Pop DEF HandlerReturns
<1>2. /\ TypeOK' /\ OnePlace' /\ OwedRight' /\ PrivRight'
      /\ OnlyAskedAreReset' /\ KillRight'
  BY <1>1, QuietState DEF HandlerReturns, xferVars, urbVars, StackOK
<1>3. FramesSound'
  BY <1>1, QuietFrames DEF HandlerReturns, xferVars, StackOK
<1>4. ResubmitFlag'
  BY <1>1, QuietFlag DEF HandlerReturns, urbVars, StackOK
<1>5. Served'
  <2>1. \A x \in Xfers : ~WillServe(Top, x, restart)
    BY DEF HandlerReturns, WillServe
  <2> QED
    BY <1>1, <2>1, QuietServed DEF HandlerReturns, xferVars, StackOK
<1>6. CancelRight'
  BY DEF HandlerReturns, xferVars, IInv, CancelRight
<1> QED
  BY <1>1, <1>2, <1>3, <1>4, <1>5, <1>6 DEF IInv, FramesRight, StackOK

LEMMA HandlerDoneKeeps ==
    ASSUME IInv, HandlerDone
    PROVE  IInv'
<1>0. ~Unlocked
  BY DEF HandlerDone
<1> USE <1>0, TopRight, TypeFacts
<1> DEFINE g == [Top EXCEPT !.pc = IF Top.pc = "clear_setup" THEN "tr_setup" ELSE "return"]
<1>1. /\ g \in FrameType /\ g.pc \in {"tr_setup", "return"}
      /\ g.x = Top.x /\ g.urb = Top.urb
      /\ g.pc = IF Top.pc = "clear_setup" THEN "tr_setup" ELSE "return"
  BY DEF HandlerDone
<1>2. frames' = Append(Below, g)
  BY DEF HandlerDone
<1> HIDE DEF g
<1>3. StackOK({g})
  BY <1>1, <1>2, Replace DEF HandlerDone
<1>4. /\ TypeOK' /\ OnePlace' /\ OwedRight' /\ PrivRight'
      /\ OnlyAskedAreReset' /\ KillRight'
  <2>1. no_resubmit' \in [Urbs -> BOOLEAN]
    BY DEF HandlerDone
  <2> QED
    BY <1>3, <2>1, QuietState DEF HandlerDone, xferVars, StackOK
<1>5. FramesSound'
  <2>1. FrameRight(g)
    BY <1>1 DEF FrameRight, HandlerDone, IdlePcs, CallbackPcs
  <2> QED
    BY <1>1, <1>3, <2>1, QuietFrames DEF HandlerDone, xferVars, StackOK
<1>6. ResubmitFlag'
  <2> SUFFICES ASSUME NEW u \in Urbs, no_resubmit'[u]
               PROVE  \E i \in DOMAIN frames' :
                          /\ frames'[i].pc \in {"clear_setup", "clear_return"}
                          /\ frames'[i].urb = u
    BY DEF ResubmitFlag
  <2>1. no_resubmit[u] /\ u # Top.urb
    BY DEF HandlerDone
  <2>2. PICK i \in DOMAIN frames : /\ frames[i].pc \in {"clear_setup", "clear_return"}
                                  /\ frames[i].urb = u
    BY <2>1 DEF IInv, ResubmitFlag
  <2> QED
    BY <1>3, <2>1, <2>2 DEF StackOK, StackStep
<1>7. Served'
  <2>1. \A x \in Xfers : WillServe(Top, x, restart) => WillServe(g, x, restart')
    BY <1>1 DEF HandlerDone, WillServe, xferVars
  <2> QED
    BY <1>3, <2>1, QuietServed DEF HandlerDone, xferVars, StackOK
<1>8. CancelRight'
  BY DEF HandlerDone, xferVars, IInv, CancelRight
<1> QED
  BY <1>3, <1>4, <1>5, <1>6, <1>7, <1>8 DEF IInv, FramesRight, StackOK

(* The steps that change nothing but the stack and restart requests. *)
LEMMA QuietStep ==
    ASSUME IInv, ~Unlocked,
           UNCHANGED <<queue, opened, priv, pending, cancel, urbVars, reject, killer, asked>>,
           restart' \in [Xfers -> BOOLEAN],
           \A y \in Xfers : restart'[y] => restart[y] \/ cancel[y],
           Top.pc \notin {"clear_setup", "clear_return"},
           NEW G, G \subseteq FrameType, StackOK(G), \A g \in G : FrameRight(g),
           Served', CancelRight'
    PROVE  IInv'
<1>1. /\ TypeOK' /\ OnePlace' /\ OwedRight' /\ PrivRight'
      /\ OnlyAskedAreReset' /\ KillRight'
  <2>1. no_resubmit' \in [Urbs -> BOOLEAN]
    BY DEF IInv, TypeOK, urbVars
  <2> QED
    BY <2>1, QuietState DEF urbVars, StackOK
<1>2. FramesSound'
  BY QuietFrames DEF StackOK
<1>3. ResubmitFlag'
  BY QuietFlag DEF urbVars, StackOK
<1> QED
  BY <1>1, <1>2, <1>3 DEF IInv, FramesRight, StackOK

(* libusb20_tr_start() asks for a restart only where a cancel is under way. *)
LEMMA TrStartKeeps ==
    ASSUME IInv, NEW y \in Xfers, NEW stack, tr_start(y, stack),
           UNCHANGED <<priv, pending, cancel, asked>>
    PROVE  /\ restart' \in [Xfers -> BOOLEAN]
           /\ \A z \in Xfers : restart'[z] => restart[z] \/ cancel[z]
           /\ \A z \in Xfers : restart[z] => restart'[z]
           /\ CancelRight'
           /\ frames' = IF pending[y] THEN stack ELSE Append(stack, Frame("tr_setup", y, NoUrb))
<1>1. restart \in [Xfers -> BOOLEAN] /\ cancel \in [Xfers -> BOOLEAN]
  BY DEF IInv, TypeOK
<1>2. restart' \in [Xfers -> BOOLEAN]
  BY <1>1 DEF tr_start
<1>3. \A z \in Xfers : restart'[z] => restart[z] \/ cancel[z]
  BY <1>1 DEF tr_start
<1>4. \A z \in Xfers : restart[z] => restart'[z]
  BY <1>1 DEF tr_start
<1>5. CancelRight'
  BY <1>4 DEF IInv, CancelRight
<1> QED
  BY <1>2, <1>3, <1>4, <1>5 DEF tr_start

LEMMA StartFirstKeeps ==
    ASSUME IInv, StartFirst
    PROVE  IInv'
<1>0. ~Unlocked
  BY DEF StartFirst
<1> USE <1>0, TopRight, TypeFacts
<1> DEFINE g == [Top EXCEPT !.pc = "start1"]
           h == Frame("tr_setup", 0, NoUrb)
<1>1. /\ g \in FrameType /\ g.pc = "start1" /\ g.x = Top.x /\ g.urb = Top.urb
      /\ h \in FrameType /\ h.pc = "tr_setup" /\ h.x = 0 /\ h.urb = NoUrb
  BY DEF Xfers, StartFirst
<1>2. /\ restart' \in [Xfers -> BOOLEAN]
      /\ \A z \in Xfers : restart'[z] => restart[z] \/ cancel[z]
      /\ \A z \in Xfers : restart[z] => restart'[z]
      /\ CancelRight'
      /\ frames' = IF pending[0] THEN Append(Below, g) ELSE Append(Append(Below, g), h)
  BY TrStartKeeps DEF StartFirst, Xfers
<1> HIDE DEF g, h
<1>3. FrameRight(g)
  BY <1>1 DEF FrameRight, IdlePcs, CallbackPcs
<1>4. CASE pending[0]
  <2>1. StackOK({g})
    BY <1>1, <1>2, <1>4, Replace DEF StartFirst
  <2>2. Served'
    <3>1. \A x \in Xfers : ~pending[x] => WillServe(g, x, restart')
      BY <1>1, <1>4 DEF WillServe, Xfers
    <3> QED
      BY <1>2, <2>1, <3>1, QuietServed DEF StartFirst, StackOK
  <2> QED
    BY <1>1, <1>2, <1>3, <2>1, <2>2, QuietStep DEF StartFirst
<1>5. CASE ~pending[0]
  <2>1. StackOK({g, h})
    BY <1>1, <1>2, <1>5, Call DEF StartFirst, StackOK
  <2>2. Served'
    <3>1. \A x \in Xfers : WillServe(h, x, restart')
      BY <1>1 DEF WillServe
    <3> QED
      BY <1>2, <2>1, <3>1, QuietServed DEF StartFirst, StackOK
  <2>3. FrameRight(h)
    BY <1>1, <1>5 DEF FrameRight, IdlePcs, CallbackPcs
  <2>4. {g, h} \subseteq FrameType /\ \A e \in {g, h} : FrameRight(e)
    BY <1>1, <1>3, <2>3
  <2> QED
    BY <1>2, <2>1, <2>2, <2>4, QuietStep DEF StartFirst
<1> QED
  BY <1>4, <1>5

LEMMA StartSecondKeeps ==
    ASSUME IInv, StartSecond
    PROVE  IInv'
<1>0. ~Unlocked
  BY DEF StartSecond
<1> USE <1>0, TopRight, TypeFacts
<1> DEFINE h == Frame("tr_setup", 1, NoUrb)
<1>1. h \in FrameType /\ h.pc = "tr_setup" /\ h.x = 1 /\ h.urb = NoUrb
  BY DEF Xfers
<1>2. /\ restart' \in [Xfers -> BOOLEAN]
      /\ \A z \in Xfers : restart'[z] => restart[z] \/ cancel[z]
      /\ \A z \in Xfers : restart[z] => restart'[z]
      /\ CancelRight'
      /\ frames' = IF pending[1] THEN Below ELSE Append(Below, h)
  BY TrStartKeeps DEF StartSecond, Xfers
<1> HIDE DEF h
<1>3. \A x \in Xfers : WillServe(Top, x, restart) => x = 1
  BY DEF WillServe, StartSecond
<1>4. CASE pending[1]
  <2>1. StackOK({})
    BY <1>2, <1>4, Pop
  <2>2. Served'
    BY <1>2, <1>3, <1>4, <2>1, QuietServed DEF StartSecond, StackOK
  <2>3. {} \subseteq FrameType /\ \A e \in {} : FrameRight(e)
    OBVIOUS
  <2> QED
    BY <1>2, <2>1, <2>2, <2>3, QuietStep DEF StartSecond
<1>5. CASE ~pending[1]
  <2>1. StackOK({h})
    BY <1>1, <1>2, <1>5, Replace DEF StartSecond
  <2>2. Served'
    <3>1. \A x \in Xfers : WillServe(h, x, restart')
      BY <1>1 DEF WillServe
    <3> QED
      BY <1>2, <2>1, <3>1, QuietServed DEF StartSecond, StackOK
  <2>3. {h} \subseteq FrameType /\ \A e \in {h} : FrameRight(e)
    BY <1>1, <1>5 DEF FrameRight, IdlePcs, CallbackPcs
  <2> QED
    BY <1>2, <2>1, <2>2, <2>3, QuietStep DEF StartSecond
<1> QED
  BY <1>4, <1>5

LEMMA StartOtherKeeps ==
    ASSUME IInv, StartOther
    PROVE  IInv'
<1>0. ~Unlocked
  BY DEF StartOther
<1> USE <1>0, TopRight, TypeFacts
<1> DEFINE y == Other(Top.x)
           g == [Top EXCEPT !.pc = "return"]
           h == Frame("tr_setup", y, NoUrb)
<1>1. Top.x \in Xfers /\ y \in Xfers /\ \A x \in Xfers : x # Top.x => x = y
  BY DEF Xfers, Other
<1> HIDE DEF y
<1>2. /\ g \in FrameType /\ g.pc = "return" /\ g.x = Top.x /\ g.urb = Top.urb
      /\ h \in FrameType /\ h.pc = "tr_setup" /\ h.x = y /\ h.urb = NoUrb
  BY <1>1 DEF StartOther
<1>3. /\ restart' \in [Xfers -> BOOLEAN]
      /\ \A z \in Xfers : restart'[z] => restart[z] \/ cancel[z]
      /\ \A z \in Xfers : restart[z] => restart'[z]
      /\ CancelRight'
      /\ frames' = IF pending[y] THEN Append(Below, g) ELSE Append(Append(Below, g), h)
  BY <1>1, TrStartKeeps DEF StartOther, y
<1> HIDE DEF g, h
<1>4. FrameRight(g)
  BY <1>2 DEF FrameRight, IdlePcs, CallbackPcs, StartOther
<1>5. \A x \in Xfers : WillServe(Top, x, restart) => x = y
  BY <1>1 DEF WillServe, StartOther
<1>6. CASE pending[y]
  <2>1. StackOK({g})
    BY <1>2, <1>3, <1>6, Replace DEF StartOther
  <2>2. Served'
    BY <1>3, <1>5, <1>6, <2>1, QuietServed DEF StartOther, StackOK
  <2>3. {g} \subseteq FrameType /\ \A e \in {g} : FrameRight(e)
    BY <1>2, <1>4
  <2> QED
    BY <1>3, <2>1, <2>2, <2>3, QuietStep DEF StartOther
<1>7. CASE ~pending[y]
  <2>1. StackOK({g, h})
    BY <1>2, <1>3, <1>7, Call DEF StartOther, StackOK
  <2>2. Served'
    <3>1. \A x \in Xfers : WillServe(h, x, restart')
      BY <1>2 DEF WillServe
    <3> QED
      BY <1>3, <2>1, <3>1, QuietServed DEF StartOther, StackOK
  <2>3. FrameRight(h)
    BY <1>2, <1>7 DEF FrameRight, IdlePcs, CallbackPcs
  <2>4. {g, h} \subseteq FrameType /\ \A e \in {g, h} : FrameRight(e)
    BY <1>2, <1>4, <2>3
  <2> QED
    BY <1>3, <2>1, <2>2, <2>4, QuietStep DEF StartOther
<1> QED
  BY <1>6, <1>7

LEMMA SetupNothingKeeps ==
    ASSUME IInv, SetupNothing
    PROVE  IInv'
<1>0. ~Unlocked
  BY DEF SetupNothing
<1> USE <1>0, TopRight, TypeFacts
<1> DEFINE g == [Top EXCEPT !.pc = "return"]
<1>1. g \in FrameType /\ g.pc = "return" /\ g.x = Top.x /\ g.urb = Top.urb
  BY DEF SetupNothing
<1>2. frames' = Append(Below, g)
  BY DEF SetupNothing
<1> HIDE DEF g
<1>3. StackOK({g})
  BY <1>1, <1>2, Replace DEF SetupNothing
<1>4. {g} \subseteq FrameType /\ \A e \in {g} : FrameRight(e)
  BY <1>1 DEF FrameRight, IdlePcs, CallbackPcs, SetupNothing
<1>5. Served' /\ CancelRight'
  BY DEF SetupNothing, Served, IInv, CancelRight, xferVars
<1> QED
  BY <1>3, <1>4, <1>5, QuietStep DEF SetupNothing, xferVars

LEMMA CallbackReturnsKeeps ==
    ASSUME IInv, CallbackReturns
    PROVE  IInv'
<1>0. ~Unlocked
  BY DEF CallbackReturns
<1> USE <1>0, TopRight, TypeFacts
<1> DEFINE g == Frame("tr_setup", Top.x, NoUrb)
<1>1. g \in FrameType /\ g.pc = "tr_setup" /\ g.x = Top.x /\ g.urb = NoUrb
  OBVIOUS
<1>2. frames' = IF restart[Top.x] THEN Append(Below, g) ELSE Below
  BY DEF CallbackReturns
<1> HIDE DEF g
<1>3. /\ restart' \in [Xfers -> BOOLEAN]
      /\ \A z \in Xfers : restart'[z] => restart[z]
  BY DEF CallbackReturns
<1>4. CancelRight'
  <2>1. ~(pending[Top.x] /\ restart[Top.x])
    BY DEF CallbackReturns, FrameRight, CallbackPcs
  <2> QED
    BY <2>1 DEF CallbackReturns, IInv, CancelRight
<1>5. CASE restart[Top.x]
  <2>1. StackOK({g})
    BY <1>1, <1>2, <1>5, Replace DEF CallbackReturns
  <2>2. Served'
    <3>1. \A x \in Xfers : WillServe(g, x, restart')
      BY <1>1 DEF WillServe
    <3> QED
      BY <2>1, <3>1 DEF Served, StackOK, StackStep
  <2>3. {g} \subseteq FrameType /\ \A e \in {g} : FrameRight(e)
    BY <1>1, <1>5 DEF FrameRight, IdlePcs, CallbackPcs, CallbackReturns
  <2> QED
    BY <1>3, <1>4, <2>1, <2>2, <2>3, QuietStep DEF CallbackReturns
<1>6. CASE ~restart[Top.x]
  <2>1. StackOK({})
    BY <1>2, <1>6, Pop
  <2>2. \A z \in Xfers : restart[z] => restart'[z]
    BY <1>6 DEF CallbackReturns
  <2>3. Served'
    <3>1. \A x \in Xfers : ~WillServe(Top, x, restart)
      BY <1>6 DEF WillServe, CallbackReturns
    <3> QED
      BY <2>1, <2>2, <3>1, QuietServed DEF CallbackReturns, StackOK
  <2>4. {} \subseteq FrameType /\ \A e \in {} : FrameRight(e)
    OBVIOUS
  <2> QED
    BY <1>3, <1>4, <2>1, <2>3, <2>4, QuietStep DEF CallbackReturns
<1> QED
  BY <1>5, <1>6

(* An URB moves from the head of the list into the idle transfer. *)
LEMMA SetupTransferKeeps ==
    ASSUME IInv, SetupTransfer
    PROVE  IInv'
<1>0. ~Unlocked
  BY DEF SetupTransfer
<1> USE <1>0, TopRight, TypeFacts, UrbAssumption
<1> DEFINE u == Head(queue)
           x == Top.x
           g == [Top EXCEPT !.pc = "start_other"]
<1>1. /\ g \in FrameType /\ g.pc = "start_other" /\ g.x = x /\ g.urb = Top.urb
      /\ x \in Xfers /\ Top.pc = "tr_setup"
  BY DEF SetupTransfer
<1>2. ~pending[x] /\ priv[x] = NoUrb
  BY <1>1 DEF FrameRight, IdlePcs, IInv, PrivRight
<1>3. /\ u \in Urbs /\ u # NoUrb
      /\ queue' \in Seq(Urbs) /\ Queued(u)
      /\ ToSet(queue') = ToSet(queue) \ {u} /\ Once(queue')
  <2>1. queue \in Seq(Urbs) /\ queue # <<>> /\ Once(queue) /\ queue' = Tail(queue)
    BY DEF SetupTransfer, IInv, TypeOK, OnePlace, Once
  <2> QED
    BY <2>1, RemoveHead DEF Queued
<1>4. /\ priv' = [priv EXCEPT ![x] = u]
      /\ pending' = [pending EXCEPT ![x] = TRUE]
      /\ cancel' = [cancel EXCEPT ![x] = FALSE]
      /\ restart' = [restart EXCEPT ![x] = FALSE]
      /\ frames' = Append(Below, g)
  <2>1. cancel \in [Xfers -> BOOLEAN] /\ restart \in [Xfers -> BOOLEAN]
    BY DEF IInv, TypeOK
  <2>2. (cancel[x] /\ pending[x]) = FALSE /\ (restart[x] /\ pending[x]) = FALSE
    BY <1>2
  <2> QED
    BY <2>2 DEF SetupTransfer, tr_submit
<1>5. UNCHANGED <<opened, status, hcpriv, no_resubmit, owed, reject, killer, asked>>
  BY DEF SetupTransfer, urbVars
<1> HIDE DEF u, x, g
<1>6. StackOK({g})
  BY <1>1, <1>4, Replace
<1> HIDE TypeFacts
<1>7. TypeOK'
  <2>1. /\ queue' \in Seq(Urbs) /\ priv' \in [Xfers -> Urbs \cup {NoUrb}]
        /\ pending' \in [Xfers -> BOOLEAN] /\ cancel' \in [Xfers -> BOOLEAN]
        /\ restart' \in [Xfers -> BOOLEAN]
    BY <1>1, <1>3, <1>4 DEF IInv, TypeOK
  <2> QED
    BY <1>5, <1>6, <2>1 DEF IInv, TypeOK, StackOK, FrameType
<1>8. /\ \A y \in Xfers : priv'[y] = IF y = x THEN u ELSE priv[y]
      /\ \A y \in Xfers : pending'[y] <=> y = x \/ pending[y]
      /\ \A y \in Xfers : cancel'[y] <=> y # x /\ cancel[y]
      /\ \A y \in Xfers : restart'[y] <=> y # x /\ restart[y]
  BY <1>1, <1>4 DEF IInv, TypeOK
<1>9. /\ \A v \in Urbs : Queued(v)' <=> Queued(v) /\ v # u
      /\ \A v \in Urbs : InFlight(v)' <=> InFlight(v) \/ v = u
  <2>1. \A v \in Urbs : Queued(v)' <=> Queued(v) /\ v # u
    BY <1>3 DEF Queued
  <2>2. ASSUME NEW v \in Urbs PROVE InFlight(v)' <=> InFlight(v) \/ v = u
    <3>1. v # NoUrb
      OBVIOUS
    <3>2. InFlight(v)' <=> \E y \in Xfers : priv'[y] = v
      BY DEF InFlight
    <3>3. InFlight(v) <=> \E y \in Xfers : priv[y] = v
      BY DEF InFlight
    <3>4. CASE v = u
      BY <1>1, <1>8, <3>2, <3>4
    <3>5. CASE v # u
      <4>1. \A y \in Xfers : priv'[y] = v <=> priv[y] = v
        BY <1>2, <1>8, <3>1, <3>5
      <4> QED
        BY <3>2, <3>3, <3>5, <4>1
    <3> QED
      BY <3>4, <3>5
  <2> QED
    BY <2>1, <2>2
<1>10. OnePlace'
  <2>1. ~InFlight(u)
    BY <1>3 DEF IInv, OnePlace
  <2>2. priv'[0] = priv'[1] => priv'[0] = NoUrb
    BY <1>1, <1>2, <1>8, <2>1 DEF InFlight, Xfers, IInv, OnePlace
  <2> QED
    BY <1>3, <1>9, <2>2 DEF IInv, OnePlace, Once
<1>11. OwedRight'
  <2>1. \A v \in Urbs : Active(v)' <=> Active(v)
    BY <1>3, <1>9 DEF Active
  <2> QED
    BY <1>5, <2>1 DEF IInv, OwedRight
<1>12. PrivRight'
  BY <1>3, <1>8 DEF IInv, PrivRight
<1>13. FramesSound'
  <2> SUFFICES ASSUME NEW i \in DOMAIN frames'
               PROVE  FrameRight(frames[i])'
    BY DEF FramesSound
  <2>1. CASE i \in 1 .. Len(frames) - 1 /\ frames'[i] = frames[i]
    <3>1. frames[i].pc \in {"start1", "return"}
      BY <1>1, <2>1, BelowTop
    <3>2. i \in DOMAIN frames
      BY <1>6, <2>1 DEF StackOK, StackStep
    <3>3. frames[i].x \in Xfers /\ FrameRight(frames[i])
      BY <3>2, FrameTyped DEF IInv, FramesRight, FramesSound
    <3> QED
      BY <1>8, <2>1, <3>1, <3>3 DEF FrameRight, IdlePcs, CallbackPcs
  <2>2. CASE frames'[i] = g
    BY <1>1, <1>8, <2>2 DEF FrameRight, IdlePcs, CallbackPcs
  <2> QED
    BY <1>6, <2>1, <2>2 DEF StackOK, StackStep
<1>14. ResubmitFlag'
  BY <1>1, <1>5, <1>6, QuietFlag DEF StackOK
<1>15. Served'
  <2>1. \A y \in Xfers : y # x => WillServe(g, y, restart')
    BY <1>1 DEF WillServe
  <2> QED
    BY <1>6, <1>8, <2>1 DEF Served, StackOK, StackStep
<1>16. CancelRight'
  BY <1>5, <1>8 DEF IInv, CancelRight
<1>17. OnlyAskedAreReset'
  BY <1>5 DEF IInv, OnlyAskedAreReset
<1>18. KillRight'
  <2>1. killer' = killer /\ reject' = reject
    BY <1>5
  <2>2. killer.blocked => killer.urb \in Urbs /\ ~Queued(killer.urb) /\ killer.urb # u
    BY <1>3 DEF IInv, KillRight
  <2> QED
    BY <1>8, <1>9, <2>1, <2>2 DEF IInv, KillRight
<1> QED
  BY <1>6, <1>7, <1>10, <1>11, <1>12, <1>13, <1>14, <1>15, <1>16, <1>17, <1>18
     DEF IInv, FramesRight, StackOK

-----------------------------------------------------------------------------
(* The fields that the code sets before it calls the handler, for an URB   *)
(* that leaves its place.                                                  *)
LEMMA HandBackFields ==
    ASSUME TypeOK, NEW u \in Urbs, NEW st \in Statuses, NEW nr \in BOOLEAN, HandBack(u, st, nr)
    PROVE  /\ status' \in [Urbs -> Statuses] /\ hcpriv' \in [Urbs -> BOOLEAN]
           /\ no_resubmit' \in [Urbs -> BOOLEAN] /\ owed' \in [Urbs -> Int]
           /\ \A v \in Urbs : /\ status'[v] = IF v = u THEN st ELSE status[v]
                              /\ no_resubmit'[v] = IF v = u THEN nr ELSE no_resubmit[v]
                              /\ owed'[v] = IF v = u THEN owed[v] - 1 ELSE owed[v]
                              /\ hcpriv'[v] <=> v # u /\ hcpriv[v]
<1>1. /\ status' \in [Urbs -> Statuses] /\ hcpriv' \in [Urbs -> BOOLEAN]
      /\ no_resubmit' \in [Urbs -> BOOLEAN] /\ owed' \in [Urbs -> Int]
  BY DEF HandBack, TypeOK
<1> QED
  BY <1>1 DEF HandBack, TypeOK

LEMMA HandBackOwed ==
    ASSUME IInv, NEW u \in Urbs, NEW st \in Statuses, NEW nr \in BOOLEAN, HandBack(u, st, nr),
           Active(u), \A v \in Urbs : Active(v)' <=> Active(v) /\ v # u
    PROVE  OwedRight'
<1> SUFFICES ASSUME NEW v \in Urbs
             PROVE  /\ owed'[v] = IF Active(v)' THEN 1 ELSE 0
                    /\ hcpriv'[v] <=> Active(v)'
  BY DEF OwedRight
<1>1. /\ owed[v] = IF Active(v) THEN 1 ELSE 0
      /\ hcpriv[v] <=> Active(v)
  BY DEF IInv, OwedRight
<1>2. /\ owed'[v] = IF v = u THEN owed[v] - 1 ELSE owed[v]
      /\ hcpriv'[v] <=> v # u /\ hcpriv[v]
  BY HandBackFields DEF IInv
<1>3. CASE v = u
  <2>1. owed[v] = 1 /\ ~Active(v)'
    BY <1>1, <1>3
  <2>2. owed'[v] = 0 /\ ~hcpriv'[v]
    BY <1>2, <1>3, <2>1
  <2> QED
    BY <2>1, <2>2
<1>4. CASE v # u
  BY <1>1, <1>2, <1>4
<1> QED
  BY <1>3, <1>4

(* An URB of the list is taken off and handed back. *)
LEMMA ListHandBack ==
    ASSUME IInv, NEW u \in Urbs, Queued(u),
           queue' \in Seq(Urbs), ToSet(queue') = ToSet(queue) \ {u}, Once(queue'),
           NEW st \in Statuses, NEW nr \in BOOLEAN, HandBack(u, st, nr),
           UNCHANGED <<priv, pending>>
    PROVE  /\ OnePlace' /\ OwedRight' /\ PrivRight'
           /\ \A v \in Urbs : Queued(v)' <=> Queued(v) /\ v # u
           /\ \A v \in Urbs : InFlight(v)' <=> InFlight(v)
           /\ ~Active(u)'
           /\ status' \in [Urbs -> Statuses] /\ hcpriv' \in [Urbs -> BOOLEAN]
           /\ no_resubmit' \in [Urbs -> BOOLEAN] /\ owed' \in [Urbs -> Int]
           /\ \A v \in Urbs : /\ status'[v] = IF v = u THEN st ELSE status[v]
                              /\ no_resubmit'[v] = IF v = u THEN nr ELSE no_resubmit[v]
<1>1. \A v \in Urbs : Queued(v)' <=> Queued(v) /\ v # u
  BY DEF Queued
<1>2. \A v \in Urbs : InFlight(v)' <=> InFlight(v)
  BY DEF InFlight
<1>3. ~InFlight(u)
  BY DEF IInv, OnePlace
<1>4. OnePlace'
  BY <1>1, <1>2 DEF IInv, OnePlace, Once
<1>5. \A v \in Urbs : Active(v)' <=> Active(v) /\ v # u
  BY <1>1, <1>2, <1>3 DEF Active
<1>6. /\ status' \in [Urbs -> Statuses] /\ hcpriv' \in [Urbs -> BOOLEAN]
      /\ no_resubmit' \in [Urbs -> BOOLEAN] /\ owed' \in [Urbs -> Int]
      /\ \A v \in Urbs : /\ status'[v] = IF v = u THEN st ELSE status[v]
                         /\ no_resubmit'[v] = IF v = u THEN nr ELSE no_resubmit[v]
  BY HandBackFields DEF IInv
<1>7. Active(u)
  BY DEF Active
<1>8. OwedRight'
  BY <1>5, <1>7, HandBackOwed
<1>9. PrivRight'
  BY DEF IInv, PrivRight
<1> QED
  BY <1>1, <1>2, <1>4, <1>5, <1>6, <1>8, <1>9

LEMMA SetupTooBigKeeps ==
    ASSUME IInv, SetupTooBig
    PROVE  IInv'
<1>0. ~Unlocked
  BY DEF SetupTooBig
<1> USE <1>0, TopRight, TypeFacts, UrbAssumption
<1> DEFINE x == Top.x
<1>1. x \in Xfers /\ Top.pc = "tr_setup"
  BY DEF SetupTooBig
<1>2. ~pending[x] /\ priv[x] = NoUrb
  BY <1>1 DEF FrameRight, IdlePcs, IInv, PrivRight
<1>3. PICK u \in Urbs :
        /\ u = Head(queue) /\ queue' \in Seq(Urbs) /\ Queued(u)
        /\ ToSet(queue') = ToSet(queue) \ {u} /\ Once(queue')
  <2>1. queue \in Seq(Urbs) /\ queue # <<>> /\ Once(queue) /\ queue' = Tail(queue)
    BY DEF SetupTooBig, IInv, TypeOK, OnePlace, Once
  <2> QED
    BY <2>1, RemoveHead DEF Queued
<1>4. PICK g \in FrameType : g = Frame("clear_setup", x, u)
  BY <1>1
<1>5. PICK h \in FrameType : h = Frame("handler", x, u)
  BY <1>1
<1>6. /\ g.pc = "clear_setup" /\ g.x = x /\ g.urb = u
      /\ h.pc = "handler" /\ h.x = x /\ h.urb = u
  BY <1>1, <1>4, <1>5
<1>7. frames' = Append(Append(Below, g), h)
  <2>1. frames' = Below \o <<g, h>>
    BY <1>3, <1>4, <1>5 DEF SetupTooBig
  <2>2. Below \in Seq(FrameType)
    BY <1>4, StackOps DEF Below
  <2> QED
    BY <2>1, <2>2
<1>8. /\ frames' \in Seq(FrameType) /\ StackShape' /\ StackStep({g, h})
      /\ Len(frames') > 1
      /\ frames'[Len(frames')] = h /\ frames'[Len(frames') - 1] = g
  <2>1. Top.pc # "handler"
    BY <1>1
  <2>2. \/ g.pc \in {"start1", "return"}
        \/ /\ g.pc \in {"clear_setup", "clear_return"}
           /\ h.pc = "handler" /\ g.urb = h.urb
    BY <1>6
  <2> HIDE TypeFacts
  <2> QED
    BY <1>7, <2>1, <2>2, Call
<1> HIDE TypeFacts
<1>9. priv' = priv
  <2>1. priv \in [Xfers -> Urbs \cup {NoUrb}]
    BY DEF IInv, TypeOK
  <2> QED
    BY <1>1, <1>2, <2>1 DEF SetupTooBig, usb_linux_complete
<1>10. HandBack(u, "EFBIG", TRUE)
  BY <1>3 DEF SetupTooBig, usb_linux_complete
<1>11. UNCHANGED <<opened, pending, cancel, restart, reject, killer, asked>>
  BY DEF SetupTooBig
<1>12. /\ OnePlace' /\ OwedRight' /\ PrivRight'
       /\ \A v \in Urbs : Queued(v)' <=> Queued(v) /\ v # u
       /\ \A v \in Urbs : InFlight(v)' <=> InFlight(v)
       /\ ~Active(u)'
       /\ status' \in [Urbs -> Statuses] /\ hcpriv' \in [Urbs -> BOOLEAN]
       /\ no_resubmit' \in [Urbs -> BOOLEAN] /\ owed' \in [Urbs -> Int]
       /\ \A v \in Urbs : /\ status'[v] = IF v = u THEN "EFBIG" ELSE status[v]
                          /\ no_resubmit'[v] = IF v = u THEN TRUE ELSE no_resubmit[v]
  <2>1. "EFBIG" \in Statuses /\ TRUE \in BOOLEAN
    BY DEF Statuses
  <2> QED
    BY <1>3, <1>9, <1>10, <1>11, <2>1, ListHandBack
<1>13. TypeOK'
  BY <1>3, <1>8, <1>9, <1>11, <1>12 DEF IInv, TypeOK, FrameType
<1>14. HandlerRight'
  <2>1. /\ (Active(frames[Len(frames)].urb))' <=> Active(u)'
        /\ no_resubmit'[u]
    BY <1>6, <1>8, <1>12 DEF Active, Queued, InFlight
  <2> QED
    BY <1>6, <1>8, <1>12, <2>1 DEF HandlerRight
<1>15. FramesSound'
  <2>1. FrameRight(g) /\ FrameRight(h)
    BY <1>2, <1>6 DEF FrameRight, IdlePcs, CallbackPcs
  <2>2. {g, h} \subseteq FrameType /\ \A e \in {g, h} : FrameRight(e)
    BY <2>1
  <2> QED
    BY <1>8, <1>11, <2>2, QuietFrames
<1>16. ResubmitFlag'
  <2> SUFFICES ASSUME NEW v \in Urbs, no_resubmit'[v]
               PROVE  \E i \in DOMAIN frames' :
                          /\ frames'[i].pc \in {"clear_setup", "clear_return"}
                          /\ frames'[i].urb = v
    BY DEF ResubmitFlag
  <2>1. CASE v = u
    BY <1>6, <1>8, <2>1 DEF StackStep
  <2>2. CASE v # u
    <3>1. no_resubmit[v]
      BY <1>12, <2>2
    <3>2. PICK i \in DOMAIN frames :
             frames[i].pc \in {"clear_setup", "clear_return"} /\ frames[i].urb = v
      BY <3>1 DEF IInv, ResubmitFlag
    <3> QED
      BY <1>1, <1>8, <3>2 DEF StackStep
  <2> QED
    BY <2>1, <2>2
<1>17. Served'
  <2>1. \A y \in Xfers : WillServe(g, y, restart')
    BY <1>6 DEF WillServe
  <2> QED
    BY <1>8, <2>1 DEF Served, StackStep
<1>18. CancelRight' /\ OnlyAskedAreReset'
  BY <1>9, <1>11, <1>12 DEF IInv, CancelRight, OnlyAskedAreReset
<1>19. KillRight'
  BY <1>9, <1>11, <1>12 DEF IInv, KillRight
<1> QED
  BY <1>8, <1>12, <1>13, <1>14, <1>15, <1>16, <1>17, <1>18, <1>19 DEF IInv, FramesRight

-----------------------------------------------------------------------------
(* The event thread reports the end of a transfer. *)
LEMMA XferEndsKeeps ==
    ASSUME IInv, NEW x \in Xfers, NEW st \in {"ok", "EPIPE", "ECONNRESET"}, XferEnds(x, st)
    PROVE  IInv'
<1>0. TypeOK /\ frames = <<>> /\ pending[x]
  BY DEF IInv, XferEnds, Unlocked
<1> USE <1>0, UrbAssumption
<1>1. PICK u \in Urbs : u = priv[x]
  <2>1. priv[x] # NoUrb /\ priv[x] \in Urbs \cup {NoUrb}
    BY DEF IInv, PrivRight, TypeOK
  <2> QED
    BY <2>1
<1>2. PICK g \in FrameType : g = Frame(NextPc(st), x, u)
  <2>1. NextPc(st) \in Pcs
    BY DEF NextPc, Pcs
  <2> QED
    BY <1>1, <2>1, TypeFacts
<1>3. PICK h \in FrameType : h = Frame("handler", x, u)
  BY <1>1 DEF Frame, FrameType, Pcs
<1>4. /\ g.pc = NextPc(st) /\ g.x = x /\ g.urb = u
      /\ h.pc = "handler" /\ h.x = x /\ h.urb = u
      /\ g.pc \in {"clear_setup", "clear_return"}
  BY <1>2, <1>3 DEF Frame, NextPc
<1>5. /\ frames' = <<g, h>>
      /\ HandBack(u, st, TRUE)
      /\ priv' = [priv EXCEPT ![x] = NoUrb]
      /\ pending' = [pending EXCEPT ![x] = FALSE]
      /\ st = "ECONNRESET" => cancel[x]
      /\ UNCHANGED <<queue, opened, cancel, restart, reject, killer, asked>>
  BY <1>1, <1>2, <1>3 DEF XferEnds, usb_linux_complete
<1>6. /\ frames' \in Seq(FrameType) /\ Len(frames') = 2 /\ DOMAIN frames' = {1, 2}
      /\ frames'[1] = g /\ frames'[2] = h
  BY <1>5
<1>7. /\ status' \in [Urbs -> Statuses] /\ hcpriv' \in [Urbs -> BOOLEAN]
      /\ no_resubmit' \in [Urbs -> BOOLEAN] /\ owed' \in [Urbs -> Int]
      /\ \A v \in Urbs : /\ status'[v] = IF v = u THEN st ELSE status[v]
                         /\ no_resubmit'[v] = IF v = u THEN TRUE ELSE no_resubmit[v]
  <2>1. st \in Statuses /\ TRUE \in BOOLEAN
    BY DEF Statuses
  <2> QED
    BY <1>5, <2>1, HandBackFields
<1>8. \A y \in Xfers : /\ priv'[y] = IF y = x THEN NoUrb ELSE priv[y]
                       /\ pending'[y] <=> y # x /\ pending[y]
  BY <1>5 DEF TypeOK
<1>9. TypeOK'
  <2>1. priv' \in [Xfers -> Urbs \cup {NoUrb}] /\ pending' \in [Xfers -> BOOLEAN]
    BY <1>5 DEF TypeOK
  <2> QED
    BY <1>5, <1>6, <1>7, <2>1 DEF TypeOK, FrameType
<1>10. /\ \A v \in Urbs : Queued(v)' <=> Queued(v)
       /\ \A v \in Urbs : InFlight(v)' <=> InFlight(v) /\ v # u
  <2>1. \A y \in Xfers : y # x => priv[y] # u
    BY <1>1 DEF IInv, OnePlace, Xfers
  <2>2. ASSUME NEW v \in Urbs PROVE InFlight(v)' <=> InFlight(v) /\ v # u
    <3>1. v # NoUrb
      OBVIOUS
    <3>2. /\ InFlight(v)' <=> \E y \in Xfers : priv'[y] = v
          /\ InFlight(v) <=> \E y \in Xfers : priv[y] = v
      BY DEF InFlight
    <3>3. \A y \in Xfers : priv'[y] = v <=> priv[y] = v /\ v # u
      BY <1>1, <1>8, <2>1, <3>1
    <3> QED
      BY <3>2, <3>3
  <2> QED
    BY <1>5, <2>2 DEF Queued
<1>11. InFlight(u) /\ ~Queued(u)
  <2>1. InFlight(u)
    BY <1>1 DEF InFlight
  <2> QED
    BY <2>1 DEF IInv, OnePlace
<1>12. \A v \in Urbs : Active(v)' <=> Active(v) /\ v # u
  BY <1>10, <1>11 DEF Active
<1>13. OnePlace'
  <2>1. priv'[0] = priv'[1] => priv'[0] = NoUrb
    BY <1>8 DEF IInv, OnePlace, Xfers
  <2> QED
    BY <1>5, <1>10, <2>1 DEF IInv, OnePlace
<1>14. OwedRight'
  <2>1. st \in Statuses /\ Active(u)
    BY <1>11 DEF Statuses, Active
  <2> QED
    BY <1>5, <1>12, <2>1, HandBackOwed
<1>15. PrivRight'
  BY <1>8 DEF IInv, PrivRight
<1>16. StackShape'
  BY <1>4, <1>6 DEF StackShape
<1>17. FramesSound'
  BY <1>4, <1>6, <1>8 DEF FramesSound, FrameRight, IdlePcs, CallbackPcs
<1>18. HandlerRight'
  <2>1. (Active(frames[Len(frames)].urb))' <=> Active(u)'
    BY <1>4, <1>6 DEF Active, Queued, InFlight
  <2>2. ~Active(u)'
    BY <1>12
  <2>3. status'[u] = "ECONNRESET" \/ (g.pc = "clear_setup" /\ no_resubmit'[u])
    BY <1>4, <1>7 DEF NextPc
  <2> QED
    BY <1>4, <1>6, <2>1, <2>2, <2>3 DEF HandlerRight
<1>19. ResubmitFlag'
  <2>1. \A v \in Urbs : ~no_resubmit[v]
    BY DEF IInv, ResubmitFlag
  <2> QED
    BY <1>4, <1>6, <1>7, <2>1 DEF ResubmitFlag
<1>20. Served'
  <2>1. g.pc = "clear_return" => restart[x]
    BY <1>4, <1>5 DEF IInv, CancelRight, NextPc
  <2>2. \A y \in Xfers : WillServe(g, y, restart')
    BY <1>4, <1>5, <2>1 DEF WillServe
  <2> QED
    BY <1>6, <2>2 DEF Served
<1>21. CancelRight'
  BY <1>5, <1>8 DEF IInv, CancelRight
<1>22. OnlyAskedAreReset'
  <2>1. st = "ECONNRESET" => asked[u]
    BY <1>1, <1>5 DEF IInv, CancelRight
  <2> QED
    BY <1>5, <1>7, <2>1 DEF IInv, OnlyAskedAreReset
<1>23. KillRight'
  <2>1. killer.blocked => killer.urb \in Urbs /\ killer.urb # NoUrb
    BY DEF IInv, KillRight
  <2> QED
    BY <1>5, <1>8, <1>10, <2>1 DEF IInv, KillRight
<1> QED
  BY <1>9, <1>13, <1>14, <1>15, <1>16, <1>17, <1>18, <1>19, <1>20, <1>21, <1>22, <1>23
     DEF IInv, FramesRight

-----------------------------------------------------------------------------
(* usb_submit_urb(), whatever it returns to. *)
LEMMA SubmitState ==
    ASSUME IInv, NEW u \in Urbs, ~InFlight(u), NEW stack, Submit(u, stack),
           UNCHANGED <<priv, pending, cancel, restart, reject, killer>>,
           frames' \in Seq(FrameType)
    PROVE  /\ TypeOK' /\ OnePlace' /\ OwedRight' /\ PrivRight' /\ CancelRight'
           /\ OnlyAskedAreReset' /\ KillRight' /\ UNCHANGED no_resubmit
<1> USE DEF IInv
<1>1. PrivRight'
  BY DEF PrivRight
<1>2. UNCHANGED no_resubmit
  BY DEF Submit, urbVars
<1>3. \A v \in Urbs : InFlight(v)' <=> InFlight(v)
  BY DEF InFlight
<1>4. CASE UNCHANGED <<queue, opened, urbVars, asked>>
  <2>1. TypeOK'
    BY <1>4 DEF urbVars, TypeOK, FrameType
  <2>2. OnePlace' /\ OwedRight'
    BY <1>4 DEF urbVars, OnePlace, OwedRight, Active, Queued, InFlight
  <2>3. CancelRight' /\ OnlyAskedAreReset' /\ KillRight'
    BY <1>4 DEF urbVars, CancelRight, OnlyAskedAreReset, KillRight, Queued, InFlight
  <2> QED
    BY <1>1, <1>2, <2>1, <2>2, <2>3
<1>5. CASE /\ ~Rejected(u) /\ Queued(u)
           /\ opened' = TRUE /\ hcpriv' = [hcpriv EXCEPT ![u] = TRUE]
           /\ UNCHANGED <<queue, status, owed, asked>>
  <2>1. TypeOK'
    BY <1>2, <1>5 DEF TypeOK, FrameType
  <2>2. OnePlace' /\ OwedRight'
    BY <1>5 DEF TypeOK, OnePlace, OwedRight, Active, Queued, InFlight
  <2>3. CancelRight' /\ OnlyAskedAreReset' /\ KillRight'
    BY <1>5 DEF CancelRight, OnlyAskedAreReset, KillRight, Queued, InFlight
  <2> QED
    BY <1>1, <1>2, <2>1, <2>2, <2>3
<1>6. CASE /\ ~Rejected(u) /\ ~Queued(u)
           /\ opened' = TRUE /\ hcpriv' = [hcpriv EXCEPT ![u] = TRUE]
           /\ queue' = Append(queue, u)
           /\ status' = [status EXCEPT ![u] = "EINPROGRESS"]
           /\ owed' = [owed EXCEPT ![u] = @ + 1]
           /\ asked' = [asked EXCEPT ![u] = FALSE]
  <2>1. queue' \in Seq(Urbs) /\ ToSet(queue') = ToSet(queue) \cup {u} /\ Once(queue')
    <3>1. queue \in Seq(Urbs) /\ Once(queue) /\ u \notin ToSet(queue)
      BY <1>6 DEF TypeOK, OnePlace, Once, Queued
    <3> QED
      BY <1>6, <3>1, InsertTail
  <2>2. TypeOK'
    <3>1. /\ status' \in [Urbs -> Statuses] /\ hcpriv' \in [Urbs -> BOOLEAN]
          /\ owed' \in [Urbs -> Int] /\ asked' \in [Urbs -> BOOLEAN] /\ opened' \in BOOLEAN
      BY <1>6 DEF TypeOK, Statuses
    <3> QED
      BY <1>2, <2>1, <3>1 DEF TypeOK, FrameType
  <2>3. \A v \in Urbs : /\ status'[v] = IF v = u THEN "EINPROGRESS" ELSE status[v]
                        /\ owed'[v] = IF v = u THEN owed[v] + 1 ELSE owed[v]
                        /\ hcpriv'[v] <=> v = u \/ hcpriv[v]
                        /\ asked'[v] <=> v # u /\ asked[v]
    BY <1>6 DEF TypeOK
  <2>4. \A v \in Urbs : Queued(v)' <=> Queued(v) \/ v = u
    BY <2>1 DEF Queued
  <2>5. OnePlace'
    BY <1>3, <2>1, <2>4 DEF OnePlace, Once
  <2>6. OwedRight'
    <3> SUFFICES ASSUME NEW v \in Urbs
                 PROVE  /\ owed'[v] = IF Active(v)' THEN 1 ELSE 0
                        /\ hcpriv'[v] <=> Active(v)'
      BY DEF OwedRight
    <3>1. owed[v] = (IF Active(v) THEN 1 ELSE 0) /\ (hcpriv[v] <=> Active(v))
      BY DEF OwedRight
    <3>2. Active(v)' <=> Active(v) \/ v = u
      BY <1>3, <2>4 DEF Active
    <3>3. CASE v = u
      <4>1. ~Active(v) /\ owed[v] = 0
        BY <1>6, <3>1, <3>3 DEF Active
      <4>2. owed'[v] = 1
        BY <2>3, <3>3, <4>1
      <4> QED
        BY <2>3, <3>2, <3>3, <4>2
    <3>4. CASE v # u
      BY <2>3, <3>1, <3>2, <3>4
    <3> QED
      BY <3>3, <3>4
  <2>7. CancelRight'
    <3>1. \A y \in Xfers : pending[y] => priv[y] \in Urbs /\ priv[y] # u
      BY DEF PrivRight, TypeOK, InFlight
    <3> QED
      BY <2>3, <3>1 DEF CancelRight
  <2>8. OnlyAskedAreReset'
    BY <2>3 DEF OnlyAskedAreReset
  <2>9. KillRight'
    <3>1. killer.blocked => killer.urb # u /\ killer.urb \in Urbs
      BY <1>6 DEF KillRight, Rejected
    <3> QED
      BY <1>3, <2>4, <3>1 DEF KillRight
  <2> QED
    BY <1>1, <1>2, <2>2, <2>5, <2>6, <2>7, <2>8, <2>9
<1> QED
  BY <1>4, <1>5, <1>6 DEF Submit

LEMMA HandlerResubmitsKeeps ==
    ASSUME IInv, HandlerResubmits
    PROVE  IInv'
<1>0. ~Unlocked
  BY DEF HandlerResubmits
<1> USE <1>0, TopRight
<1>1. /\ Top = frames[Len(frames)] /\ Top.pc = "handler" /\ status[Top.urb] # "ECONNRESET"
      /\ Len(frames) \in DOMAIN frames /\ Len(frames) \in Nat
  BY TopFacts DEF HandlerResubmits, HandlerSubmits
<1>2. PICK u \in Urbs : u = Top.urb
  BY <1>1 DEF FrameRight
<1>3. /\ ~Active(u) /\ Len(frames) > 1
      /\ frames[Len(frames) - 1].pc = "clear_setup" /\ no_resubmit[u]
  BY <1>1, <1>2 DEF IInv, FramesRight, HandlerRight
<1>4. Submit(u, Below) /\ UNCHANGED <<priv, pending, cancel, restart, reject, killer>>
  BY <1>2 DEF HandlerResubmits, HandlerSubmits
<1>5. frames' = Below
  BY <1>3, <1>4 DEF Submit, StartsTransfers
<1>6. StackOK({})
  BY <1>5, Pop
<1>7. /\ TypeOK' /\ OnePlace' /\ OwedRight' /\ PrivRight' /\ CancelRight'
      /\ OnlyAskedAreReset' /\ KillRight' /\ UNCHANGED no_resubmit
  <2>1. ~InFlight(u)
    BY <1>3 DEF Active
  <2> QED
    BY <1>4, <1>6, <2>1, SubmitState DEF StackOK
<1>8. FramesSound'
  BY <1>4, <1>6, QuietFrames DEF StackOK
<1>9. ResubmitFlag'
  BY <1>1, <1>6, <1>7, QuietFlag DEF StackOK
<1>10. Served'
  <2>1. Len(frames) - 1 \in 1 .. Len(frames) - 1
    BY <1>1, <1>3
  <2>2. \E i \in DOMAIN frames' : frames'[i].pc = "clear_setup"
    BY <1>3, <1>6, <2>1 DEF StackOK, StackStep
  <2> QED
    BY <2>2 DEF Served, WillServe
<1> QED
  BY <1>6, <1>7, <1>8, <1>9, <1>10 DEF IInv, FramesRight, StackOK

LEMMA SubmitKeeps ==
    ASSUME IInv, NEW u \in Urbs, usb_submit_urb(u)
    PROVE  IInv'
<1>1. /\ frames = <<>> /\ ~InFlight(u) /\ Submit(u, <<>>)
      /\ UNCHANGED <<priv, pending, cancel, restart, reject, killer>>
  BY DEF usb_submit_urb, Unlocked
<1>2. \A v \in Urbs : ~no_resubmit[v]
  BY <1>1 DEF IInv, ResubmitFlag
<1>3. PICK g \in FrameType : g = Frame("start0", 0, u)
  BY DEF Frame, FrameType, Pcs, Xfers
<1>4. g.pc = "start0" /\ g.x = 0 /\ g.urb = u
  BY <1>3 DEF Frame
<1>5. (frames' = <<>> /\ queue' = queue) \/ frames' = <<g>>
  <2>1. Append(<<>>, g) = <<g>>
    OBVIOUS
  <2> QED
    BY <1>1, <1>2, <1>3, <2>1 DEF Submit, StartsTransfers
<1>6. /\ frames' \in Seq(FrameType)
      /\ \/ frames' = <<>> /\ queue' = queue /\ DOMAIN frames' = {} /\ Len(frames') = 0
         \/ Len(frames') = 1 /\ DOMAIN frames' = {1} /\ frames'[1] = g
  <2>1. CASE frames' = <<>> /\ queue' = queue
    BY <2>1
  <2>2. CASE frames' = <<g>>
    BY <2>2
  <2> QED
    BY <1>5, <2>1, <2>2
<1>7. /\ TypeOK' /\ OnePlace' /\ OwedRight' /\ PrivRight' /\ CancelRight'
      /\ OnlyAskedAreReset' /\ KillRight' /\ UNCHANGED no_resubmit
  BY <1>1, <1>6, SubmitState
<1>8. StackShape' /\ HandlerRight'
  BY <1>4, <1>6 DEF StackShape, HandlerRight
<1>9. FramesSound'
  BY <1>4, <1>6 DEF FramesSound, FrameRight, IdlePcs, CallbackPcs
<1>10. ResubmitFlag'
  BY <1>2, <1>7 DEF ResubmitFlag
<1>11. Served'
  <2>1. CASE frames' = <<>> /\ queue' = queue
    BY <1>1, <2>1 DEF Served, IInv
  <2>2. CASE DOMAIN frames' = {1} /\ frames'[1] = g
    BY <1>4, <2>2 DEF Served, WillServe
  <2> QED
    BY <1>6, <2>1, <2>2
<1> QED
  BY <1>7, <1>8, <1>9, <1>10, <1>11 DEF IInv, FramesRight

-----------------------------------------------------------------------------
(* Unlinking and killing. *)

(* Steps taken between two sections of the lock that leave the places of   *)
(* the URBs alone.                                                         *)
LEMMA RestState ==
    ASSUME IInv, Unlocked, UNCHANGED <<queue, opened, priv, pending, urbVars, frames>>,
           cancel' \in [Xfers -> BOOLEAN], restart' \in [Xfers -> BOOLEAN],
           reject' \in [Urbs -> 0 .. MaxReject], asked' \in [Urbs -> BOOLEAN],
           killer' \in [pc : {"none", "begin", "loop", "returned"},
                        urb : Urbs \cup {NoUrb}, x : Xfers, blocked : BOOLEAN],
           \A v \in Urbs : asked[v] => asked'[v],
           CancelRight', KillRight'
    PROVE  IInv'
<1> USE DEF IInv
<1>1. TypeOK'
  BY DEF TypeOK, urbVars
<1>2. OnePlace' /\ OwedRight' /\ PrivRight'
  BY DEF OnePlace, OwedRight, PrivRight, Active, Queued, InFlight, urbVars
<1>3. frames = <<>> /\ frames' = <<>> /\ DOMAIN frames = {} /\ Len(frames) = 0
  BY DEF Unlocked
<1>4. FramesRight'
  BY <1>3 DEF FramesRight, StackShape, FramesSound, HandlerRight
<1>5. ResubmitFlag'
  BY DEF ResubmitFlag, urbVars
<1>6. Served'
  BY <1>3 DEF Served
<1>7. OnlyAskedAreReset'
  BY DEF OnlyAskedAreReset, urbVars
<1> QED
  BY <1>1, <1>2, <1>4, <1>5, <1>6, <1>7

(* usb_unlink_bsd() asks for a restart wherever it cancels. *)
LEMMA RestartsRight ==
    ASSUME IInv, NEW u \in Urbs, NEW xs, RestartTransfers(xs, u),
           asked' = [asked EXCEPT ![u] = TRUE]
    PROVE  /\ cancel' \in [Xfers -> BOOLEAN] /\ restart' \in [Xfers -> BOOLEAN]
           /\ asked' \in [Urbs -> BOOLEAN] /\ \A v \in Urbs : asked[v] => asked'[v]
           /\ CancelRight'
<1> USE DEF IInv, TypeOK
<1>1. /\ cancel' = [x \in Xfers |-> IF x \in xs /\ WorksOn(x, u) THEN tr_stop(x) ELSE cancel[x]]
      /\ restart' = [x \in Xfers |-> IF x \in xs /\ WorksOn(x, u) THEN RestartsAfterStop(x)
                                                               ELSE restart[x]]
      /\ UNCHANGED <<priv, pending>>
  BY DEF RestartTransfers
<1>2. cancel' \in [Xfers -> BOOLEAN] /\ restart' \in [Xfers -> BOOLEAN]
  BY <1>1 DEF tr_stop, RestartsAfterStop
<1>3. asked' \in [Urbs -> BOOLEAN] /\ asked'[u] /\ \A v \in Urbs : asked[v] => asked'[v]
  OBVIOUS
<1>4. ASSUME NEW x \in Xfers, pending'[x], cancel'[x]
      PROVE  restart'[x] /\ asked'[priv'[x]]
  <2>1. pending[x] /\ priv'[x] = priv[x]
    BY <1>1, <1>4
  <2>2. priv[x] \in Urbs
    BY <2>1 DEF PrivRight
  <2>3. CASE x \in xs /\ WorksOn(x, u)
    BY <1>1, <1>3, <2>1, <2>3 DEF WorksOn, RestartsAfterStop, tr_stop
  <2>4. CASE ~(x \in xs /\ WorksOn(x, u))
    <3>1. cancel[x] /\ restart'[x] = restart[x]
      BY <1>1, <1>4, <2>4
    <3>2. restart[x] /\ asked[priv[x]]
      BY <2>1, <3>1 DEF CancelRight
    <3> QED
      BY <1>3, <2>1, <2>2, <3>1, <3>2
  <2> QED
    BY <2>3, <2>4
<1> QED
  BY <1>2, <1>3, <1>4 DEF CancelRight

(* An URB of the list is handed back by the caller itself. *)
LEMMA UnlinkQueuedKeeps ==
    ASSUME IInv, Unlocked, NEW u \in Urbs, Queued(u), UnlinkQueued(u),
           asked' = [asked EXCEPT ![u] = TRUE], UNCHANGED reject,
           \/ UNCHANGED killer
           \/ killer' = [pc |-> "begin", urb |-> u, x |-> 1, blocked |-> reject[u] # 0]
    PROVE  IInv'
<1> USE DEF IInv, TypeOK
<1>1. frames = <<>> /\ queue # <<>>
  BY DEF Unlocked, Queued, ToSet
<1>2. PICK i \in DOMAIN queue : queue[i] = u /\ queue' = RemoveAt(queue, i)
  BY DEF UnlinkQueued
<1>3. queue' \in Seq(Urbs) /\ ToSet(queue') = ToSet(queue) \ {u} /\ Once(queue')
  <2>1. queue \in Seq(Urbs) /\ Once(queue)
    BY DEF OnePlace, Once
  <2> QED
    BY <1>2, <2>1, RemoveEntry
<1>4. PICK nr \in BOOLEAN : nr = no_resubmit[u]
  OBVIOUS
<1>5. /\ HandBack(u, "ECONNRESET", nr)
      /\ UNCHANGED <<opened, priv, pending, cancel, restart>>
  BY <1>4 DEF UnlinkQueued, xferVars
<1>6. /\ OnePlace' /\ OwedRight' /\ PrivRight'
      /\ \A v \in Urbs : Queued(v)' <=> Queued(v) /\ v # u
      /\ \A v \in Urbs : InFlight(v)' <=> InFlight(v)
      /\ ~Active(u)'
      /\ status' \in [Urbs -> Statuses] /\ hcpriv' \in [Urbs -> BOOLEAN]
      /\ no_resubmit' \in [Urbs -> BOOLEAN] /\ owed' \in [Urbs -> Int]
      /\ \A v \in Urbs : /\ status'[v] = IF v = u THEN "ECONNRESET" ELSE status[v]
                         /\ no_resubmit'[v] = IF v = u THEN nr ELSE no_resubmit[v]
  <2>1. "ECONNRESET" \in Statuses
    BY DEF Statuses
  <2> HIDE DEF TypeOK, IInv
  <2> QED
    BY <1>3, <1>5, <2>1, ListHandBack
<1>7. PICK h \in FrameType : h = Frame("handler", 0, u)
  BY DEF Frame, FrameType, Pcs, Xfers
<1>8. h.pc = "handler" /\ h.x = 0 /\ h.urb = u
  BY <1>7 DEF Frame
<1>9. /\ frames' = <<h>> /\ frames' \in Seq(FrameType)
      /\ Len(frames') = 1 /\ DOMAIN frames' = {1} /\ frames'[1] = h
  BY <1>7 DEF UnlinkQueued
<1>10. /\ asked' \in [Urbs -> BOOLEAN] /\ asked'[u]
       /\ \A v \in Urbs : asked[v] => asked'[v]
  OBVIOUS
<1>11. TypeOK'
  <2>1. killer' \in [pc : {"none", "begin", "loop", "returned"},
                     urb : Urbs \cup {NoUrb}, x : Xfers, blocked : BOOLEAN]
    <3>1. PICK b \in BOOLEAN : b = (reject[u] # 0)
      OBVIOUS
    <3>2. CASE killer' = [pc |-> "begin", urb |-> u, x |-> 1, blocked |-> b]
      BY <3>2 DEF Xfers
    <3> QED
      BY <3>1, <3>2
  <2> QED
    BY <1>3, <1>5, <1>6, <1>9, <1>10, <2>1 DEF FrameType
<1>12. StackShape'
  BY <1>9 DEF StackShape
<1>13. FramesSound'
  BY <1>8, <1>9 DEF FramesSound, FrameRight, IdlePcs, CallbackPcs
<1>14. HandlerRight'
  <2>1. (Active(frames[Len(frames)].urb))' <=> Active(u)'
    BY <1>8, <1>9 DEF Active, Queued, InFlight
  <2> QED
    BY <1>6, <1>8, <1>9, <2>1 DEF HandlerRight
<1>15. ResubmitFlag'
  <2>1. \A v \in Urbs : ~no_resubmit[v]
    BY <1>1 DEF ResubmitFlag
  <2> QED
    BY <1>4, <1>6, <2>1 DEF ResubmitFlag
<1>16. Served'
  BY <1>1, <1>5 DEF Served
<1>17. CancelRight'
  <2>1. \A x \in Xfers : pending[x] => priv[x] \in Urbs
    BY DEF PrivRight
  <2> QED
    BY <1>5, <1>10, <2>1 DEF CancelRight
<1>18. OnlyAskedAreReset'
  BY <1>6, <1>10 DEF OnlyAskedAreReset
<1>19. KillRight'
  <2>1. CASE UNCHANGED killer
    BY <1>5, <1>6, <2>1 DEF KillRight
  <2>2. CASE killer' = [pc |-> "begin", urb |-> u, x |-> 1, blocked |-> reject[u] # 0]
    <3>1. ~Queued(u)' /\ ~InFlight(u)'
      BY <1>6 DEF Active
    <3>2. \A y \in Xfers : priv'[y] # u
      BY <3>1 DEF InFlight
    <3> QED
      BY <2>2, <3>1, <3>2 DEF KillRight, Queued, InFlight
  <2> QED
    BY <2>1, <2>2
<1> QED
  BY <1>6, <1>11, <1>12, <1>13, <1>14, <1>15, <1>16, <1>17, <1>18, <1>19 DEF FramesRight

LEMMA UnlinkKeeps ==
    ASSUME IInv, NEW u \in Urbs, usb_unlink_urb(u)
    PROVE  IInv'
<1>1. /\ Unlocked /\ asked' = [asked EXCEPT ![u] = TRUE]
      /\ UNCHANGED <<reject, killer>>
  BY DEF usb_unlink_urb
<1>2. CASE Queued(u) /\ UnlinkQueued(u)
  BY <1>1, <1>2, UnlinkQueuedKeeps
<1>3. CASE RestartTransfers(Xfers, u)
  <2>1. UNCHANGED <<queue, opened, priv, pending, urbVars, frames>>
    BY <1>3 DEF RestartTransfers
  <2>2. KillRight'
    BY <1>1, <2>1 DEF IInv, KillRight, Queued, InFlight
  <2>3. /\ reject' \in [Urbs -> 0 .. MaxReject]
        /\ killer' \in [pc : {"none", "begin", "loop", "returned"},
                        urb : Urbs \cup {NoUrb}, x : Xfers, blocked : BOOLEAN]
    BY <1>1 DEF IInv, TypeOK
  <2> QED
    BY <1>1, <1>3, <2>1, <2>2, <2>3, RestState, RestartsRight
<1> QED
  BY <1>2, <1>3 DEF usb_unlink_urb

(* A round of usb_kill_urb() passes the transfers that work on another URB *)
(* and stops at the first that works on u.                                 *)
LEMMA DrainRoundKeeps ==
    ASSUME IInv, Unlocked, NEW u \in Urbs, NEW first \in Xfers, NEW b \in BOOLEAN,
           b => reject[u] # 0 /\ ~Queued(u) /\ \A y \in Xfers : y < first => priv[y] # u,
           DrainRound(u, first, b), asked' = [asked EXCEPT ![u] = TRUE], UNCHANGED reject
    PROVE  IInv'
<1> DEFINE left == {x \in Xfers : x >= first /\ ~Drained(x, u)}
<1>0. TypeOK
  BY DEF IInv
<1>1. reject' \in [Urbs -> 0 .. MaxReject]
  BY <1>0 DEF TypeOK
<1>2. /\ UNCHANGED <<queue, opened, priv, pending, urbVars, frames>>
      /\ cancel' \in [Xfers -> BOOLEAN] /\ restart' \in [Xfers -> BOOLEAN]
      /\ asked' \in [Urbs -> BOOLEAN] /\ \A v \in Urbs : asked[v] => asked'[v]
      /\ CancelRight'
  <2>1. CASE \E xs : RestartTransfers(xs, u)
    BY <2>1, RestartsRight DEF RestartTransfers
  <2>2. CASE UNCHANGED <<queue, xferVars, urbVars, frames>>
    <3>1. asked' \in [Urbs -> BOOLEAN] /\ \A v \in Urbs : asked[v] => asked'[v]
      BY <1>0 DEF TypeOK
    <3>2. \A x \in Xfers : pending[x] => priv[x] \in Urbs
      BY <1>0 DEF TypeOK, IInv, PrivRight
    <3>3. UNCHANGED <<priv, pending, cancel, restart>>
      BY <2>2 DEF xferVars
    <3>4. CancelRight'
      BY <3>1, <3>2, <3>3 DEF IInv, CancelRight
    <3> QED
      BY <1>0, <2>2, <3>1, <3>4 DEF xferVars, TypeOK
  <2> QED
    BY <2>1, <2>2 DEF DrainRound
<1>3. PICK pc \in {"returned", "loop"}, x \in Xfers :
        /\ killer' = [pc |-> pc, urb |-> u, x |-> x, blocked |-> b]
        /\ \A y \in Xfers : y >= first /\ y < x => priv[y] # u
        /\ pc = "returned" => \A y \in Xfers : y >= first => priv[y] # u
  <2>1. CASE left = {} /\ killer' = [pc |-> "returned", urb |-> u, x |-> 1, blocked |-> b]
    <3>1. \A y \in Xfers : y >= first => priv[y] # u
      BY <2>1 DEF Drained
    <3> QED
      BY <2>1, <3>1 DEF Xfers
  <2>2. CASE /\ left # {}
             /\ LET x == CHOOSE y \in left : \A z \in left : y <= z IN
                   killer' = [pc |-> "loop", urb |-> u, x |-> x, blocked |-> b]
    <3> DEFINE x == CHOOSE y \in left : \A z \in left : y <= z
    <3>1. \E y \in left : \A z \in left : y <= z
      BY <2>2 DEF Xfers
    <3>2. x \in left /\ \A z \in left : x <= z
      BY <3>1
    <3>3. killer' = [pc |-> "loop", urb |-> u, x |-> x, blocked |-> b]
      BY <2>2
    <3> HIDE DEF x
    <3>4. \A y \in Xfers : y >= first /\ y < x => priv[y] # u
      BY <3>2 DEF Drained, Xfers
    <3> QED
      BY <3>2, <3>3, <3>4
  <2> QED
    BY <2>1, <2>2 DEF DrainRound
<1>4. killer' \in [pc : {"none", "begin", "loop", "returned"},
                   urb : Urbs \cup {NoUrb}, x : Xfers, blocked : BOOLEAN]
  BY <1>3
<1>5. KillRight'
  <2>1. b => \A y \in Xfers : y < x => priv[y] # u
    BY <1>3 DEF Xfers
  <2>2. b /\ pc = "returned" => ~InFlight(u)
    BY <1>3 DEF InFlight, Xfers
  <2>3. (Queued(u)' <=> Queued(u)) /\ (InFlight(u)' <=> InFlight(u)) /\ priv' = priv
    BY <1>2 DEF Queued, InFlight
  <2>4. killer'.pc = pc /\ killer'.urb = u /\ killer'.x = x /\ killer'.blocked = b
    BY <1>3
  <2>5. /\ killer'.blocked => b
        /\ Queued(killer.urb)' <=> Queued(u)'
        /\ InFlight(killer.urb)' <=> InFlight(u)'
    BY <2>4 DEF Queued, InFlight
  <2> QED
    BY <1>3, <2>1, <2>2, <2>3, <2>4, <2>5 DEF KillRight
<1> QED
  BY <1>1, <1>2, <1>4, <1>5, RestState

LEMMA KillKeeps ==
    ASSUME IInv, NEW u \in Urbs, usb_kill_urb(u)
    PROVE  IInv'
<1>1. Unlocked /\ asked' = [asked EXCEPT ![u] = TRUE] /\ UNCHANGED reject
  BY DEF usb_kill_urb
<1>2. CASE /\ Queued(u) /\ UnlinkQueued(u)
           /\ killer' = [pc |-> "begin", urb |-> u, x |-> 1, blocked |-> reject[u] # 0]
  BY <1>1, <1>2, UnlinkQueuedKeeps
<1>3. CASE ~Queued(u) /\ DrainRound(u, 0, reject[u] # 0)
  <2>1. PICK b \in BOOLEAN : b = (reject[u] # 0)
    OBVIOUS
  <2>2. DrainRound(u, 0, b) /\ (b => reject[u] # 0)
    BY <1>3, <2>1
  <2>3. 0 \in Xfers /\ \A y \in Xfers : ~(y < 0)
    BY DEF Xfers
  <2> QED
    BY <1>1, <1>3, <2>2, <2>3, DrainRoundKeeps
<1> QED
  BY <1>2, <1>3 DEF usb_kill_urb

LEMMA DrainAgainKeeps ==
    ASSUME IInv, DrainAgain
    PROVE  IInv'
<1>1. PICK u \in Urbs, first \in Xfers, b \in BOOLEAN :
        u = killer.urb /\ first = killer.x /\ b = killer.blocked
  <2>1. killer.urb \in Urbs
    BY DEF IInv, KillRight, DrainAgain
  <2>2. killer.x \in Xfers /\ killer.blocked \in BOOLEAN
    BY DEF IInv, TypeOK
  <2> QED
    BY <2>1, <2>2
<1>2. b => reject[u] # 0 /\ ~Queued(u) /\ \A y \in Xfers : y < first => priv[y] # u
  BY <1>1 DEF IInv, KillRight
<1>3. /\ Unlocked /\ DrainRound(u, first, b)
      /\ asked' = [asked EXCEPT ![u] = TRUE] /\ UNCHANGED reject
  BY <1>1 DEF DrainAgain
<1> QED
  BY <1>2, <1>3, DrainRoundKeeps

(* The other steps of the killing thread, and blocking. *)
LEMMA KillerRestKeeps ==
    ASSUME IInv, \/ KillQueuedReturns \/ KillDone
                 \/ \E u \in Urbs : usb_block_urb(u) \/ usb_unblock_urb(u)
    PROVE  IInv'
<1>0. TypeOK /\ KillRight /\ CancelRight
  BY DEF IInv
<1>1. /\ Unlocked /\ UNCHANGED <<queue, xferVars, urbVars, frames, asked>>
      /\ UNCHANGED <<opened, priv, pending, cancel, restart>>
  BY DEF KillQueuedReturns, KillDone, usb_block_urb, usb_unblock_urb, xferVars
<1>2. /\ CancelRight' /\ cancel' \in [Xfers -> BOOLEAN] /\ restart' \in [Xfers -> BOOLEAN]
      /\ asked' \in [Urbs -> BOOLEAN] /\ \A v \in Urbs : asked[v] => asked'[v]
  BY <1>0, <1>1 DEF CancelRight, TypeOK
<1>3. \A v : (Queued(v)' <=> Queued(v)) /\ (InFlight(v)' <=> InFlight(v))
  BY <1>1 DEF Queued, InFlight
<1>4. /\ reject' \in [Urbs -> 0 .. MaxReject]
      /\ killer' \in [pc : {"none", "begin", "loop", "returned"},
                      urb : Urbs \cup {NoUrb}, x : Xfers, blocked : BOOLEAN]
      /\ KillRight'
  <2>1. CASE KillQueuedReturns
    <3>1. /\ killer'.pc = "returned" /\ killer'.urb = killer.urb /\ killer'.x = killer.x
          /\ killer'.blocked = killer.blocked /\ reject' = reject
      BY <1>0, <2>1 DEF TypeOK, KillQueuedReturns
    <3>2. KillRight'
      BY <1>0, <1>1, <1>3, <2>1, <3>1 DEF KillRight, KillQueuedReturns, Queued, InFlight
    <3> QED
      BY <1>0, <2>1, <3>2 DEF TypeOK, KillQueuedReturns
  <2>2. CASE KillDone
    BY <1>0, <2>2 DEF TypeOK, KillDone, NoKill, KillRight, Xfers
  <2>3. CASE \E u \in Urbs : usb_block_urb(u)
    <3>1. PICK u \in Urbs : usb_block_urb(u)
      BY <2>3
    <3>2. /\ reject' = [reject EXCEPT ![u] = @ + 1] /\ reject[u] < MaxReject
          /\ killer' = killer
      BY <3>1 DEF usb_block_urb
    <3>3. reject' \in [Urbs -> 0 .. MaxReject]
      BY <1>0, <3>2, UrbAssumption DEF TypeOK
    <3>4. \A v \in Urbs : reject[v] # 0 => reject'[v] # 0
      BY <1>0, <3>2 DEF TypeOK
    <3>5. KillRight'
      BY <1>0, <1>1, <1>3, <3>2, <3>4 DEF KillRight, Queued, InFlight
    <3> QED
      BY <1>0, <3>2, <3>3, <3>5 DEF TypeOK
  <2>4. CASE \E u \in Urbs : usb_unblock_urb(u)
    <3>1. PICK u \in Urbs : usb_unblock_urb(u)
      BY <2>4
    <3>2. /\ reject' = [reject EXCEPT ![u] = @ - 1] /\ reject[u] > 0
          /\ killer' = killer /\ killer.urb # u
      BY <3>1 DEF usb_unblock_urb
    <3>3. reject' \in [Urbs -> 0 .. MaxReject]
      BY <1>0, <3>2, UrbAssumption DEF TypeOK
    <3>4. \A v \in Urbs : v # u => reject'[v] = reject[v]
      BY <1>0, <3>2 DEF TypeOK
    <3>5. KillRight'
      BY <1>0, <1>1, <1>3, <3>2, <3>4 DEF KillRight, Queued, InFlight
    <3> QED
      BY <1>0, <3>2, <3>3, <3>5 DEF TypeOK
  <2> QED
    BY <2>1, <2>2, <2>3, <2>4
<1> QED
  BY <1>1, <1>2, <1>4, RestState

-----------------------------------------------------------------------------
LEMMA InitIInv == Init => IInv
<1> SUFFICES ASSUME Init PROVE IInv
  OBVIOUS
<1> USE UrbAssumption DEF Init
<1>1. TypeOK
  <2>1. queue \in Seq(Urbs) /\ frames \in Seq([pc : Pcs, x : Xfers, urb : Urbs \cup {NoUrb}])
    OBVIOUS
  <2>2. NoKill \in [pc : {"none", "begin", "loop", "returned"},
                   urb : Urbs \cup {NoUrb}, x : Xfers, blocked : BOOLEAN]
    BY DEF NoKill, Xfers
  <2>3. status \in [Urbs -> Statuses]
    BY DEF Statuses
  <2>4. reject \in [Urbs -> 0 .. MaxReject] /\ owed \in [Urbs -> Int]
    OBVIOUS
  <2> QED
    BY <2>1, <2>2, <2>3, <2>4 DEF TypeOK
<1>2. ToSet(queue) = {} /\ DOMAIN queue = {} /\ \A x \in Xfers : priv[x] = NoUrb
  BY DEF ToSet
<1>3. \A u \in Urbs : ~Queued(u) /\ ~InFlight(u)
  BY <1>2 DEF Queued, InFlight
<1>4. OnePlace
  BY <1>2, <1>3 DEF OnePlace, Xfers
<1>5. OwedRight
  BY <1>3 DEF OwedRight, Active
<1>6. PrivRight /\ CancelRight
  BY DEF PrivRight, CancelRight
<1>7. DOMAIN frames = {} /\ Len(frames) = 0
  OBVIOUS
<1>8. FramesRight
  BY <1>7 DEF FramesRight, StackShape, FramesSound, HandlerRight
<1>9. ResubmitFlag /\ Served /\ OnlyAskedAreReset
  BY DEF ResubmitFlag, Served, OnlyAskedAreReset
<1>10. KillRight
  BY DEF KillRight, NoKill
<1> QED
  BY <1>1, <1>4, <1>5, <1>6, <1>8, <1>9, <1>10 DEF IInv

LEMMA NextIInv == IInv /\ [Next]_vars => IInv'
<1> SUFFICES ASSUME IInv, [Next]_vars PROVE IInv'
  OBVIOUS
<1>1. CASE Locked
  BY <1>1, StartFirstKeeps, StartSecondKeeps, StartOtherKeeps, SetupNothingKeeps,
     SetupTooBigKeeps, SetupTransferKeeps, HandlerReturnsKeeps, HandlerDoneKeeps,
     CallbackReturnsKeeps DEF Locked
<1>2. CASE HandlerResubmits
  BY <1>2, HandlerResubmitsKeeps
<1>3. CASE Api
  BY <1>3, SubmitKeeps, UnlinkKeeps, KillKeeps, KillerRestKeeps DEF Api
<1>4. CASE EventThread
  BY <1>4, XferEndsKeeps DEF EventThread
<1>5. CASE Killer
  BY <1>5, DrainAgainKeeps, KillerRestKeeps DEF Killer
<1>6. CASE UNCHANGED vars
  <2>1. UNCHANGED <<queue, opened, priv, pending, cancel, restart, status, hcpriv,
                    no_resubmit, owed, reject, frames, killer, asked>>
    BY <1>6 DEF vars, xferVars, urbVars
  <2>2. /\ TypeOK' /\ OnePlace' /\ OwedRight' /\ PrivRight'
        /\ OnlyAskedAreReset' /\ KillRight'
    BY <2>1, QuietState, TypeFacts DEF IInv
  <2>3. FramesRight' /\ ResubmitFlag'
    BY <2>1 DEF IInv, FramesRight, StackShape, FramesSound, FrameRight, HandlerRight,
                Active, Queued, InFlight, ResubmitFlag
  <2>4. Served' /\ CancelRight'
    BY <2>1 DEF IInv, Served, CancelRight, WillServe
  <2> QED
    BY <2>2, <2>3, <2>4 DEF IInv
<1> QED
  BY <1>1, <1>2, <1>3, <1>4, <1>5, <1>6 DEF Next

(* The inductive invariant holds in every state of the endpoint. *)
THEOREM Inductive == Spec => []IInv
  BY InitIInv, NextIInv, PTL DEF Spec

(* An URB on the list once, or in one transfer, is in one place. *)
LEMMA PlacesCounted ==
    ASSUME IInv, NEW u \in Urbs
    PROVE  Places(u) = IF Active(u) THEN 1 ELSE 0
<1> DEFINE D == {i \in DOMAIN queue : queue[i] = u}
<1>1. CASE Queued(u)
  <2>1. PICK i \in DOMAIN queue : queue[i] = u
    BY <1>1 DEF Queued, ToSet
  <2>2. D = {i}
    BY <2>1 DEF IInv, OnePlace
  <2>3. Cardinality(D) = 1
    BY <2>2, FS_Singleton
  <2>4. priv[0] # u /\ priv[1] # u
    BY <1>1 DEF IInv, OnePlace, InFlight, Xfers
  <2> QED
    BY <1>1, <2>3, <2>4 DEF Places, Active
<1>2. CASE ~Queued(u)
  <2>1. D = {}
    BY <1>2 DEF Queued, ToSet
  <2>2. Cardinality(D) = 0
    BY <2>1, FS_EmptySet
  <2>3. ~(priv[0] = u /\ priv[1] = u)
    BY UrbAssumption DEF IInv, OnePlace
  <2>4. InFlight(u) <=> priv[0] = u \/ priv[1] = u
    BY DEF InFlight, Xfers
  <2> QED
    BY <1>2, <2>2, <2>3, <2>4 DEF Places, Active
<1> QED
  BY <1>1, <1>2

(* Every submission that usb_submit_urb() accepts is in exactly one place  *)
(* until its completion handler is called, and the handler is called once; *)
(* hcpriv says whether it is owed.                                         *)
THEOREM Accounted == Spec => []UrbAccounted
<1>1. IInv => UrbAccounted
  BY PlacesCounted DEF UrbAccounted, IInv, OwedRight
<1> QED
  BY <1>1, Inductive, PTL

(* A running transfer has the URB its callback will dereference, and while *)
(* the lock is free no URB waits on the list beside an idle transfer.      *)
THEOREM Busy == Spec => []TransfersBusy
<1>1. IInv => TransfersBusy
  <2> SUFFICES ASSUME IInv PROVE RunningHasUrb /\ NoStall
    BY DEF IInv, TransfersBusy
  <2>1. RunningHasUrb
    BY DEF IInv, RunningHasUrb, PrivRight
  <2>2. NoStall
    <3> SUFFICES ASSUME frames = <<>>, queue # <<>>, NEW x \in Xfers PROVE pending[x]
      BY DEF NoStall, Unlocked
    <3>1. DOMAIN frames = {}
      OBVIOUS
    <3> QED
      BY <3>1 DEF IInv, Served
  <2> QED
    BY <2>1, <2>2
<1> QED
  BY <1>1, Inductive, PTL

(* Only an URB that was unlinked or killed is handed back as reset, and    *)
(* the kill of a blocked URB leaves it on no list and in no transfer.      *)
THEOREM Cancels == Spec => []CancelsRight
<1>1. IInv => CancelsRight
  BY DEF IInv, CancelsRight, BlockedKillIsFinal, KillRight, Active
<1> QED
  BY <1>1, Inductive, PTL
=============================================================================
