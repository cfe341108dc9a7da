------------------------- MODULE EventDispatchProofs -------------------------
(***************************************************************************)
(* Proofs about EventDispatch, for any number of handlers, devices, events *)
(* and dropped requests.                                                   *)
(***************************************************************************)
EXTENDS EventDispatch, SequenceTheorems, TLAPS

Any == Handler \cup {Decrypt}

(* Where the dispatcher is: at an event, and at the base handler while it   *)
(* decrypts, which only encrypted events have.                              *)
PlaceInv ==
    /\ pc # "idle" => current \in Event
    /\ pc = "outer" => candidates = {}
    /\ pc \in {"decrypt", "dispatch", "inner"} => outer # <<>> /\ Head(outer) = Decrypt
    /\ Decrypt \in Range(outer) => current \in Encrypted
    /\ handlers["message"] \in Seq(Handler)

Distinct(s) == \A i, j \in 1 .. Len(s) : s[i] = s[j] => i = j

(* What is left of a list of handlers: all but the first. *)
LEMMA TailOfList ==
    ASSUME NEW S, NEW s \in Seq(S), s # <<>>
    PROVE  /\ Head(s) \in S /\ Tail(s) \in Seq(S)
           /\ Head(s) \in Range(s) /\ Range(Tail(s)) \subseteq Range(s)
           /\ Distinct(s) => Distinct(Tail(s)) /\ Head(s) \notin Range(Tail(s))
<1> DEFINE t == Tail(s)
<1>1. /\ t \in Seq(S) /\ Len(t) = Len(s) - 1 /\ \A i \in 1 .. Len(t) : t[i] = s[i + 1]
      /\ Head(s) \in S /\ Head(s) = s[1] /\ Len(s) \in Nat \ {0}
  BY HeadTailProperties, LenProperties, EmptySeq
<1>2. Range(s) = {s[i] : i \in 1 .. Len(s)} /\ Range(t) = {t[i] : i \in 1 .. Len(t)}
  <2>1. \A q \in Seq(S) : Range(q) = {q[i] : i \in 1 .. Len(q)}
    BY RangeEquality
  <2> QED
    BY <1>1, <2>1
<1> HIDE DEF t
<1>3. Head(s) \in Range(s) /\ Range(t) \subseteq Range(s)
  BY <1>1, <1>2
<1>4. ASSUME Distinct(s) PROVE Distinct(t) /\ Head(s) \notin Range(t)
  <2>1. \A i \in 1 .. Len(t) : i + 1 \in 1 .. Len(s) /\ 1 \in 1 .. Len(s) /\ i + 1 # 1
    BY <1>1
  <2>2. Distinct(t)
    BY <1>1, <1>4, <2>1 DEF Distinct
  <2>3. Head(s) \notin Range(t)
    BY <1>1, <1>2, <1>4, <2>1 DEF Distinct
  <2> QED
    BY <2>2, <2>3
<1> QED
  BY <1>1, <1>3, <1>4 DEF t

(* A list of handlers with one more at its end. *)
LEMMA AppendToList ==
    ASSUME NEW S, NEW s \in Seq(S), NEW x \in S
    PROVE  /\ Append(s, x) \in Seq(S) /\ Range(Append(s, x)) = Range(s) \cup {x}
           /\ Distinct(s) /\ x \notin Range(s) => Distinct(Append(s, x))
<1> DEFINE a == Append(s, x)
<1>1. /\ a \in Seq(S) /\ Len(a) = Len(s) + 1 /\ Len(s) \in Nat
      /\ \A i \in 1 .. Len(s) : a[i] = s[i]
      /\ a[Len(s) + 1] = x
  BY AppendProperties, LenProperties
<1>2. Range(s) = {s[i] : i \in 1 .. Len(s)} /\ Range(a) = {a[i] : i \in 1 .. Len(a)}
  BY <1>1, RangeEquality
<1> HIDE DEF a
<1>3. Range(a) = Range(s) \cup {x}
  BY <1>1, <1>2
<1>4. ASSUME Distinct(s), x \notin Range(s) PROVE Distinct(a)
  BY <1>1, <1>2, <1>4 DEF Distinct
<1> QED
  BY <1>1, <1>3, <1>4 DEF a

(* The empty list. *)
LEMMA NoList == Range(<<>>) = {} /\ Distinct(<<>>)
  BY DEF Range, Distinct

(* The lists of the store: no handler is in them twice, and what is left of *)
(* a cloned list belongs to the type it was cloned for.                     *)
ListInv ==
    /\ Distinct(handlers["message"]) /\ Distinct(handlers["encrypted"])
    /\ Range(handlers["message"]) \cap Range(handlers["encrypted"]) = {}
    /\ Distinct(outer) /\ Distinct(inner)
    /\ Range(inner) \subseteq Range(handlers["message"])
    /\ Range(outer) \subseteq Range(handlers[TypeOf(current)])

(* h has seen nothing later than the current event of the current attempt, *)
UpTo(h) == \A i \in DOMAIN seen[h] :
              seen[h][i][1] < drops \/ (seen[h][i][1] = drops /\ seen[h][i][2] <= current)

(* and not this one either. *)
Before(h) == \A i \in DOMAIN seen[h] :
                seen[h][i][1] < drops \/ (seen[h][i][1] = drops /\ seen[h][i][2] < current)

(* Who is still to be called has not seen the current event. *)
SeenInv ==
    /\ \A h \in Handler : UpTo(h)
    /\ \A h \in Handler \ Registered : seen[h] = <<>>
    /\ pc = "idle" => \A h \in Handler : Before(h)
    /\ \A h \in Handler : h \in Range(outer) \cup Range(inner) => Before(h)
    /\ Decrypt \in Range(outer) /\ pc # "inner" =>
          \A h \in Range(handlers["message"]) : Before(h)

(* Every step keeps the types. *)
LEMMA TypeStep == ASSUME TypeOK, PlaceInv, [Next]_vars PROVE TypeOK'
<1> USE MaxEventAssumption, EncryptedAssumption, DecryptAssumption, MaxDropsAssumption
    DEF TypeOK, PlaceInv, Type, Event, Any, dispatchVars, historyVars
<1>0. outer # <<>> => /\ Head(outer) \in Any /\ Tail(outer) \in Seq(Any)
                       /\ Head(outer) \in Range(outer)
  BY TailOfList
<1>a. inner # <<>> => Head(inner) \in Handler /\ Tail(inner) \in Seq(Handler)
  BY TailOfList
<1>1. ASSUME NEW h \in Handler, NEW type \in Type, Register(h, type) PROVE TypeOK'
  <2>1. Append(handlers[type], h) \in Seq(Any)
    BY AppendToList
  <2>2. handlers' \in [Type -> Seq(Any)]
    BY <1>1, <2>1 DEF Register
  <2> QED
    BY <1>1, <2>2 DEF Register
<1>2. ASSUME NEW d \in Device, NEW e \in Event, Learn(d, e) PROVE TypeOK'
  BY <1>2, <1>0, <1>a DEF Learn
<1>3. CASE Begin
  <2>1. TypeOf(current) \in Type
    BY DEF TypeOf
  <2>2. Range(handlers["message"] \o handlers[TypeOf(current)]) \ {Decrypt} \subseteq Handler
    <3>1. handlers["message"] \in Seq(Any) /\ handlers[TypeOf(current)] \in Seq(Any)
      BY <2>1
    <3> QED
      BY <3>1, RangeConcatenation, RangeOfSeq
  <2> QED
    BY <1>3, <2>1, <2>2 DEF Begin
<1>4. CASE Handle
  <2> DEFINE h == Head(outer)
             x == <<drops, current>>
  <2>1. h \in Handler /\ Tail(outer) \in Seq(Any)
    BY <1>4, <1>0, <1>a DEF Handle
  <2>2. x \in (0 .. MaxDrops) \X Event
    BY <1>4 DEF Handle
  <2>3. Append(seen[h], x) \in Seq((0 .. MaxDrops) \X Event)
    BY <2>1, <2>2, AppendProperties
  <2>4. seen' = [seen EXCEPT ![h] = Append(seen[h], x)]
    BY <1>4 DEF Handle, Call
  <2> HIDE DEF h, x
  <2>5. seen' \in [Handler -> Seq((0 .. MaxDrops) \X Event)]
    BY <2>1, <2>3, <2>4
  <2> QED
    BY <1>4, <2>1, <2>5 DEF Handle
<1>5. CASE End
  BY <1>5, <1>0, <1>a DEF End
<1>6. CASE FailRoom
  BY <1>6, <1>0, <1>a DEF FailRoom, Return
<1>7. CASE FindUsers
  BY <1>7, <1>0, <1>a DEF FindUsers
<1>8. ASSUME NEW d \in Device, FailDevice(d) PROVE TypeOK'
  BY <1>8, <1>0, <1>a DEF FailDevice
<1>9. ASSUME NEW d \in Device, DecryptWith(d) PROVE TypeOK'
  BY <1>9, <1>0, <1>a DEF DecryptWith
<1>10. CASE GiveUp
  BY <1>10, <1>0, <1>a DEF GiveUp, Return
<1>11. CASE BeginInner
  BY <1>11, <1>0, <1>a DEF BeginInner
<1>12. CASE FailInner
  BY <1>12, <1>0, <1>a DEF FailInner, Return
<1>13. CASE HandleInner
  <2> DEFINE h == Head(inner)
             x == <<drops, current>>
  <2>1. h \in Handler /\ Tail(inner) \in Seq(Handler)
    BY <1>13, <1>0, <1>a DEF HandleInner
  <2>2. x \in (0 .. MaxDrops) \X Event
    BY <1>13 DEF HandleInner
  <2>3. Append(seen[h], x) \in Seq((0 .. MaxDrops) \X Event)
    BY <2>1, <2>2, AppendProperties
  <2>4. seen' = [seen EXCEPT ![h] = Append(seen[h], x)]
    BY <1>13 DEF HandleInner, Call
  <2> HIDE DEF h, x
  <2>5. seen' \in [Handler -> Seq((0 .. MaxDrops) \X Event)]
    BY <2>1, <2>3, <2>4
  <2> QED
    BY <1>13, <2>1, <2>5 DEF HandleInner
<1>14. CASE EndInner
  BY <1>14, <1>0, <1>a DEF EndInner, Return
<1>15. CASE Acknowledge
  BY <1>15, <1>0, <1>a DEF Acknowledge
<1>16. CASE Drop
  BY <1>16, <1>0, <1>a DEF Drop
<1>17. CASE UNCHANGED vars
  BY <1>17 DEF vars
<1> QED
  BY <1>1, <1>2, <1>3, <1>4, <1>5, <1>6, <1>7, <1>8, <1>9, <1>10, <1>11, <1>12, <1>13, <1>14, <1>15, <1>16, <1>17
     DEF Next, OnEncryptedMessage

(* The dispatcher stays where it has to be. *)
LEMMA PlaceStep == ASSUME TypeOK, PlaceInv, [Next]_vars PROVE PlaceInv'
<1> USE MaxEventAssumption, EncryptedAssumption, DecryptAssumption, MaxDropsAssumption
    DEF TypeOK, PlaceInv, Type, Event, Any, dispatchVars, historyVars
<1>0. outer # <<>> => /\ Head(outer) \in Any /\ Tail(outer) \in Seq(Any)
                       /\ Head(outer) \in Range(outer) /\ Range(Tail(outer)) \subseteq Range(outer)
                       /\ (Distinct(outer) => Distinct(Tail(outer)) /\ Head(outer) \notin Range(Tail(outer)))
  BY TailOfList
<1>a. inner # <<>> => /\ Head(inner) \in Handler /\ Tail(inner) \in Seq(Handler)
                       /\ Head(inner) \in Range(inner) /\ Range(Tail(inner)) \subseteq Range(inner)
                       /\ (Distinct(inner) => Distinct(Tail(inner)) /\ Head(inner) \notin Range(Tail(inner)))
  BY TailOfList
<1>b. Range(<<>>) = {} /\ Distinct(<<>>)
  BY NoList
<1>1. ASSUME NEW h \in Handler, NEW type \in Type, Register(h, type) PROVE PlaceInv'
  <2>1. type = "message" => handlers'["message"] \in Seq(Handler)
    BY <1>1, AppendToList DEF Register
  <2> QED
    BY <1>1, <2>1 DEF Register
<1>2. ASSUME NEW d \in Device, NEW e \in Event, Learn(d, e) PROVE PlaceInv'
  BY <1>2, <1>0, <1>a, <1>b DEF Learn
<1>3. CASE Begin
  <2>1. Decrypt \in Range(handlers[TypeOf(current)]) => current \in Encrypted
    BY RangeOfSeq DEF TypeOf
  <2> QED
    BY <1>3, <2>1 DEF Begin
<1>4. CASE Handle
  BY <1>4, <1>0, <1>a, <1>b DEF Handle, Call
<1>5. CASE End
  BY <1>5, <1>0, <1>a, <1>b DEF End
<1>6. CASE FailRoom
  BY <1>6, <1>0, <1>a, <1>b DEF FailRoom, Return
<1>7. CASE FindUsers
  BY <1>7, <1>0, <1>a, <1>b DEF FindUsers
<1>8. ASSUME NEW d \in Device, FailDevice(d) PROVE PlaceInv'
  BY <1>8, <1>0, <1>a, <1>b DEF FailDevice
<1>9. ASSUME NEW d \in Device, DecryptWith(d) PROVE PlaceInv'
  BY <1>9, <1>0, <1>a, <1>b DEF DecryptWith
<1>10. CASE GiveUp
  BY <1>10, <1>0, <1>a, <1>b DEF GiveUp, Return
<1>11. CASE BeginInner
  BY <1>11, <1>0, <1>a, <1>b DEF BeginInner
<1>12. CASE FailInner
  BY <1>12, <1>0, <1>a, <1>b DEF FailInner, Return
<1>13. CASE HandleInner
  BY <1>13, <1>0, <1>a, <1>b DEF HandleInner, Call
<1>14. CASE EndInner
  BY <1>14, <1>0, <1>a, <1>b DEF EndInner, Return
<1>15. CASE Acknowledge
  BY <1>15, <1>0, <1>a, <1>b DEF Acknowledge
<1>16. CASE Drop
  BY <1>16, <1>0, <1>a, <1>b DEF Drop
<1>17. CASE UNCHANGED vars
  BY <1>17 DEF vars
<1> QED
  BY <1>1, <1>2, <1>3, <1>4, <1>5, <1>6, <1>7, <1>8, <1>9, <1>10, <1>11, <1>12, <1>13, <1>14, <1>15, <1>16, <1>17
     DEF Next, OnEncryptedMessage

(* The lists stay lists. *)
LEMMA ListStep == ASSUME TypeOK, PlaceInv, ListInv, [Next]_vars PROVE ListInv'
<1> USE MaxEventAssumption, EncryptedAssumption, DecryptAssumption, MaxDropsAssumption
    DEF TypeOK, PlaceInv, Type, Event, Any, dispatchVars, historyVars, ListInv
<1>0. outer # <<>> => /\ Head(outer) \in Any /\ Tail(outer) \in Seq(Any)
                       /\ Head(outer) \in Range(outer) /\ Range(Tail(outer)) \subseteq Range(outer)
                       /\ (Distinct(outer) => Distinct(Tail(outer)) /\ Head(outer) \notin Range(Tail(outer)))
  BY TailOfList
<1>a. inner # <<>> => /\ Head(inner) \in Handler /\ Tail(inner) \in Seq(Handler)
                       /\ Head(inner) \in Range(inner) /\ Range(Tail(inner)) \subseteq Range(inner)
                       /\ (Distinct(inner) => Distinct(Tail(inner)) /\ Head(inner) \notin Range(Tail(inner)))
  BY TailOfList
<1>b. Range(<<>>) = {} /\ Distinct(<<>>)
  BY NoList
<1>1. ASSUME NEW h \in Handler, NEW type \in Type, Register(h, type) PROVE ListInv'
  <2>1. handlers[type] \in Seq(Any) /\ h \in Any
    OBVIOUS
  <2>2. /\ Distinct(Append(handlers[type], h))
        /\ Range(Append(handlers[type], h)) = Range(handlers[type]) \cup {h}
    <3>1. h \notin Range(handlers[type]) /\ Distinct(handlers[type])
      BY <1>1 DEF Register, Registered
    <3> QED
      BY <2>1, <3>1, AppendToList
  <2>3. h \notin Range(handlers["message"]) /\ h \notin Range(handlers["encrypted"])
    BY <1>1 DEF Register, Registered
  <2>4. TypeOf(current) \in Type /\ TypeOf(current)' = TypeOf(current)
    BY <1>1 DEF Register, TypeOf
  <2>5. CASE type = "message"
    <3>1. /\ handlers'["encrypted"] = handlers["encrypted"]
          /\ handlers'["message"] = Append(handlers["message"], h)
          /\ UNCHANGED <<outer, inner, current>>
      BY <1>1, <2>5 DEF Register
    <3>2. /\ Distinct(handlers'["message"]) /\ Distinct(handlers'["encrypted"])
          /\ Range(handlers'["message"]) \cap Range(handlers'["encrypted"]) = {}
      BY <2>2, <2>3, <2>5, <3>1
    <3>3. /\ Range(handlers[TypeOf(current)]) \subseteq Range(handlers'[TypeOf(current)])
          /\ Range(handlers["message"]) \subseteq Range(handlers'["message"])
      BY <2>2, <2>4, <2>5, <3>1
    <3> QED
      BY <2>4, <3>1, <3>2, <3>3
  <2>6. CASE type = "encrypted"
    <3>1. /\ handlers'["message"] = handlers["message"]
          /\ handlers'["encrypted"] = Append(handlers["encrypted"], h)
          /\ UNCHANGED <<outer, inner, current>>
      BY <1>1, <2>6 DEF Register
    <3>2. /\ Distinct(handlers'["message"]) /\ Distinct(handlers'["encrypted"])
          /\ Range(handlers'["message"]) \cap Range(handlers'["encrypted"]) = {}
      BY <2>2, <2>3, <2>6, <3>1
    <3>3. Range(handlers[TypeOf(current)]) \subseteq Range(handlers'[TypeOf(current)])
      BY <2>2, <2>4, <2>6, <3>1
    <3> QED
      BY <2>4, <3>1, <3>2, <3>3
  <2> QED
    BY <2>5, <2>6
<1>2. ASSUME NEW d \in Device, NEW e \in Event, Learn(d, e) PROVE ListInv'
  BY <1>2, <1>0, <1>a, <1>b DEF Learn
<1>3. CASE Begin
  <2>1. /\ TypeOf(current) \in Type /\ TypeOf(current)' = TypeOf(current)
        /\ Distinct(handlers[TypeOf(current)])
    BY <1>3 DEF Begin, TypeOf
  <2> QED
    BY <1>3, <2>1 DEF Begin
<1>4. CASE Handle
  BY <1>4, <1>0, <1>a, <1>b DEF Handle, Call
<1>5. CASE End
  BY <1>5, <1>0, <1>a, <1>b DEF End
<1>6. CASE FailRoom
  BY <1>6, <1>0, <1>a, <1>b DEF FailRoom, Return
<1>7. CASE FindUsers
  BY <1>7, <1>0, <1>a, <1>b DEF FindUsers
<1>8. ASSUME NEW d \in Device, FailDevice(d) PROVE ListInv'
  BY <1>8, <1>0, <1>a, <1>b DEF FailDevice
<1>9. ASSUME NEW d \in Device, DecryptWith(d) PROVE ListInv'
  BY <1>9, <1>0, <1>a, <1>b DEF DecryptWith
<1>10. CASE GiveUp
  BY <1>10, <1>0, <1>a, <1>b DEF GiveUp, Return
<1>11. CASE BeginInner
  BY <1>11, <1>0, <1>a, <1>b DEF BeginInner
<1>12. CASE FailInner
  BY <1>12, <1>0, <1>a, <1>b DEF FailInner, Return
<1>13. CASE HandleInner
  BY <1>13, <1>0, <1>a, <1>b DEF HandleInner, Call
<1>14. CASE EndInner
  BY <1>14, <1>0, <1>a, <1>b DEF EndInner, Return
<1>15. CASE Acknowledge
  BY <1>15, <1>0, <1>a, <1>b DEF Acknowledge
<1>16. CASE Drop
  BY <1>16, <1>0, <1>a, <1>b DEF Drop
<1>17. CASE UNCHANGED vars
  BY <1>17 DEF vars
<1> QED
  BY <1>1, <1>2, <1>3, <1>4, <1>5, <1>6, <1>7, <1>8, <1>9, <1>10, <1>11, <1>12, <1>13, <1>14, <1>15, <1>16, <1>17
     DEF Next, OnEncryptedMessage

(* What has been seen stays seen; *)
LEMMA KeepSeen ==
    ASSUME UNCHANGED <<seen, drops, current>>, NEW h \in Handler
    PROVE  (Before(h) => Before(h)') /\ (UpTo(h) => UpTo(h)')
  BY DEF Before, UpTo

(* it is past when the next event or the next attempt comes. *)
LEMMA LeaveBehind ==
    ASSUME TypeOK, UNCHANGED seen, NEW h \in Handler, UpTo(h),
           (drops' = drops /\ current' = current + 1) \/ drops' = drops + 1
    PROVE  Before(h)' /\ UpTo(h)'
<1> SUFFICES ASSUME NEW i \in DOMAIN seen[h]
             PROVE  \/ seen[h][i][1] < drops'
                    \/ seen[h][i][1] = drops' /\ seen[h][i][2] < current' /\ seen[h][i][2] <= current'
  BY DEF Before, UpTo
<1>1. seen[h][i] \in (0 .. MaxDrops) \X Event
  BY ElementOfSeq, LenProperties DEF TypeOK
<1>2. seen[h][i][1] \in Nat /\ seen[h][i][2] \in Nat
  BY <1>1, MaxDropsAssumption, MaxEventAssumption DEF Event
<1>3. drops \in Nat /\ current \in Nat
  BY MaxDropsAssumption, MaxEventAssumption DEF TypeOK
<1>4. seen[h][i][1] < drops \/ (seen[h][i][1] = drops /\ seen[h][i][2] <= current)
  BY DEF UpTo
<1> QED
  BY <1>2, <1>3, <1>4

(* A handler that is called has seen the current event, and no other has. *)
LEMMA CallOnce ==
    ASSUME TypeOK, current \in Event, NEW h \in Handler, Before(h), Call(h),
           UNCHANGED <<drops, current>>
    PROVE  /\ UpTo(h)'
           /\ \A g \in Handler \ {h} : seen'[g] = seen[g] /\ (Before(g) => Before(g)') /\ (UpTo(g) => UpTo(g)')
<1> DEFINE s == seen[h]
           x == <<drops, current>>
           T == (0 .. MaxDrops) \X Event
<1>1. /\ s \in Seq(T) /\ x \in T /\ seen'[h] = Append(s, x)
      /\ \A g \in Handler \ {h} : seen'[g] = seen[g]
  BY DEF TypeOK, Call
<1>2. \A i \in DOMAIN s : s[i][1] < drops \/ (s[i][1] = drops /\ s[i][2] < current)
  BY DEF Before
<1>3. drops \in Nat /\ current \in Nat /\ x[1] = drops /\ x[2] = current
  BY MaxDropsAssumption, MaxEventAssumption DEF TypeOK
<1>4. \A i \in DOMAIN s : s[i][2] \in Nat
  <2> SUFFICES ASSUME NEW i \in DOMAIN s PROVE s[i][2] \in Nat
    OBVIOUS
  <2>1. s[i] \in T
    BY <1>1, ElementOfSeq, LenProperties
  <2> QED
    BY <2>1, MaxEventAssumption DEF Event
<1> HIDE DEF s, x, T
<1>5. /\ Len(s) \in Nat /\ DOMAIN s = 1 .. Len(s) /\ DOMAIN Append(s, x) = 1 .. Len(s) + 1
      /\ \A i \in 1 .. Len(s) : Append(s, x)[i] = s[i]
      /\ Append(s, x)[Len(s) + 1] = x
  BY <1>1, AppendProperties, LenProperties
<1>6. \A i \in DOMAIN Append(s, x) :
         Append(s, x)[i][1] < drops \/ (Append(s, x)[i][1] = drops /\ Append(s, x)[i][2] <= current)
  BY <1>2, <1>3, <1>4, <1>5
<1>7. UpTo(h)'
  BY <1>1, <1>6 DEF UpTo
<1> QED
  BY <1>1, <1>7 DEF Before, UpTo

(* A handler is called with the next event, never again with the same. *)
LEMMA SeenStep == ASSUME TypeOK, PlaceInv, ListInv, SeenInv, [Next]_vars PROVE SeenInv'
<1>0. Range(handlers["message"]) \subseteq Handler /\ Range(<<>>) = {}
  BY RangeOfSeq, NoList DEF PlaceInv
<1>1. ASSUME NEW h \in Handler, NEW type \in Type, Register(h, type) PROVE SeenInv'
  <2>1. handlers[type] \in Seq(Any) /\ h \in Any
    BY DEF TypeOK, Any
  <2>2. Range(Append(handlers[type], h)) = Range(handlers[type]) \cup {h}
    BY <2>1, AppendToList
  <2>3. handlers' = [handlers EXCEPT ![type] = Append(handlers[type], h)] /\ h \notin Registered
    BY <1>1 DEF Register
  <2>4. /\ Range(handlers'["message"]) \subseteq Range(handlers["message"]) \cup {h}
        /\ Registered \subseteq Registered'
    BY <2>2, <2>3 DEF Registered, TypeOK, Type
  <2>5. UNCHANGED <<seen, drops, current, pc, outer, inner>>
    BY <1>1 DEF Register, dispatchVars
  <2>6. Before(h)
    BY <2>3 DEF SeenInv, Before
  <2> QED
    BY <2>4, <2>5, <2>6, <1>0, KeepSeen DEF SeenInv
<1>2. ASSUME NEW d \in Device, NEW e \in Event, Learn(d, e) PROVE SeenInv'
  <2>1. Registered' = Registered /\ UNCHANGED <<seen, drops, current, handlers>>
    BY <1>2 DEF Learn, Registered, dispatchVars
  <2> QED
    BY <1>2, <2>1, <1>0, KeepSeen DEF Learn, SeenInv, dispatchVars
<1>3. CASE Begin
  <2>1. Registered' = Registered /\ UNCHANGED <<seen, drops, current, handlers>>
    BY <1>3 DEF Begin, Registered
  <2>2. \A g \in Handler : Before(g)
    BY <1>3 DEF Begin, SeenInv
  <2> QED
    BY <2>1, <2>2, <1>0, KeepSeen DEF SeenInv
<1>4. CASE Handle
  <2> DEFINE h == Head(outer)
  <2>1. /\ pc = "outer" /\ outer # <<>> /\ h # Decrypt /\ outer' = Tail(outer) /\ Call(h)
        /\ UNCHANGED <<drops, current, handlers, pc, inner>>
    BY <1>4 DEF Handle
  <2>2. /\ h \in Any /\ h \in Range(outer) /\ Range(outer') \subseteq Range(outer) \ {h}
    BY <2>1, TailOfList DEF TypeOK, ListInv, Any
  <2>3. inner = <<>> /\ Range(inner) = {} /\ current \in Event
    BY <2>1, NoList DEF TypeOK, PlaceInv
  <2>4. h \in Range(handlers[TypeOf(current)]) /\ TypeOf(current) \in Type
    BY <2>2 DEF ListInv, TypeOf, Type
  <2>5. Registered' = Registered /\ h \in Registered
    BY <2>1, <2>4 DEF Registered
  <2>6. Decrypt \in Range(outer) => h \notin Range(handlers["message"])
    BY <2>4 DEF PlaceInv, ListInv, TypeOf
  <2> HIDE DEF h
  <2>7. h \in Handler /\ Before(h)
    BY <2>1, <2>2 DEF SeenInv, Any
  <2> QED
    BY <2>1, <2>2, <2>3, <2>5, <2>6, <2>7, <1>0, CallOnce DEF SeenInv
<1>5. CASE End
  <2>1. Registered' = Registered /\ UNCHANGED <<seen, handlers>>
    BY <1>5 DEF End, Registered
  <2>2. (drops' = drops /\ current' = current + 1) \/ drops' = drops + 1
    BY <1>5 DEF End
  <2>3. \A g \in Handler : Before(g)' /\ UpTo(g)'
    BY <2>1, <2>2, LeaveBehind DEF SeenInv
  <2> QED
    BY <2>1, <2>3, <1>0 DEF SeenInv
<1>6. CASE FailRoom
  <2>1. Registered' = Registered /\ UNCHANGED <<seen, drops, current, handlers, inner>>
    BY <1>6 DEF FailRoom, Return, Registered, dispatchVars
  <2>2. outer # <<>> /\ Head(outer) = Decrypt /\ outer' = Tail(outer) /\ pc' = "outer"
    BY <1>6 DEF FailRoom, Return, PlaceInv
  <2>3. Decrypt \notin Range(outer') /\ Range(outer') \subseteq Range(outer)
    BY <2>2, TailOfList DEF TypeOK, ListInv
  <2> QED
    BY <2>1, <2>2, <2>3, <1>0, KeepSeen DEF SeenInv
<1>7. CASE FindUsers
  <2>1. Registered' = Registered /\ UNCHANGED <<seen, drops, current, handlers>>
    BY <1>7 DEF FindUsers, Registered, dispatchVars
  <2> QED
    BY <1>7, <2>1, <1>0, KeepSeen DEF FindUsers, SeenInv, dispatchVars
<1>8. ASSUME NEW d \in Device, FailDevice(d) PROVE SeenInv'
  <2>1. Registered' = Registered /\ UNCHANGED <<seen, drops, current, handlers>>
    BY <1>8 DEF FailDevice, Registered, dispatchVars
  <2> QED
    BY <1>8, <2>1, <1>0, KeepSeen DEF FailDevice, SeenInv, dispatchVars
<1>9. ASSUME NEW d \in Device, DecryptWith(d) PROVE SeenInv'
  <2>1. Registered' = Registered /\ UNCHANGED <<seen, drops, current, handlers>>
    BY <1>9 DEF DecryptWith, Registered, dispatchVars
  <2> QED
    BY <1>9, <2>1, <1>0, KeepSeen DEF DecryptWith, SeenInv, dispatchVars
<1>10. CASE GiveUp
  <2>1. Registered' = Registered /\ UNCHANGED <<seen, drops, current, handlers, inner>>
    BY <1>10 DEF GiveUp, Return, Registered, dispatchVars
  <2>2. outer # <<>> /\ Head(outer) = Decrypt /\ outer' = Tail(outer) /\ pc' = "outer"
    BY <1>10 DEF GiveUp, Return, PlaceInv
  <2>3. Decrypt \notin Range(outer') /\ Range(outer') \subseteq Range(outer)
    BY <2>2, TailOfList DEF TypeOK, ListInv
  <2> QED
    BY <2>1, <2>2, <2>3, <1>0, KeepSeen DEF SeenInv
<1>11. CASE BeginInner
  <2>1. Registered' = Registered /\ UNCHANGED <<seen, drops, current, handlers, outer>>
    BY <1>11 DEF BeginInner, Registered
  <2>2. pc = "dispatch" /\ pc' = "inner" /\ inner' = handlers["message"]
    BY <1>11 DEF BeginInner
  <2>3. Decrypt \in Range(outer)
    BY <2>2, TailOfList DEF PlaceInv, TypeOK
  <2> QED
    BY <2>1, <2>2, <2>3, <1>0, KeepSeen DEF SeenInv
<1>12. CASE FailInner
  <2>1. Registered' = Registered /\ UNCHANGED <<seen, drops, current, handlers, inner>>
    BY <1>12 DEF FailInner, Return, Registered, dispatchVars
  <2>2. outer # <<>> /\ Head(outer) = Decrypt /\ outer' = Tail(outer) /\ pc' = "outer"
    BY <1>12 DEF FailInner, Return, PlaceInv
  <2>3. Decrypt \notin Range(outer') /\ Range(outer') \subseteq Range(outer)
    BY <2>2, TailOfList DEF TypeOK, ListInv
  <2> QED
    BY <2>1, <2>2, <2>3, <1>0, KeepSeen DEF SeenInv
<1>13. CASE HandleInner
  <2> DEFINE h == Head(inner)
  <2>1. /\ pc = "inner" /\ inner # <<>> /\ inner' = Tail(inner) /\ Call(h)
        /\ UNCHANGED <<drops, current, handlers, pc, outer>>
    BY <1>13 DEF HandleInner
  <2>2. /\ h \in Handler /\ h \in Range(inner) /\ Range(inner') \subseteq Range(inner) \ {h}
    BY <2>1, TailOfList DEF TypeOK, ListInv
  <2>3. current \in Encrypted /\ current \in Event
    BY <2>1, TailOfList DEF TypeOK, PlaceInv
  <2>4. h \in Range(handlers["message"]) /\ h \notin Range(outer)
    BY <2>2, <2>3 DEF ListInv, TypeOf
  <2>5. Registered' = Registered /\ h \in Registered
    BY <2>1, <2>4 DEF Registered, Type
  <2> HIDE DEF h
  <2>6. Before(h)
    BY <2>2 DEF SeenInv
  <2> QED
    BY <2>1, <2>2, <2>3, <2>4, <2>5, <2>6, <1>0, CallOnce DEF SeenInv
<1>14. CASE EndInner
  <2>1. Registered' = Registered /\ UNCHANGED <<seen, drops, current, handlers, inner>>
    BY <1>14 DEF EndInner, Return, Registered, dispatchVars
  <2>2. outer # <<>> /\ Head(outer) = Decrypt /\ outer' = Tail(outer) /\ pc' = "outer"
    BY <1>14 DEF EndInner, Return, PlaceInv
  <2>3. Decrypt \notin Range(outer') /\ Range(outer') \subseteq Range(outer)
    BY <2>2, TailOfList DEF TypeOK, ListInv
  <2> QED
    BY <2>1, <2>2, <2>3, <1>0, KeepSeen DEF SeenInv
<1>15. CASE Acknowledge
  <2>1. Registered' = Registered /\ UNCHANGED <<seen, drops, current, handlers>>
    BY <1>15 DEF Acknowledge, Registered, dispatchVars
  <2> QED
    BY <1>15, <2>1, <1>0, KeepSeen DEF Acknowledge, SeenInv, dispatchVars
<1>16. CASE Drop
  <2>1. Registered' = Registered /\ UNCHANGED <<seen, handlers>>
    BY <1>16 DEF Drop, Registered
  <2>2. (drops' = drops /\ current' = current + 1) \/ drops' = drops + 1
    BY <1>16 DEF Drop
  <2>3. \A g \in Handler : Before(g)' /\ UpTo(g)'
    BY <2>1, <2>2, LeaveBehind DEF SeenInv
  <2> QED
    BY <2>1, <2>3, <1>0 DEF SeenInv
<1>17. CASE UNCHANGED vars
  BY <1>17, <1>0, KeepSeen DEF vars, dispatchVars, SeenInv, Registered
<1> QED
  BY <1>1, <1>2, <1>3, <1>4, <1>5, <1>6, <1>7, <1>8, <1>9, <1>10, <1>11, <1>12, <1>13, <1>14, <1>15, <1>16, <1>17
     DEF Next, OnEncryptedMessage

-----------------------------------------------------------------------------
(* The order is kept by a call of a handler that has not seen the event. *)
LEMMA CallInOrder ==
    ASSUME TypeOK, InOrderOnceEach, current \in Event, NEW h \in Handler, Before(h), Call(h)
    PROVE  InOrderOnceEach'
<1> DEFINE s == seen[h]
           x == <<drops, current>>
           T == (0 .. MaxDrops) \X Event
<1>1. s \in Seq(T) /\ x \in T /\ seen' = [seen EXCEPT ![h] = Append(s, x)] /\ seen'[h] = Append(s, x)
  BY DEF TypeOK, Call
<1>2. \A i \in DOMAIN s : s[i][1] < x[1] \/ (s[i][1] = x[1] /\ s[i][2] < x[2])
  BY DEF Before
<1>3. \A i, j \in DOMAIN s : i < j => s[i][1] < s[j][1] \/ (s[i][1] = s[j][1] /\ s[i][2] < s[j][2])
  BY DEF InOrderOnceEach
<1> HIDE DEF s, x, T
<1>4. /\ Len(s) \in Nat /\ DOMAIN s = 1 .. Len(s) /\ DOMAIN Append(s, x) = 1 .. Len(s) + 1
      /\ \A i \in 1 .. Len(s) : Append(s, x)[i] = s[i]
      /\ Append(s, x)[Len(s) + 1] = x
  BY <1>1, AppendProperties, LenProperties
<1>5. ASSUME NEW i \in DOMAIN Append(s, x), NEW j \in DOMAIN Append(s, x), i < j
      PROVE  \/ Append(s, x)[i][1] < Append(s, x)[j][1]
             \/ Append(s, x)[i][1] = Append(s, x)[j][1] /\ Append(s, x)[i][2] < Append(s, x)[j][2]
  <2>1. i \in 1 .. Len(s) /\ Append(s, x)[i] = s[i]
    BY <1>4, <1>5
  <2>2. CASE j \in 1 .. Len(s)
    BY <1>3, <1>4, <1>5, <2>1, <2>2
  <2>3. CASE j = Len(s) + 1
    BY <1>2, <1>4, <2>1, <2>3
  <2> QED
    BY <1>4, <2>2, <2>3
<1>6. \A g \in Handler \ {h} : seen'[g] = seen[g]
  BY <1>1 DEF TypeOK
<1> QED
  BY <1>1, <1>5, <1>6 DEF InOrderOnceEach

(* Every step keeps the order. *)
LEMMA OrderStep ==
    ASSUME TypeOK, PlaceInv, ListInv, SeenInv, InOrderOnceEach, [Next]_vars PROVE InOrderOnceEach'
<1>1. CASE Handle
  <2>1. /\ outer # <<>> /\ Head(outer) # Decrypt /\ Call(Head(outer)) /\ current \in Event
    BY <1>1 DEF Handle, PlaceInv
  <2>2. Head(outer) \in Handler /\ Head(outer) \in Range(outer)
    BY <2>1, TailOfList DEF TypeOK
  <2>3. Before(Head(outer))
    BY <2>2 DEF SeenInv
  <2> QED
    BY <2>1, <2>2, <2>3, CallInOrder
<1>2. CASE HandleInner
  <2>1. /\ inner # <<>> /\ Call(Head(inner)) /\ current \in Event
    BY <1>2 DEF HandleInner, PlaceInv
  <2>2. Head(inner) \in Handler /\ Head(inner) \in Range(inner)
    BY <2>1, TailOfList DEF TypeOK
  <2>3. Before(Head(inner))
    BY <2>2 DEF SeenInv
  <2> QED
    BY <2>1, <2>2, <2>3, CallInOrder
<1>3. CASE UNCHANGED seen
  BY <1>3 DEF InOrderOnceEach
<1> QED
  BY <1>1, <1>2, <1>3
     DEF Next, OnEncryptedMessage, Register, Learn, Begin, End, FailRoom, FindUsers, FailDevice,
         DecryptWith, GiveUp, BeginInner, FailInner, EndInner, Acknowledge, Drop, vars

-----------------------------------------------------------------------------
(* Nobody misses an event.                                                  *)

(* The base handler comes first: while it is still to run, no handler of    *)
(* encrypted events has seen the current one.                               *)
FirstInv ==
    /\ handlers["encrypted"] # <<>> /\ Head(handlers["encrypted"]) = Decrypt
    /\ Decrypt \in Range(outer) =>
          /\ Head(outer) = Decrypt
          /\ \A h \in Range(handlers["encrypted"]) \ {Decrypt} : Before(h)

(* Somebody still has the key of an event that was readable, and while its  *)
(* devices are tried one of those is among the devices that are left.       *)
KeyInv ==
    /\ \A e \in keyed : holders[e] # {}
    /\ pc = "decrypt" /\ current \in keyed => candidates \cap holders[current] # {}

(* The current event has not been decrypted yet. *)
ToBeDecrypted == pc # "inner" /\ Decrypt \in Range(outer)

(* Whoever the current event is due to has seen it, is on the list of those *)
(* to be called, or is called when it is decrypted, if it can be.           *)
Due(h) == \/ Saw(h, current)
          \/ h \in Range(outer) \cup Range(inner)
          \/ /\ h \in Range(handlers["message"]) /\ current \in Encrypted
             /\ ToBeDecrypted \/ current \notin keyed \ excused

DueInv == pc # "idle" => \A h \in due[current] : Due(h)

(* The handlers of a list are the first and the others. *)
LEMMA FirstAndOthers ==
    ASSUME NEW S, NEW s \in Seq(S), s # <<>>
    PROVE  Range(s) = {Head(s)} \cup Range(Tail(s))
<1> DEFINE t == Tail(s)
<1>1. /\ t \in Seq(S) /\ Len(t) = Len(s) - 1 /\ \A i \in 1 .. Len(t) : t[i] = s[i + 1]
      /\ Head(s) = s[1] /\ Len(s) \in Nat \ {0}
  BY HeadTailProperties, LenProperties, EmptySeq
<1>2. Range(s) = {s[i] : i \in 1 .. Len(s)} /\ Range(t) = {t[i] : i \in 1 .. Len(t)}
  <2>1. \A q \in Seq(S) : Range(q) = {q[i] : i \in 1 .. Len(q)}
    BY RangeEquality
  <2> QED
    BY <1>1, <2>1
<1> HIDE DEF t
<1>3. \A i \in 1 .. Len(s) : i = 1 \/ (i - 1 \in 1 .. Len(t) /\ t[i - 1] = s[i])
  BY <1>1
<1>4. Range(s) \subseteq {Head(s)} \cup Range(t)
  BY <1>1, <1>2, <1>3
<1>5. {Head(s)} \cup Range(t) \subseteq Range(s)
  BY TailOfList DEF t
<1> QED
  BY <1>4, <1>5 DEF t

(* A call leaves what was seen before where it is, and adds the event. *)
LEMMA CallAppends ==
    ASSUME TypeOK, current \in Event, NEW h \in Handler, Call(h), UNCHANGED current
    PROVE  /\ \E i \in DOMAIN seen'[h] : seen'[h][i][2] = current
           /\ \A g \in Handler : \A i \in DOMAIN seen[g] : i \in DOMAIN seen'[g] /\ seen'[g][i] = seen[g][i]
<1> DEFINE s == seen[h]
           x == <<drops, current>>
           T == (0 .. MaxDrops) \X Event
<1>1. /\ s \in Seq(T) /\ x \in T /\ seen'[h] = Append(s, x)
      /\ \A g \in Handler \ {h} : seen'[g] = seen[g]
  BY DEF TypeOK, Call
<1>2. x[2] = current
  OBVIOUS
<1> HIDE DEF s, x, T
<1>3. /\ Len(s) \in Nat /\ DOMAIN s = 1 .. Len(s) /\ DOMAIN Append(s, x) = 1 .. Len(s) + 1
      /\ \A i \in 1 .. Len(s) : Append(s, x)[i] = s[i]
      /\ Append(s, x)[Len(s) + 1] = x
  BY <1>1, AppendProperties, LenProperties
<1>4. \A i \in DOMAIN s : i \in DOMAIN Append(s, x) /\ Append(s, x)[i] = s[i]
  BY <1>3
<1>5. Len(s) + 1 \in DOMAIN Append(s, x)
  BY <1>3
<1>6. \E i \in DOMAIN seen'[h] : seen'[h][i][2] = current
  BY <1>1, <1>2, <1>3, <1>5
<1> QED
  BY <1>1, <1>4, <1>6 DEF s

(* What has been seen stays seen, whatever happens. *)
LEMMA SeenGrows ==
    ASSUME TypeOK, PlaceInv, [Next]_vars
    PROVE  \A g \in Handler : \A i \in DOMAIN seen[g] : i \in DOMAIN seen'[g] /\ seen'[g][i] = seen[g][i]
<1>1. CASE Handle
  <2>1. /\ outer # <<>> /\ Head(outer) # Decrypt /\ Call(Head(outer)) /\ current \in Event
        /\ UNCHANGED current
    BY <1>1 DEF Handle, PlaceInv
  <2>2. Head(outer) \in Handler
    BY <2>1, TailOfList DEF TypeOK
  <2> QED
    BY <2>1, <2>2, CallAppends
<1>2. CASE HandleInner
  <2>1. inner # <<>> /\ Call(Head(inner)) /\ current \in Event /\ UNCHANGED current
    BY <1>2 DEF HandleInner, PlaceInv
  <2>2. Head(inner) \in Handler
    BY <2>1, TailOfList DEF TypeOK
  <2> QED
    BY <2>1, <2>2, CallAppends
<1>3. CASE UNCHANGED seen
  BY <1>3
<1> QED
  BY <1>1, <1>2, <1>3
     DEF Next, OnEncryptedMessage, Register, Learn, Begin, End, FailRoom, FindUsers, FailDevice,
         DecryptWith, GiveUp, BeginInner, FailInner, EndInner, Acknowledge, Drop, vars

(* Somebody keeps having the key. *)
LEMMA KeyStep == ASSUME TypeOK, PlaceInv, KeyInv, [Next]_vars PROVE KeyInv'
<1> USE DEF KeyInv, TypeOK
<1>1. ASSUME NEW h \in Handler, NEW type \in Type, Register(h, type) PROVE KeyInv'
  BY <1>1 DEF Register, dispatchVars, historyVars
<1>2. ASSUME NEW d \in Device, NEW e \in Event, Learn(d, e) PROVE KeyInv'
  <2>1. \A f \in Event : holders[f] \subseteq holders'[f]
    BY <1>2 DEF Learn
  <2>2. keyed \subseteq Event /\ UNCHANGED <<keyed, pc, current, candidates>>
    BY <1>2, EncryptedAssumption DEF Learn, dispatchVars, historyVars
  <2> QED
    BY <2>1, <2>2
<1>3. CASE Begin
  BY <1>3 DEF Begin
<1>4. CASE Handle
  BY <1>4 DEF Handle, historyVars
<1>5. CASE End
  BY <1>5 DEF End, historyVars
<1>6. CASE FailRoom
  BY <1>6 DEF FailRoom, Return
<1>7. CASE FindUsers
  <2>1. /\ UNCHANGED <<holders, current>> /\ candidates' = Device
        /\ keyed' = IF holders[current] # {} THEN keyed \cup {current} ELSE keyed
    BY <1>7 DEF FindUsers
  <2>2. holders[current] \subseteq Device
    BY <1>7 DEF PlaceInv, FindUsers
  <2> QED
    BY <2>1, <2>2
<1>8. ASSUME NEW d \in Device, FailDevice(d) PROVE KeyInv'
  BY <1>8 DEF FailDevice, historyVars
<1>9. ASSUME NEW d \in Device, DecryptWith(d) PROVE KeyInv'
  BY <1>9 DEF DecryptWith, historyVars
<1>10. CASE GiveUp
  BY <1>10 DEF GiveUp, Return, historyVars
<1>11. CASE BeginInner
  BY <1>11 DEF BeginInner, historyVars
<1>12. CASE FailInner
  BY <1>12 DEF FailInner, Return
<1>13. CASE HandleInner
  BY <1>13 DEF HandleInner, historyVars
<1>14. CASE EndInner
  BY <1>14 DEF EndInner, Return, historyVars
<1>15. CASE Acknowledge
  BY <1>15 DEF Acknowledge, dispatchVars, historyVars
<1>16. CASE Drop
  BY <1>16 DEF Drop, historyVars
<1>17. CASE UNCHANGED vars
  BY <1>17 DEF vars, dispatchVars, historyVars
<1> QED
  BY <1>1, <1>2, <1>3, <1>4, <1>5, <1>6, <1>7, <1>8, <1>9, <1>10, <1>11, <1>12, <1>13, <1>14, <1>15, <1>16, <1>17
     DEF Next, OnEncryptedMessage

(* The base handler stays in front. *)
LEMMA FirstStep ==
    ASSUME TypeOK, PlaceInv, ListInv, SeenInv, FirstInv, [Next]_vars PROVE FirstInv'
<1> DEFINE Others == Range(handlers["encrypted"]) \ {Decrypt}
<1>0. Others \subseteq Handler
  <2>1. handlers["encrypted"] \in Seq(Any)
    BY DEF TypeOK, Type, Any
  <2> QED
    BY <2>1, RangeOfSeq DEF Any
<1>1. ASSUME NEW h \in Handler, NEW type \in Type, Register(h, type) PROVE FirstInv'
  <2>1. /\ UNCHANGED <<seen, drops, current, pc, outer>> /\ h \notin Registered
        /\ handlers' = [handlers EXCEPT ![type] = Append(handlers[type], h)]
    BY <1>1 DEF Register, dispatchVars
  <2>2. handlers["encrypted"] \in Seq(Any) /\ h \in Any
    BY DEF TypeOK, Type, Any
  <2>3. /\ Append(handlers["encrypted"], h) # <<>>
        /\ Head(Append(handlers["encrypted"], h)) = Decrypt
        /\ Range(Append(handlers["encrypted"], h)) = Range(handlers["encrypted"]) \cup {h}
    BY <2>2, AppendToList DEF FirstInv
  <2>4. handlers'["encrypted"] \in {handlers["encrypted"], Append(handlers["encrypted"], h)}
    BY <2>1 DEF TypeOK, Type
  <2>5. Before(h)
    BY <2>1 DEF SeenInv, Before
  <2> QED
    BY <1>0, <2>1, <2>3, <2>4, <2>5, KeepSeen DEF FirstInv
<1>2. ASSUME NEW d \in Device, NEW e \in Event, Learn(d, e) PROVE FirstInv'
  BY <1>2, <1>0, KeepSeen DEF Learn, FirstInv, dispatchVars
<1>3. CASE Begin
  <2>1. /\ pc = "idle" /\ outer' = handlers[TypeOf(current)]
        /\ UNCHANGED <<seen, drops, current, handlers>>
    BY <1>3 DEF Begin
  <2>2. \A g \in Others : Before(g)
    BY <1>0, <2>1 DEF SeenInv
  <2>3. Decrypt \in Range(outer') => outer' = handlers["encrypted"]
    BY <2>1, RangeOfSeq, DecryptAssumption DEF TypeOf, PlaceInv
  <2> QED
    BY <1>0, <2>1, <2>2, <2>3, KeepSeen DEF FirstInv
<1>4. CASE Handle
  <2>1. outer # <<>> /\ Head(outer) # Decrypt /\ outer' = Tail(outer) /\ UNCHANGED handlers
    BY <1>4 DEF Handle
  <2>2. Decrypt \notin Range(outer')
    BY <2>1, TailOfList DEF FirstInv, TypeOK
  <2> QED
    BY <2>1, <2>2 DEF FirstInv
<1>5. CASE End
  <2>1. Decrypt \notin Range(outer') /\ UNCHANGED handlers
    BY <1>5, NoList DEF End
  <2> QED
    BY <2>1 DEF FirstInv
<1>6. CASE Return /\ UNCHANGED handlers /\ outer # <<>> /\ Head(outer) = Decrypt
  <2>1. Decrypt \notin Range(outer')
    BY <1>6, TailOfList DEF Return, TypeOK, ListInv
  <2> QED
    BY <1>6, <2>1 DEF FirstInv
<1>7. CASE HandleInner
  <2>1. /\ pc = "inner" /\ inner # <<>> /\ Call(Head(inner))
        /\ UNCHANGED <<drops, current, handlers, outer>>
    BY <1>7 DEF HandleInner
  <2>2. Head(inner) \in Handler /\ Head(inner) \in Range(inner)
    BY <2>1, TailOfList DEF TypeOK
  <2>3. current \in Event /\ Head(inner) \notin Others
    BY <2>1, <2>2 DEF PlaceInv, ListInv
  <2>4. Before(Head(inner))
    BY <2>2 DEF SeenInv
  <2>5. \A g \in Others : Before(g) => Before(g)'
    BY <1>0, <2>1, <2>2, <2>3, <2>4, CallOnce
  <2> QED
    BY <2>1, <2>5 DEF FirstInv
<1>8. CASE UNCHANGED <<seen, drops, current, handlers, outer>>
  BY <1>8, <1>0, KeepSeen DEF FirstInv
<1>9. CASE Drop
  <2>1. Decrypt \notin Range(outer') /\ UNCHANGED handlers
    BY <1>9, NoList DEF Drop
  <2> QED
    BY <2>1 DEF FirstInv
<1>10. FailRoom \/ GiveUp \/ FailInner \/ EndInner =>
          Return /\ UNCHANGED handlers /\ outer # <<>> /\ Head(outer) = Decrypt
  BY DEF FailRoom, GiveUp, FailInner, EndInner, PlaceInv
<1> QED
  BY <1>1, <1>2, <1>3, <1>4, <1>5, <1>6, <1>7, <1>8, <1>9, <1>10
     DEF Next, OnEncryptedMessage, FindUsers, FailDevice, DecryptWith, BeginInner, Acknowledge,
         vars, dispatchVars

(* Nobody the current event is due to is forgotten. *)
LEMMA DueStep ==
    ASSUME TypeOK, PlaceInv, ListInv, FirstInv, KeyInv, DueInv, [Next]_vars PROVE DueInv'
<1> DEFINE Keeps == /\ UNCHANGED <<current, due>> /\ pc # "idle"
                    /\ \A h \in Handler : Saw(h, current) => Saw(h, current)'
<1>a. current \in Event => due[current] \subseteq Handler
  BY DEF TypeOK
<1>b. pc # "idle" => due[current] \subseteq Handler
  BY <1>a DEF PlaceInv
<1>c. UNCHANGED current => \A h \in Handler : Saw(h, current) => Saw(h, current)'
  BY SeenGrows DEF Saw
<1>d. UNCHANGED <<current, due>> /\ pc # "idle" => Keeps
  BY <1>c
<1> HIDE DEF Keeps
<1>k. ASSUME Keeps,
             \A h \in due[current] : Due(h) /\ ~ Saw(h, current) =>
                \/ Saw(h, current)'
                \/ h \in Range(outer') \cup Range(inner')
                \/ /\ h \in Range(handlers'["message"]) /\ current \in Encrypted
                   /\ (ToBeDecrypted)' \/ current \notin keyed' \ excused'
      PROVE  DueInv'
  BY <1>k, <1>b DEF Keeps, DueInv, Due
<1>1. ASSUME NEW h \in Handler, NEW type \in Type, Register(h, type) PROVE DueInv'
  <2>1. /\ UNCHANGED <<seen, current, due, pc, outer, inner, keyed, excused>>
        /\ handlers' = [handlers EXCEPT ![type] = Append(handlers[type], h)]
    BY <1>1 DEF Register, dispatchVars, historyVars
  <2>2. handlers["message"] \in Seq(Handler)
    BY DEF PlaceInv
  <2>3. Range(Append(handlers["message"], h)) = Range(handlers["message"]) \cup {h}
    BY <2>2, AppendToList
  <2>4. handlers'["message"] \in {handlers["message"], Append(handlers["message"], h)}
    BY <2>1 DEF TypeOK, Type
  <2>5. Range(handlers["message"]) \subseteq Range(handlers'["message"])
    BY <2>3, <2>4
  <2>6. (ToBeDecrypted)' = ToBeDecrypted
    BY <2>1 DEF ToBeDecrypted
  <2>7. CASE pc = "idle"
    BY <2>1, <2>7 DEF DueInv
  <2>8. CASE pc # "idle"
    BY <1>d, <1>k, <2>1, <2>5, <2>6, <2>8 DEF Due
  <2> QED
    BY <2>7, <2>8
<1>2. CASE UNCHANGED <<seen, current, due, pc, outer, inner, handlers, keyed, excused>>
  BY <1>2 DEF DueInv, Due, Saw, ToBeDecrypted
<1>3. CASE Begin
  <2>1. /\ current \in Event /\ UNCHANGED <<current, handlers>> /\ pc' = "outer"
        /\ outer' = handlers[TypeOf(current)]
        /\ due' = [due EXCEPT ![current] =
                      Range(handlers["message"] \o handlers[TypeOf(current)]) \ {Decrypt}]
    BY <1>3 DEF Begin
  <2>2. handlers["message"] \in Seq(Any) /\ handlers[TypeOf(current)] \in Seq(Any)
    BY DEF TypeOK, Type, TypeOf, Any
  <2>3. due'[current] \subseteq Range(handlers["message"]) \cup Range(outer')
    <3>1. due'[current] = Range(handlers["message"] \o handlers[TypeOf(current)]) \ {Decrypt}
      BY <2>1 DEF TypeOK
    <3> QED
      BY <2>1, <2>2, <3>1, RangeConcatenation
  <2>4. CASE current \in Encrypted
    <3>1. outer' = handlers["encrypted"]
      BY <2>1, <2>4 DEF TypeOf
    <3>2. handlers["encrypted"] \in Seq(Any)
      BY DEF TypeOK, Type, Any
    <3>3. Decrypt \in Range(outer')
      BY <3>1, <3>2, TailOfList DEF FirstInv
    <3>4. (ToBeDecrypted)'
      BY <2>1, <3>3 DEF ToBeDecrypted
    <3> QED
      BY <2>1, <2>3, <2>4, <3>4 DEF DueInv, Due
  <2>5. CASE current \notin Encrypted
    <3>1. outer' = handlers["message"]
      BY <2>1, <2>5 DEF TypeOf
    <3> QED
      BY <2>1, <2>3, <3>1 DEF DueInv, Due
  <2> QED
    BY <2>4, <2>5
<1>4. CASE Handle
  <2>1. /\ pc = "outer" /\ outer # <<>> /\ Head(outer) # Decrypt /\ Call(Head(outer))
        /\ outer' = Tail(outer)
        /\ UNCHANGED <<handlers, pc, current, inner, due, keyed, excused>>
    BY <1>4 DEF Handle, historyVars
  <2>2. Head(outer) \in Handler /\ Range(outer) = {Head(outer)} \cup Range(outer')
    BY <2>1, TailOfList, FirstAndOthers DEF TypeOK
  <2>3. current \in Event
    BY <2>1 DEF PlaceInv
  <2>4. \E i \in DOMAIN seen'[Head(outer)] : seen'[Head(outer)][i][2] = current
    BY <2>1, <2>2, <2>3, CallAppends
  <2>5. \A h \in Handler : h = Head(outer) => Saw(h, current)'
    BY <2>1, <2>4 DEF Saw
  <2>6. ~ ToBeDecrypted
    BY <2>1 DEF FirstInv, ToBeDecrypted
  <2>7. Keeps
    BY <1>d, <2>1
  <2>8. due[current] \subseteq Handler
    BY <1>a, <2>3
  <2> QED
    BY <1>k, <2>1, <2>2, <2>5, <2>6, <2>7, <2>8 DEF Due
<1>5. CASE End \/ Drop
  <2>1. pc' = "idle"
    BY <1>5 DEF End, Drop
  <2> QED
    BY <2>1 DEF DueInv
<1>6. ASSUME Return, UNCHANGED <<current, inner, due, handlers>>, inner = <<>>, pc # "idle",
             keyed' = keyed, excused \subseteq excused', current \in Encrypted,
             outer # <<>>, Head(outer) = Decrypt,
             pc = "inner" \/ current \notin keyed' \ excused'
      PROVE  DueInv'
  <2>1. Keeps
    BY <1>6, <1>d
  <2>2. Range(outer) = {Decrypt} \cup Range(outer') /\ Decrypt \notin Handler
    BY <1>6, FirstAndOthers, DecryptAssumption DEF Return, TypeOK
  <2>3. due[current] \subseteq Handler
    BY <1>b, <1>6
  <2>4. ASSUME NEW h \in due[current], Due(h), ~ Saw(h, current)
        PROVE  \/ h \in Range(outer') \cup Range(inner')
               \/ /\ h \in Range(handlers'["message"]) /\ current \in Encrypted
                  /\ current \notin keyed' \ excused'
    <3>1. CASE h \in Range(outer) \cup Range(inner)
      BY <1>6, <2>2, <2>3, <3>1
    <3>2. CASE /\ h \in Range(handlers["message"])
               /\ ToBeDecrypted \/ current \notin keyed \ excused
      BY <1>6, <3>2 DEF ToBeDecrypted
    <3> QED
      BY <2>4, <3>1, <3>2 DEF Due
  <2> QED
    BY <1>k, <2>1, <2>4
<1>7. CASE FailRoom
  <2>1. /\ Return /\ UNCHANGED <<current, inner, due, handlers, keyed>> /\ pc = "outer"
        /\ excused' = excused \cup {current} /\ outer # <<>> /\ Head(outer) = Decrypt
    BY <1>7 DEF FailRoom
  <2>2. inner = <<>> /\ current \in Encrypted
    BY <2>1, TailOfList DEF TypeOK, PlaceInv
  <2> QED
    BY <1>6, <2>1, <2>2
<1>8. CASE FindUsers
  <2>1. /\ pc = "outer" /\ pc' = "decrypt" /\ outer # <<>> /\ Head(outer) = Decrypt
        /\ UNCHANGED <<handlers, current, outer, inner, due>>
    BY <1>8 DEF FindUsers
  <2>2. Decrypt \in Range(outer)
    BY <2>1, TailOfList DEF TypeOK
  <2>3. (ToBeDecrypted)'
    BY <2>1, <2>2 DEF ToBeDecrypted
  <2>4. Keeps
    BY <1>d, <2>1
  <2> QED
    BY <1>k, <2>1, <2>3, <2>4 DEF Due
<1>9. ASSUME NEW d \in Device, FailDevice(d) \/ DecryptWith(d) PROVE DueInv'
  <2>1. /\ UNCHANGED <<handlers, current, outer, inner, due, keyed, excused>>
        /\ pc = "decrypt" /\ pc' \in {"decrypt", "dispatch"}
    BY <1>9 DEF FailDevice, DecryptWith, historyVars
  <2>2. (ToBeDecrypted)' = ToBeDecrypted
    BY <2>1 DEF ToBeDecrypted
  <2>3. Keeps
    BY <1>d, <2>1
  <2> QED
    BY <1>k, <2>1, <2>2, <2>3 DEF Due
<1>10. CASE GiveUp
  <2>1. /\ Return /\ UNCHANGED <<current, inner, due, handlers, keyed, excused>>
        /\ pc = "decrypt" /\ candidates = {}
    BY <1>10 DEF GiveUp, historyVars
  <2>2. outer # <<>> /\ Head(outer) = Decrypt /\ inner = <<>> /\ current \notin keyed
    BY <2>1 DEF TypeOK, PlaceInv, KeyInv
  <2>3. current \in Encrypted
    BY <2>2, TailOfList DEF TypeOK, PlaceInv
  <2> QED
    BY <1>6, <2>1, <2>2, <2>3
<1>11. CASE BeginInner
  <2>1. /\ pc = "dispatch" /\ pc' = "inner" /\ inner' = handlers["message"]
        /\ UNCHANGED <<handlers, current, outer, due, keyed, excused>>
    BY <1>11 DEF BeginInner, historyVars
  <2>2. inner = <<>> /\ Range(inner) = {}
    BY <2>1, NoList DEF TypeOK
  <2>3. Keeps
    BY <1>d, <2>1
  <2> QED
    BY <1>k, <2>1, <2>2, <2>3 DEF Due
<1>12. CASE FailInner
  <2>1. /\ Return /\ UNCHANGED <<current, inner, due, handlers, keyed>> /\ pc = "dispatch"
        /\ excused' = excused \cup {current}
    BY <1>12 DEF FailInner
  <2>2. outer # <<>> /\ Head(outer) = Decrypt /\ inner = <<>>
    BY <2>1 DEF TypeOK, PlaceInv
  <2>3. current \in Encrypted
    BY <2>2, TailOfList DEF TypeOK, PlaceInv
  <2> QED
    BY <1>6, <2>1, <2>2, <2>3
<1>13. CASE HandleInner
  <2>1. /\ pc = "inner" /\ inner # <<>> /\ Call(Head(inner)) /\ inner' = Tail(inner)
        /\ UNCHANGED <<handlers, pc, current, outer, due, keyed, excused>>
    BY <1>13 DEF HandleInner, historyVars
  <2>2. Head(inner) \in Handler /\ Range(inner) = {Head(inner)} \cup Range(inner')
    BY <2>1, TailOfList, FirstAndOthers DEF TypeOK
  <2>3. current \in Event
    BY <2>1 DEF PlaceInv
  <2>4. \E i \in DOMAIN seen'[Head(inner)] : seen'[Head(inner)][i][2] = current
    BY <2>1, <2>2, <2>3, CallAppends
  <2>5. \A h \in Handler : h = Head(inner) => Saw(h, current)'
    BY <2>1, <2>4 DEF Saw
  <2>6. ~ ToBeDecrypted
    BY <2>1 DEF ToBeDecrypted
  <2>7. Keeps
    BY <1>d, <2>1
  <2>8. due[current] \subseteq Handler
    BY <1>a, <2>3
  <2> QED
    BY <1>k, <2>1, <2>2, <2>5, <2>6, <2>7, <2>8 DEF Due
<1>14. CASE EndInner
  <2>1. /\ Return /\ UNCHANGED <<current, inner, due, handlers, keyed, excused>>
        /\ pc = "inner" /\ inner = <<>>
    BY <1>14 DEF EndInner, historyVars
  <2>2. outer # <<>> /\ Head(outer) = Decrypt
    BY <2>1 DEF PlaceInv
  <2>3. current \in Encrypted
    BY <2>2, TailOfList DEF TypeOK, PlaceInv
  <2> QED
    BY <1>6, <2>1, <2>2, <2>3
<1> QED
  BY <1>1, <1>2, <1>3, <1>4, <1>5, <1>7, <1>8, <1>9, <1>10, <1>11, <1>12, <1>13, <1>14
     DEF Next, OnEncryptedMessage, Learn, Acknowledge, vars, dispatchVars, historyVars

(* Nor one of those an earlier event was due to: when the dispatcher leaves *)
(* an event nobody is left to be called, and nothing is unseen again.       *)
LEMMA PastStep ==
    ASSUME TypeOK, PlaceInv, ListInv, DueInv, NobodyMissesReadableEvents, [Next]_vars
    PROVE  NobodyMissesReadableEvents'
<1>a. \A e \in 1 .. current - 1 : due[e] \subseteq Handler
  BY MaxEventAssumption DEF TypeOK, Event
<1>b. \A h \in Handler : \A e \in Event : Saw(h, e) => \E i \in DOMAIN seen'[h] : seen'[h][i][2] = e
  BY SeenGrows DEF Saw
<1>c. 1 .. current - 1 \subseteq Event /\ current \in Nat
  BY MaxEventAssumption DEF TypeOK, Event
<1>d. \A n \in Nat : n <= current => \A e \in 1 .. n - 1 : e \in 1 .. current - 1 /\ e # current
  BY <1>c
<1>k. ASSUME Range(handlers["message"]) \subseteq Range(handlers'["message"]),
             current' \in Nat, current' <= current,
             \A e \in Event \ {current} : due'[e] = due[e],
             keyed' \subseteq keyed \cup {current}, excused \subseteq excused'
      PROVE  NobodyMissesReadableEvents'
  <2> SUFFICES ASSUME NEW e \in 1 .. current' - 1, NEW h \in due'[e]
               PROVE  \/ \E i \in DOMAIN seen'[h] : seen'[h][i][2] = e
                      \/ h \in Range(handlers'["message"]) /\ e \in Encrypted \ (keyed' \ excused')
    BY DEF NobodyMissesReadableEvents, Saw
  <2>1. e \in 1 .. current - 1 /\ e # current /\ e \in Event
    <3>1. current' \in Nat /\ current' <= current
      BY <1>k
    <3>2. e \in 1 .. current - 1 /\ e # current
      BY <3>1, <1>d
    <3> QED
      BY <1>c, <3>2
  <2>2. h \in due[e] /\ h \in Handler
    BY <1>a, <1>k, <2>1
  <2>3. \/ Saw(h, e)
        \/ h \in Range(handlers["message"]) /\ e \in Encrypted \ (keyed \ excused)
    BY <2>1, <2>2 DEF NobodyMissesReadableEvents
  <2> QED
    BY <1>b, <1>k, <2>1, <2>2, <2>3
<1>1. ASSUME NEW h \in Handler, NEW type \in Type, Register(h, type) PROVE NobodyMissesReadableEvents'
  <2>1. /\ UNCHANGED <<current, due, keyed, excused>>
        /\ handlers' = [handlers EXCEPT ![type] = Append(handlers[type], h)]
    BY <1>1 DEF Register, dispatchVars, historyVars
  <2>2. handlers["message"] \in Seq(Handler)
    BY DEF PlaceInv
  <2>3. Range(Append(handlers["message"], h)) = Range(handlers["message"]) \cup {h}
    BY <2>2, AppendToList
  <2>4. handlers'["message"] \in {handlers["message"], Append(handlers["message"], h)}
    BY <2>1 DEF TypeOK, Type
  <2>5. Range(handlers["message"]) \subseteq Range(handlers'["message"])
    BY <2>3, <2>4
  <2> QED
    BY <1>c, <1>k, <2>1, <2>5
<1>2. CASE UNCHANGED <<handlers, current, due>> /\ keyed' \subseteq keyed \cup {current} /\ excused \subseteq excused'
  BY <1>2, <1>c, <1>k
<1>3. CASE Begin
  <2>1. UNCHANGED <<handlers, current, keyed, excused>> /\ \A e \in Event \ {current} : due'[e] = due[e]
    BY <1>3 DEF Begin, TypeOK
  <2> QED
    BY <1>c, <1>k, <2>1
<1>4. CASE End
  <2>1. /\ pc = "outer" /\ outer = <<>> /\ inner = <<>> /\ current' = current + 1
        /\ UNCHANGED <<handlers, due, keyed, excused, seen>>
    BY <1>4 DEF End, TypeOK, historyVars
  <2>2. Range(outer) = {} /\ Range(inner) = {} /\ ~ ToBeDecrypted
    BY <2>1, NoList DEF ToBeDecrypted
  <2>3. \A h \in due[current] :
           \/ Saw(h, current)
           \/ h \in Range(handlers["message"]) /\ current \in Encrypted \ (keyed \ excused)
    BY <2>1, <2>2 DEF DueInv, Due
  <2>4. \A e \in 1 .. current' - 1 : e \in 1 .. current - 1 \/ e = current
    BY <1>c, <2>1
  <2> QED
    BY <2>1, <2>3, <2>4 DEF NobodyMissesReadableEvents, Saw
<1>5. CASE Drop
  <2>1. /\ UNCHANGED <<handlers, due, keyed, excused>> /\ current' = acked + 1
    BY <1>5 DEF Drop, historyVars
  <2>2. current' \in Nat /\ current' <= current
    BY <2>1, <1>c DEF TypeOK
  <2> QED
    BY <1>k, <2>1, <2>2
<1>6. CASE FindUsers
  <2>1. UNCHANGED <<handlers, current, due, excused>> /\ keyed' \subseteq keyed \cup {current}
    BY <1>6 DEF FindUsers
  <2> QED
    BY <1>2, <2>1
<1> QED
  BY <1>1, <1>2, <1>3, <1>4, <1>5, <1>6
     DEF Next, OnEncryptedMessage, Learn, Handle, FailRoom, FailDevice, DecryptWith, GiveUp,
         BeginInner, FailInner, HandleInner, EndInner, Acknowledge, Return, vars, dispatchVars, historyVars

-----------------------------------------------------------------------------
(* The order of two calls of a handler is kept because what is appended     *)
(* comes after all that was seen (SeenInv); nobody misses an event because  *)
(* whoever it is due to is on a list until it has been called (DueInv).     *)
IInv == /\ TypeOK /\ PlaceInv /\ ListInv /\ SeenInv /\ InOrderOnceEach
        /\ FirstInv /\ KeyInv /\ DueInv /\ NobodyMissesReadableEvents

(* The invariant holds at the start. *)
LEMMA Initially == Init => IInv
<1> SUFFICES ASSUME Init PROVE IInv
  OBVIOUS
<1>1. /\ handlers["message"] = <<>> /\ handlers["encrypted"] = <<Decrypt>>
      /\ Range(handlers["message"]) = {} /\ Distinct(handlers["message"])
  BY NoList DEF Init, Type
<1>2. Distinct(<<Decrypt>>)
  BY DEF Distinct
<1>3. Range(outer) = {} /\ Range(inner) = {} /\ Distinct(outer) /\ Distinct(inner)
  BY NoList DEF Init
<1>4. TypeOK
  BY MaxEventAssumption, MaxDropsAssumption DEF Init, TypeOK, Type, Event
<1>5. PlaceInv
  <2>1. pc = "idle" /\ candidates = {}
    BY DEF Init
  <2>2. <<>> \in Seq(Handler)
    OBVIOUS
  <2>3. handlers["message"] \in Seq(Handler) /\ Decrypt \notin Range(outer)
    BY <1>1, <1>3, <2>2, Zenon
  <2> QED
    BY <2>1, <2>3, Zenon DEF PlaceInv
<1>6. ListInv
  BY <1>1, <1>2, <1>3 DEF ListInv
<1>7. \A h \in Handler : seen[h] = <<>>
  BY DEF Init
<1>8. \A h \in Handler : Before(h) /\ UpTo(h)
  BY <1>7 DEF Before, UpTo
<1>9. SeenInv
  BY <1>1, <1>3, <1>7, <1>8 DEF SeenInv
<1>10. InOrderOnceEach
  BY <1>7 DEF InOrderOnceEach
<1>11. FirstInv
  <2>1. <<Decrypt>> # <<>> /\ Head(<<Decrypt>>) = Decrypt
    OBVIOUS
  <2> QED
    BY <1>1, <1>3, <2>1 DEF FirstInv
<1>12. KeyInv /\ DueInv /\ NobodyMissesReadableEvents
  BY DEF Init, KeyInv, DueInv, NobodyMissesReadableEvents
<1> QED
  BY <1>4, <1>5, <1>6, <1>9, <1>10, <1>11, <1>12 DEF IInv

(* The invariant holds. *)
LEMMA Invariance == Spec => []IInv
<1>1. IInv /\ [Next]_vars => IInv'
  BY TypeStep, PlaceStep, ListStep, SeenStep, OrderStep, FirstStep, KeyStep, DueStep, PastStep DEF IInv
<1> QED
  BY <1>1, Initially, PTL DEF Spec

(* Every variable keeps its type, and a dispatcher at rest holds nothing    *)
(* over from a dropped request (handle_event).                              *)
THEOREM TypeCorrect == Spec => []TypeOK
<1>1. IInv => TypeOK
  BY DEF IInv
<1> QED
  BY <1>1, Invariance, PTL

(* A handler sees the events in order and each of them once per attempt     *)
(* (handle_event, on_encrypted_message).                                    *)
THEOREM OrderedOnceEach == Spec => []InOrderOnceEach
<1>1. IInv => InOrderOnceEach
  BY DEF IInv
<1> QED
  BY <1>1, Invariance, PTL

(* An event that was dispatched was seen by all it was due to, in the clear *)
(* if anyone had its key when the users in the room were collected          *)
(* (add_event_handler, on_encrypted_message).                               *)
THEOREM NobodyMisses == Spec => []NobodyMissesReadableEvents
<1>1. IInv => NobodyMissesReadableEvents
  BY DEF IInv
<1> QED
  BY <1>1, Invariance, PTL

(* A handler of encrypted events sees a readable one after the handlers of  *)
(* its decrypted form (add_base_handlers).                                  *)
THEOREM DecryptedComesFirst == Spec => []DecryptedFirst
<1>1. IInv => DecryptedFirst
  <2> SUFFICES ASSUME TypeOK, PlaceInv, ListInv, SeenInv, FirstInv, DueInv, NobodyMissesReadableEvents,
                      NEW h \in Range(handlers["encrypted"]) \ {Decrypt}, NEW e \in keyed \ excused,
                      NEW i \in DOMAIN seen[h], seen[h][i] = <<drops, e>>,
                      NEW g \in due[e] \cap Range(handlers["message"])
               PROVE  Saw(g, e)
    BY DEF IInv, DecryptedFirst
  <2>1. h \in Handler
    <3>1. handlers["encrypted"] \in Seq(Any)
      BY DEF TypeOK, Type, Any
    <3> QED
      BY <3>1, RangeOfSeq DEF Any
  <2>2. /\ e \in Encrypted /\ e \in Nat /\ e >= 1 /\ drops \in Nat /\ current \in Nat
        /\ seen[h][i][1] = drops /\ seen[h][i][2] = e
    BY EncryptedAssumption, MaxEventAssumption, MaxDropsAssumption DEF TypeOK, Event
  <2>3. e <= current
    BY <2>1, <2>2 DEF SeenInv, UpTo
  <2>4. CASE e < current
    <3>1. e \in 1 .. current - 1
      BY <2>2, <2>4
    <3> QED
      BY <3>1 DEF NobodyMissesReadableEvents
  <2>5. CASE e = current
    <3>1. ~ Before(h)
      BY <2>2, <2>5 DEF Before
    <3>2. pc # "idle" /\ Decrypt \notin Range(outer)
      BY <2>1, <3>1 DEF SeenInv, FirstInv
    <3>3. inner = <<>> /\ Range(inner) = {}
      <4>1. pc # "inner"
        BY <3>2, TailOfList DEF PlaceInv, TypeOK
      <4> QED
        BY <4>1, NoList DEF TypeOK
    <3>4. g \notin Range(outer)
      BY <2>2, <2>5 DEF ListInv, TypeOf
    <3>5. Due(g)
      BY <2>5, <3>2 DEF DueInv
    <3> QED
      BY <2>5, <3>2, <3>3, <3>4, <3>5 DEF Due, ToBeDecrypted
  <2> QED
    BY <2>2, <2>3, <2>4, <2>5
<1> QED
  BY <1>1, Invariance, PTL
=============================================================================
