-------------------------- MODULE RemoteLeaseProofs --------------------------
(* Machine-checked proofs about RemoteLease, for every value of its constants. *)
EXTENDS RemoteLease, TLAPS

-----------------------------------------------------------------------------
(* The shape of records and calls *)

LeaseRecord == [holder : Holders, token : Nat, until : Nat, grant : Nat]
LeaseObject == [lease : LeaseRecord, etag : Nat]

LeaseCall ==
    [op : {"acquire", "refresh", "release"},
     at : {"clock", "load", "put", "delete"}, etag : Nat,
     lease : LeaseRecord \cup {Absent}, ttl : Nat, clock : Nat]

CasCall == [op : {"cas"}, at : {"get", "swap"}, etag : Nat, expected : Nat]

\* The types of all variables, those of calls in progress included.
Typing ==
    /\ object \in LeaseObject \cup {Absent}
    /\ now \in 0..MaxTime
    /\ writes \in 0..MaxWrites
    /\ call \in [Sessions -> {Idle} \cup LeaseCall \cup CasCall]
    /\ held \in [Sessions -> LeaseRecord \cup {Absent}]
    /\ active \in [Sessions -> BOOLEAN]
    /\ released \in BOOLEAN
    /\ pointer \in [gen : Nat, etag : Nat]

\* A record that a put wrote: its token and grant belong to puts that were done
\* and it ends within a ttl from now.
Written(l) ==
    /\ l.token \in 1..writes
    /\ l.grant \in 1..writes
    /\ \E ttl \in TtlsMs : l.until <= now + ttl_seconds(ttl)

\* What a call in progress knows at each of its steps.
CallShape(s) ==
    /\ call[s].etag <= writes
    /\ call[s].clock <= now
    /\ call[s].op # "release" => call[s].ttl \in TtlsMs
    /\ call[s].op = "acquire" =>
         /\ call[s].at \in {"clock", "load", "put"}
         /\ call[s].at = "put" /\ call[s].etag # 0 =>
              call[s].lease # Absent /\ call[s].lease.token \in 1..writes
    /\ call[s].op \in {"refresh", "release"} =>
         /\ call[s].lease = held[s]
         /\ held[s] # Absent
         /\ call[s].etag # 0
    /\ call[s].op = "refresh" => call[s].at \in {"load", "clock", "put"}
    /\ call[s].op = "release" => call[s].at \in {"load", "delete"} /\ ~active[s]

\* What every property rests on.
Base ==
    /\ Typing
    /\ object # Absent => Written(object.lease) /\ object.etag \in 1..writes
    /\ \A s \in Sessions : held[s] # Absent =>
         Written(held[s]) /\ held[s].holder = HolderOf[s]
    /\ \A s \in Sessions : active[s] => held[s] # Absent
    /\ \A s \in Sessions : call[s] \in LeaseCall => CallShape(s)

\* Records of different shapes differ.
LEMMA Shapes ==
    /\ \A l \in LeaseRecord : l # Absent
    /\ \A o \in LeaseObject : o # Absent
    /\ \A c \in LeaseCall : c # Idle /\ c \notin CasCall
    /\ \A c \in CasCall : c # Idle /\ c \notin LeaseCall
    /\ Idle \notin LeaseCall /\ Idle \notin CasCall
  <1>1. \A l \in LeaseRecord : l # Absent
    BY DEF LeaseRecord, Absent
  <1>2. \A o \in LeaseObject : o # Absent
    BY DEF LeaseObject, Absent
  <1>3. \A c \in LeaseCall : c.op \in {"acquire", "refresh", "release"}
    BY DEF LeaseCall
  <1>4. \A c \in CasCall : c.op = "cas"
    BY DEF CasCall
  <1>5. Idle.op = "idle"
    BY DEF Idle
  <1> QED
    BY <1>1, <1>2, <1>3, <1>4, <1>5

\* A ttl is rounded up by less than a second.
LEMMA TtlRounding ==
    ASSUME NEW ms \in Nat
    PROVE  /\ ttl_seconds(ms) \in Nat
           /\ ttl_seconds(ms) * 1000 < ms + 1000
  BY DEF ttl_seconds

\* The record that a put writes.
LEMMA NextLeaseFacts ==
    ASSUME Base, NEW s \in Sessions, call[s] \in LeaseCall,
           call[s].at = "put", writes < MaxWrites
    PROVE  /\ NextLease(s) \in LeaseRecord
           /\ NextLease(s).token \in 1..(writes + 1)
           /\ NextLease(s).grant \in 1..(writes + 1)
           /\ NextLease(s).until = call[s].clock + ttl_seconds(call[s].ttl)
           /\ NextLease(s).until <= now + ttl_seconds(call[s].ttl)
           /\ call[s].ttl \in TtlsMs
           /\ NextLease(s).holder = HolderOf[s]
  <1>1. CallShape(s) /\ call[s].op \in {"acquire", "refresh"}
    BY DEF Base, CallShape, LeaseCall
  <1>2. /\ call[s].ttl \in TtlsMs /\ ttl_seconds(call[s].ttl) \in Nat
        /\ call[s].clock \in Nat /\ call[s].clock <= now /\ now \in Nat
        /\ writes \in Nat
    BY <1>1, TtlRounding, LeaseAssumption DEF CallShape, LeaseCall, Base, Typing
  <1>3. CASE call[s].op = "refresh"
    <2>1. /\ call[s].lease \in LeaseRecord /\ call[s].lease = held[s]
          /\ Written(held[s]) /\ held[s].holder = HolderOf[s]
      BY <1>1, <1>3 DEF CallShape, Base, Typing
    <2> QED
      BY <1>2, <1>3, <2>1 DEF NextLease, LeaseRecord, Written
  <1>4. CASE call[s].op = "acquire"
    <2>1. HolderOf[s] \in Holders
      BY LeaseAssumption
    <2>2. (IF call[s].etag = 0 THEN 1 ELSE call[s].lease.token + 1) \in 1..(writes + 1)
      BY <1>1, <1>2, <1>4 DEF CallShape
    <2> QED
      BY <1>2, <1>4, <2>1, <2>2 DEF NextLease, Lease, LeaseRecord
  <1> QED
    BY <1>1, <1>3, <1>4

\* The empty store satisfies it.
LEMMA BaseInit == Init => Base
  <1> SUFFICES ASSUME Init PROVE Base
    OBVIOUS
  <1>1. Typing
    <2>1. 0 \in 0..MaxTime /\ 0 \in 0..MaxWrites
      BY LeaseAssumption
    <2> QED
      BY <2>1 DEF Init, Typing
  <1>2. \A s \in Sessions : call[s] = Idle /\ held[s] = Absent /\ ~active[s]
    BY DEF Init
  <1> QED
    BY <1>1, <1>2, Shapes DEF Init, Base

\* The steps of a call that change nothing but the call.
LEMMA CallStep ==
    ASSUME Base, NEW s \in Sessions, UNCHANGED <<leaseVars, pointer>>,
           NEW c \in {Idle} \cup LeaseCall \cup CasCall,
           call' = [call EXCEPT ![s] = c],
           c \in LeaseCall => CallShape(s)'
    PROVE  Base'
  <1>1. Typing'
    BY DEF Base, Typing, leaseVars
  <1>2. \A l : Written(l)' <=> Written(l)
    BY DEF Written, leaseVars
  <1>3. \A t \in Sessions : call'[t] \in LeaseCall => CallShape(t)'
    BY DEF Base, Typing, CallShape, leaseVars
  <1> QED
    BY <1>1, <1>2, <1>3 DEF Base, leaseVars

\* Every step preserves it.
LEMMA BaseStep == Base /\ [Next]_vars => Base'
  <1> SUFFICES ASSUME Base, [Next]_vars PROVE Base'
    OBVIOUS
  <1>0. /\ \A t \in Sessions : call[t] \in {Idle} \cup LeaseCall \cup CasCall
        /\ \A t \in Sessions : call[t] \in LeaseCall => CallShape(t)
    BY DEF Base, Typing
  <1>1. ASSUME NEW s \in Sessions, AcquireHead(s) PROVE Base'
    <2>1. PICK ttl \in TtlsMs :
            call' = [call EXCEPT ![s] = Called("acquire", "clock", Absent, ttl)]
      BY <1>1 DEF AcquireHead
    <2>2. Called("acquire", "clock", Absent, ttl) \in LeaseCall
      BY Shapes, LeaseAssumption DEF Called, LeaseCall, Base, Typing, LeaseObject
    <2>3. CallShape(s)'
      BY <1>1, <2>1, Shapes
      DEF AcquireHead, CallShape, Called, Base, Typing, leaseVars, LeaseObject
    <2> QED
      BY <1>1, <2>1, <2>2, <2>3, CallStep DEF AcquireHead
  <1>2. ASSUME NEW s \in Sessions, RefreshHead(s) PROVE Base'
    <2>1. PICK ttl \in TtlsMs :
            call' = [call EXCEPT ![s] = Called("refresh", "load", held[s], ttl)]
      BY <1>2 DEF RefreshHead
    <2>2. Called("refresh", "load", held[s], ttl) \in LeaseCall
      BY Shapes, LeaseAssumption DEF Called, LeaseCall, Base, Typing, LeaseObject
    <2>3. CallShape(s)'
      BY <1>2, <2>1, Shapes
      DEF RefreshHead, CallShape, Called, Base, Typing, leaseVars, LeaseObject
    <2> QED
      BY <1>2, <2>1, <2>2, <2>3, CallStep DEF RefreshHead
  <1>3. ASSUME NEW s \in Sessions, ReleaseHead(s) PROVE Base'
    <2>1. Called("release", "load", held[s], 0) \in LeaseCall
      BY Shapes, LeaseAssumption DEF Called, LeaseCall, Base, Typing, LeaseObject
    <2>2. Typing'
      BY <1>3, <2>1 DEF ReleaseHead, Base, Typing
    <2>3. \A l : Written(l)' <=> Written(l)
      BY <1>3 DEF Written, ReleaseHead
    <2>4. \A t \in Sessions \ {s} : call'[t] = call[t] /\ active'[t] = active[t]
      BY <1>3 DEF ReleaseHead, Base, Typing
    <2>5. call'[s] \in LeaseCall => CallShape(s)'
      <3>1. CASE object = Absent
        BY <1>3, <3>1, Shapes DEF ReleaseHead, Base, Typing
      <3>2. CASE object # Absent
        BY <1>3, <3>2, Shapes
        DEF ReleaseHead, CallShape, Called, Base, Typing, LeaseObject
      <3> QED
        BY <3>1, <3>2
    <2>6. \A t \in Sessions \ {s} : call'[t] \in LeaseCall => CallShape(t)'
      BY <1>0, <1>3, <2>4 DEF CallShape, ReleaseHead
    <2>7. \A t \in Sessions : active'[t] => held'[t] # Absent
      BY <1>3, <2>4 DEF ReleaseHead, Base, Typing
    <2> QED
      BY <1>3, <2>2, <2>3, <2>5, <2>6, <2>7 DEF Base, ReleaseHead
  <1>4. ASSUME NEW s \in Sessions, ReadClock(s) PROVE Base'
    <2>1. call[s] \in LeaseCall
      BY <1>0, <1>4 DEF ReadClock, CasCall
    <2> DEFINE c == [call[s] EXCEPT !.clock = now,
                       !.at = IF call[s].op = "acquire" /\ call[s].etag # 0
                              THEN "load" ELSE "put"]
    <2>2. call' = [call EXCEPT ![s] = c] /\ c \in LeaseCall
      BY <1>4, <2>1 DEF ReadClock, LeaseCall, Base, Typing
    <2>3. CallShape(s)'
      BY <1>0, <1>4, <2>1, <2>2
      DEF ReadClock, CallShape, LeaseCall, Base, Typing, leaseVars
    <2> QED
      BY <1>4, <2>2, <2>3, CallStep DEF ReadClock
  <1>5. ASSUME NEW s \in Sessions, AcquireLoad(s) PROVE Base'
    <2>1. call[s] \in LeaseCall
      BY <1>0, <1>5 DEF AcquireLoad, CasCall
    <2>2. CASE MayTakeOver(s)
      <3> DEFINE c == [call[s] EXCEPT !.at = "put", !.lease = object.lease]
      <3>1. object \in LeaseObject /\ Written(object.lease) /\ object.lease \in LeaseRecord
        BY <2>2 DEF MayTakeOver, Base, Typing, LeaseObject
      <3>2. call' = [call EXCEPT ![s] = c] /\ c \in LeaseCall
        BY <1>5, <2>1, <2>2, <3>1 DEF AcquireLoad, LeaseCall, Base, Typing
      <3>3. /\ c.op = "acquire" /\ c.at = "put" /\ c.etag = call[s].etag
            /\ c.clock = call[s].clock /\ c.ttl = call[s].ttl
            /\ c.lease = object.lease /\ c.lease # Absent
            /\ c.lease.token \in 1..writes
        BY <1>5, <2>1, <3>1, Shapes DEF AcquireLoad, LeaseCall, Written
      <3>4. call'[s] = c /\ UNCHANGED <<writes, now, held, active>>
        BY <1>5, <3>2 DEF AcquireLoad, Base, Typing, leaseVars
      <3> HIDE DEF c
      <3>5. CallShape(s)'
        <4>1. CallShape(s)
          BY <1>0, <2>1
        <4>2. /\ call'[s].etag <= writes' /\ call'[s].clock <= now'
              /\ call'[s].ttl \in TtlsMs
          BY <1>5, <3>3, <3>4, <4>1 DEF CallShape, AcquireLoad
        <4> QED
          BY <3>3, <3>4, <4>2 DEF CallShape
      <3> QED
        BY <1>5, <3>2, <3>5, CallStep DEF AcquireLoad
    <2>3. CASE ~MayTakeOver(s)
      BY <1>5, <2>3, CallStep, Shapes DEF AcquireLoad
    <2> QED
      BY <2>2, <2>3
  <1>6. ASSUME NEW s \in Sessions, OwnLoad(s) PROVE Base'
    <2>1. call[s] \in LeaseCall
      BY <1>0, <1>6 DEF OwnLoad, CasCall
    <2>2. CASE IsOwn(s)
      <3> DEFINE c == [call[s] EXCEPT !.at = IF call[s].op = "refresh"
                                             THEN "clock" ELSE "delete"]
      <3>2. call' = [call EXCEPT ![s] = c] /\ c \in LeaseCall
        BY <1>6, <2>1, <2>2 DEF OwnLoad, LeaseCall, Base, Typing
      <3>3. CallShape(s)'
        BY <1>0, <1>6, <2>1, <3>2
        DEF OwnLoad, CallShape, LeaseCall, Base, Typing, leaseVars
      <3> QED
        BY <1>6, <3>2, <3>3, CallStep DEF OwnLoad
    <2>3. CASE ~IsOwn(s)
      BY <1>6, <2>3, CallStep, Shapes DEF OwnLoad
    <2> QED
      BY <2>2, <2>3
  <1>7. ASSUME NEW s \in Sessions, Put(s) PROVE Base'
    <2>1. call[s] \in LeaseCall /\ call[s].at = "put" /\ writes < MaxWrites
      BY <1>0, <1>7 DEF Put, CasCall
    <2>2. PICK l \in LeaseRecord :
            /\ l = NextLease(s)
            /\ l.token \in 1..(writes + 1)
            /\ l.grant \in 1..(writes + 1)
            /\ l.until <= now + ttl_seconds(call[s].ttl)
            /\ call[s].ttl \in TtlsMs
            /\ l.holder = HolderOf[s]
      BY <2>1, NextLeaseFacts
    <2>3. CASE /\ object' = [lease |-> l, etag |-> writes + 1]
               /\ writes' = writes + 1
               /\ \/ /\ held' = [held EXCEPT ![s] = l]
                     /\ active' = [active EXCEPT ![s] = TRUE]
                  \/ UNCHANGED <<held, active>>
      <3>0. /\ now' = now /\ UNCHANGED <<released, pointer>>
            /\ call' = [call EXCEPT ![s] = Idle]
            /\ writes + 1 \in 1..MaxWrites /\ writes \in Nat
        BY <1>7, <2>1, LeaseAssumption DEF Put, Base, Typing
      <3>1. Typing'
        <4>1. object' \in LeaseObject /\ writes' \in 0..MaxWrites
          BY <2>3, <3>0 DEF LeaseObject
        <4>2. /\ held' \in [Sessions -> LeaseRecord \cup {Absent}]
              /\ active' \in [Sessions -> BOOLEAN]
          BY <2>3 DEF Base, Typing
        <4>3. call' \in [Sessions -> {Idle} \cup LeaseCall \cup CasCall]
          BY <3>0 DEF Base, Typing
        <4> QED
          BY <3>0, <4>1, <4>2, <4>3 DEF Base, Typing
      <3>2. \A m : Written(m) => Written(m)'
        BY <2>3, <3>0 DEF Written, Base, Typing
      <3>3. Written(l)'
        BY <2>2, <2>3, <3>0 DEF Written
      <3>4. \A t \in Sessions : call'[t] \in LeaseCall => t # s /\ call'[t] = call[t]
        BY <3>0, Shapes DEF Base, Typing
      <3>5. \A t \in Sessions : t # s => held'[t] = held[t] /\ active'[t] = active[t]
        BY <2>3 DEF Base, Typing
      <3>6. \A t \in Sessions : call'[t] \in LeaseCall => CallShape(t)'
        BY <1>0, <2>3, <3>0, <3>4, <3>5 DEF CallShape, LeaseCall
      <3>7. ASSUME NEW t \in Sessions, held'[t] # Absent
            PROVE  Written(held[t])' /\ held'[t].holder = HolderOf[t]
        <4>1. CASE held'[t] = held[t]
          <5>1. PICK m : m = held[t]
            OBVIOUS
          <5>2. Written(m) /\ m.holder = HolderOf[t]
            BY <3>7, <4>1, <5>1 DEF Base
          <5>3. Written(m)'
            BY <3>2, <5>2
          <5> QED
            BY <4>1, <5>1, <5>2, <5>3 DEF Written
        <4>2. CASE held'[t] = l /\ t = s
          BY <2>2, <3>3, <4>2 DEF Written
        <4> QED
          BY <2>3, <4>1, <4>2 DEF Base, Typing
      <3>8. \A t \in Sessions : active'[t] => held'[t] # Absent
        BY <2>3, Shapes DEF Base, Typing
      <3>9. Written(object.lease)' /\ object'.etag \in 1..writes'
        <4>1. object'.lease = l /\ object'.etag = writes + 1
          BY <2>3
        <4> QED
          BY <2>3, <3>0, <3>3, <4>1 DEF Written
      <3> QED
        BY <3>1, <3>6, <3>7, <3>8, <3>9 DEF Base
    <2>4. CASE UNCHANGED <<object, writes, held, active>>
      <3>1. \A m : Written(m)' <=> Written(m)
        BY <1>7, <2>4 DEF Put, Written
      <3>2. \A t \in Sessions : call'[t] \in LeaseCall => t # s
        BY <1>7, Shapes DEF Put, Base, Typing
      <3>3. \A t \in Sessions : call'[t] \in LeaseCall => CallShape(t)'
        BY <1>0, <1>7, <2>4, <3>2 DEF Put, Base, Typing, CallShape
      <3>4. Typing'
        BY <1>7, <2>4 DEF Put, Base, Typing
      <3> QED
        BY <1>7, <2>4, <3>1, <3>3, <3>4 DEF Put, Base
    <2> QED
      BY <1>7, <2>2, <2>3, <2>4 DEF Put
  <1>8. ASSUME NEW s \in Sessions, Delete(s) PROVE Base'
    <2>1. \A l : Written(l)' <=> Written(l)
      BY <1>8 DEF Delete, Written
    <2>2. \A t \in Sessions : call'[t] \in LeaseCall => t # s
      BY <1>8, Shapes DEF Delete, Base, Typing
    <2>3. \A t \in Sessions \ {s} : held'[t] = held[t] /\ call'[t] = call[t]
      BY <1>8 DEF Delete, Base, Typing
    <2>4. \A t \in Sessions : call'[t] \in LeaseCall => CallShape(t)'
      BY <1>0, <1>8, <2>2, <2>3 DEF Delete, CallShape
    <2>5. Typing'
      BY <1>8 DEF Delete, Base, Typing
    <2>6. held'[s] \in {held[s], Absent} /\ object' \in {object, Absent}
      BY <1>8 DEF Delete, Base, Typing
    <2>7. ~active[s]
      <3>1. call[s] \in LeaseCall /\ call[s].op = "release"
        BY <1>0, <1>8 DEF Delete, CasCall, CallShape, LeaseCall
      <3> QED
        BY <1>0, <3>1 DEF CallShape
    <2> QED
      BY <1>8, <2>1, <2>3, <2>4, <2>5, <2>6, <2>7 DEF Delete, Base
  <1>9. ASSUME NEW s \in Sessions, CasHead(s) PROVE Base'
    <2>1. PICK expected \in 0..(MaxGeneration - 1) :
            call' = [call EXCEPT ![s] =
                        [op |-> "cas", at |-> IF expected = 0 THEN "swap" ELSE "get",
                         etag |-> pointer.etag, expected |-> expected]]
      BY <1>9 DEF CasHead
    <2> DEFINE c == [op |-> "cas", at |-> IF expected = 0 THEN "swap" ELSE "get",
                     etag |-> pointer.etag, expected |-> expected]
    <2>2. c \in CasCall
      BY DEF CasCall, Base, Typing
    <2> QED
      BY <1>9, <2>1, <2>2, CallStep, Shapes DEF CasHead
  <1>10. ASSUME NEW s \in Sessions, CasGet(s) PROVE Base'
    <2>1. call[s] \in CasCall
      BY <1>0, <1>10 DEF CasGet, LeaseCall
    <2>2. [call[s] EXCEPT !.at = "swap"] \in CasCall
      BY <2>1 DEF CasCall
    <2> QED
      BY <1>10, <2>2, CallStep, Shapes DEF CasGet
  <1>11. ASSUME NEW s \in Sessions, Swap(s) PROVE Base'
    <2>1. call[s] \in CasCall
      BY <1>0, <1>11 DEF Swap, LeaseCall
    <2>2. pointer' \in [gen : Nat, etag : Nat]
      BY <1>11, <2>1 DEF Swap, CasCall, Base, Typing
    <2>3. \A l : Written(l)' <=> Written(l)
      BY <1>11 DEF Swap, Written, leaseVars
    <2>4. \A t \in Sessions : call'[t] \in LeaseCall => t # s
      BY <1>11, Shapes DEF Swap, Base, Typing
    <2>5. \A t \in Sessions : call'[t] \in LeaseCall => CallShape(t)'
      BY <1>0, <1>11, <2>4 DEF Swap, CallShape, Base, Typing, leaseVars
    <2>6. Typing'
      BY <1>11, <2>2 DEF Swap, Base, Typing, leaseVars
    <2> QED
      BY <1>11, <2>3, <2>5, <2>6 DEF Base, Swap, leaseVars
  <1>12. ASSUME NEW s \in Sessions, CallFails(s) PROVE Base'
    BY <1>12, CallStep, Shapes DEF CallFails
  <1>13. CASE Tick
    <2>1. \A l \in LeaseRecord : Written(l) => Written(l)'
      BY <1>13, TtlRounding, LeaseAssumption DEF Tick, Written, LeaseRecord, Base, Typing
    <2>2. \A t \in Sessions : call'[t] \in LeaseCall => CallShape(t)'
      BY <1>0, <1>13 DEF Tick, CallShape, Base, Typing, LeaseCall
    <2>3. Typing'
      BY <1>13, LeaseAssumption DEF Tick, Base, Typing
    <2> QED
      BY <1>13, <2>1, <2>2, <2>3, Shapes DEF Tick, Base, Typing, LeaseObject
  <1>14. CASE UNCHANGED vars
    BY <1>14 DEF vars, leaseVars, Base, Typing, Written, CallShape
  <1> QED
    BY <1>1, <1>2, <1>3, <1>4, <1>5, <1>6, <1>7, <1>8, <1>9, <1>10, <1>11,
       <1>12, <1>13, <1>14 DEF Next

\* The types, and the bounds on tokens, grants, etags and the ends of leases,
\* hold for any sessions, holder ids and ttls.
THEOREM LeaseTypeCorrect == Spec => []TypeOK
  <1>1. Base => TypeOK
    <2> SUFFICES ASSUME Base PROVE TypeOK
      OBVIOUS
    <2>1. ASSUME NEW l \in LeaseRecord, Written(l), l.holder \in Holders
          PROVE  /\ l.token \in 1..writes /\ l.grant \in 1..writes
                 /\ \E ttl \in TtlsMs : (l.until - now) * 1000 < ttl + 1000
      <3>1. PICK ttl \in TtlsMs : l.until <= now + ttl_seconds(ttl)
        BY <2>1 DEF Written
      <3>2. (l.until - now) * 1000 < ttl + 1000
        BY <2>1, <3>1, TtlRounding, LeaseAssumption DEF LeaseRecord, Base, Typing
      <3> QED
        BY <2>1, <3>2 DEF Written
    <2>2. \A s \in Sessions : held[s] # Absent =>
            held[s] \in LeaseRecord /\ Written(held[s]) /\ held[s].holder \in Holders
      BY DEF Base, Typing, LeaseRecord
    <2>3. object # Absent => /\ object.lease \in LeaseRecord /\ Written(object.lease)
                             /\ object.lease.holder \in Holders
      BY DEF Base, Typing, LeaseObject, LeaseRecord
    <2> QED
      BY <2>1, <2>2, <2>3 DEF TypeOK, Base, Typing
  <1> QED
    BY <1>1, BaseInit, BaseStep, PTL DEF Spec

-----------------------------------------------------------------------------
(* What the etag of the head stands for *)

\* The object is still the one that the head of the call saw.
Unchanged(s) == object # Absent /\ object.etag = call[s].etag

\* What a call has read of the object is still true of it if the etag is.
Loaded(s) ==
    call[s] \in LeaseCall /\ Unchanged(s) =>
      /\ call[s].op = "acquire" /\ call[s].at = "put" =>
           /\ call[s].lease = object.lease
           /\ \/ object.lease.until <= call[s].clock
              \/ object.lease.holder = HolderOf[s]
      /\ \/ call[s].op = "refresh" /\ call[s].at \in {"clock", "put"}
         \/ call[s].op = "release" /\ call[s].at = "delete"
         => /\ object.lease.holder = call[s].lease.holder
            /\ object.lease.token = call[s].lease.token

LoadedInv == \A s \in Sessions : Loaded(s)

\* A step either leaves the object alone, or removes it, or gives it an etag
\* that no call has seen.
LEMMA ObjectSteps ==
    ASSUME Base, [Next]_vars
    PROVE  \/ object' = object
           \/ object' = Absent
           \/ /\ object'.etag = writes + 1
              /\ \A t \in Sessions : call[t] \in LeaseCall => call[t].etag < writes + 1
  <1>1. \A t \in Sessions : call[t] \in LeaseCall =>
          call[t].etag <= writes /\ call[t].etag \in Nat /\ writes \in Nat
    BY DEF Base, CallShape, LeaseCall, Typing
  <1>2. ASSUME NEW s \in Sessions, Put(s)
        PROVE  object' = object \/ object' = [lease |-> NextLease(s), etag |-> writes + 1]
    BY <1>2 DEF Put
  <1>3. ASSUME NEW s \in Sessions, Delete(s)
        PROVE  object' = object \/ object' = Absent
    BY <1>3 DEF Delete
  <1>4. CASE \E s \in Sessions : Put(s)
    BY <1>1, <1>2, <1>4
  <1>5. CASE \E s \in Sessions : Delete(s)
    BY <1>3, <1>5
  <1>6. CASE /\ ~\E s \in Sessions : Put(s)
             /\ ~\E s \in Sessions : Delete(s)
    BY <1>6 DEF Next, AcquireHead, RefreshHead, ReleaseHead, ReadClock, AcquireLoad,
       OwnLoad, CasHead, CasGet, Swap, CallFails, Tick, vars, leaseVars
  <1> QED
    BY <1>4, <1>5, <1>6

\* A call that does not move keeps what it has read.
LEMMA LoadedKept ==
    ASSUME Base, [Next]_vars, NEW t \in Sessions, Loaded(t), call'[t] = call[t]
    PROVE  Loaded(t)'
  <1>1. CASE object' = object
    BY <1>1 DEF Loaded, Unchanged
  <1>2. CASE object' = Absent
    BY <1>2 DEF Loaded, Unchanged
  <1>3. CASE /\ object'.etag = writes + 1
             /\ call[t] \in LeaseCall => call[t].etag < writes + 1
    <2>1. call'[t] \in LeaseCall => object'.etag # call'[t].etag
      BY <1>3 DEF LeaseCall, Base, Typing
    <2> QED
      BY <2>1 DEF Loaded, Unchanged
  <1> QED
    BY <1>1, <1>2, <1>3, ObjectSteps

\* An idle session has read nothing.
LEMMA LoadedIdle ==
    ASSUME NEW t \in Sessions, call'[t] \notin LeaseCall
    PROVE  Loaded(t)'
  BY DEF Loaded

\* Between the head and the last request of a call, what it loaded stays true
\* as long as the etag does.
LEMMA LoadedStep ==
    ASSUME Base, LoadedInv, [Next]_vars PROVE LoadedInv'
  <1>0. Base' /\ \A t \in Sessions : call[t] \in LeaseCall => CallShape(t)
    BY BaseStep DEF Base
  <1>1. ASSUME NEW s \in Sessions, NEW c, call' = [call EXCEPT ![s] = c],
               c \in LeaseCall => Loaded(s)'
        PROVE  LoadedInv'
    <2>1. \A t \in Sessions \ {s} : call'[t] = call[t]
      BY <1>1 DEF Base, Typing
    <2>2. call'[s] = c
      BY <1>1 DEF Base, Typing
    <2> QED
      BY <1>1, <2>1, <2>2, LoadedKept, LoadedIdle DEF LoadedInv
  <1>2. ASSUME NEW s \in Sessions, AcquireHead(s) PROVE LoadedInv'
    <2>1. PICK ttl : call' = [call EXCEPT ![s] = Called("acquire", "clock", Absent, ttl)]
      BY <1>2 DEF AcquireHead
    <2>2. Loaded(s)'
      BY <2>1 DEF Called, Loaded, Base, Typing
    <2> QED
      BY <1>1, <2>1, <2>2
  <1>3. ASSUME NEW s \in Sessions, RefreshHead(s) PROVE LoadedInv'
    <2>1. PICK ttl : call' = [call EXCEPT ![s] = Called("refresh", "load", held[s], ttl)]
      BY <1>3 DEF RefreshHead
    <2>2. Loaded(s)'
      BY <2>1 DEF Called, Loaded, Base, Typing
    <2> QED
      BY <1>1, <2>1, <2>2
  <1>4. ASSUME NEW s \in Sessions, ReleaseHead(s) PROVE LoadedInv'
    <2>1. call' = [call EXCEPT ![s] = IF object = Absent THEN Idle
                                      ELSE Called("release", "load", held[s], 0)]
      BY <1>4 DEF ReleaseHead
    <2>2. Loaded(s)'
      BY <2>1, Shapes DEF Called, Loaded, Base, Typing
    <2> QED
      BY <1>1, <2>1, <2>2
  <1>5. ASSUME NEW s \in Sessions, ReadClock(s) PROVE LoadedInv'
    <2> DEFINE c == [call[s] EXCEPT !.clock = now,
                       !.at = IF call[s].op = "acquire" /\ call[s].etag # 0
                              THEN "load" ELSE "put"]
    <2>1. call' = [call EXCEPT ![s] = c] /\ object' = object
      BY <1>5 DEF ReadClock, leaseVars
    <2>2. call[s] \in LeaseCall /\ call[s].at = "clock"
      BY <1>5 DEF ReadClock, Base, Typing, CasCall
    <2>3. /\ c.op = call[s].op /\ c.etag = call[s].etag /\ c.lease = call[s].lease
          /\ c.op = "acquire" /\ c.at = "put" => c.etag = 0
          /\ c.at # "delete"
      BY <2>2 DEF LeaseCall
    <2>4. object # Absent => object.etag # 0
      BY DEF Base
    <2>5. Loaded(s)'
      <3>1. call'[s] = c
        BY <2>1 DEF Base, Typing
      <3> HIDE DEF c
      <3> QED
        BY <2>1, <2>2, <2>3, <2>4, <3>1 DEF Loaded, LoadedInv, Unchanged
    <2> QED
      BY <1>1, <2>1, <2>5
  <1>6. ASSUME NEW s \in Sessions, AcquireLoad(s) PROVE LoadedInv'
    <2>1. CASE MayTakeOver(s)
      <3> DEFINE c == [call[s] EXCEPT !.at = "put", !.lease = object.lease]
      <3>1. call' = [call EXCEPT ![s] = c] /\ object' = object
        BY <1>6, <2>1 DEF AcquireLoad, leaseVars
      <3>2. call[s] \in LeaseCall /\ call[s].op = "acquire"
        BY <1>6 DEF AcquireLoad, Base, Typing, CasCall
      <3>3. c.op = "acquire" /\ c.lease = object.lease /\ c.clock = call[s].clock
        BY <3>2 DEF LeaseCall
      <3>4. Loaded(s)'
        <4>1. call'[s] = c
          BY <3>1 DEF Base, Typing
        <4> HIDE DEF c
        <4> QED
          BY <2>1, <3>1, <3>3, <4>1 DEF Loaded, MayTakeOver
      <3> QED
        BY <1>1, <3>1, <3>4
    <2>2. CASE ~MayTakeOver(s)
      BY <1>1, <1>6, <2>2, Shapes DEF AcquireLoad
    <2> QED
      BY <2>1, <2>2
  <1>7. ASSUME NEW s \in Sessions, OwnLoad(s) PROVE LoadedInv'
    <2>1. CASE IsOwn(s)
      <3> DEFINE c == [call[s] EXCEPT !.at = IF call[s].op = "refresh"
                                             THEN "clock" ELSE "delete"]
      <3>1. call' = [call EXCEPT ![s] = c] /\ object' = object
        BY <1>7, <2>1 DEF OwnLoad, leaseVars
      <3>2. call[s] \in LeaseCall /\ call[s].op \in {"refresh", "release"}
        BY <1>7 DEF OwnLoad, Base, Typing, CasCall
      <3>3. c.op = call[s].op /\ c.lease = call[s].lease
        BY <3>2 DEF LeaseCall
      <3>4. Loaded(s)'
        <4>1. call'[s] = c
          BY <3>1 DEF Base, Typing
        <4> HIDE DEF c
        <4> QED
          BY <2>1, <3>1, <3>2, <3>3, <4>1 DEF Loaded, IsOwn
      <3> QED
        BY <1>1, <3>1, <3>4
    <2>2. CASE ~IsOwn(s)
      BY <1>1, <1>7, <2>2, Shapes DEF OwnLoad
    <2> QED
      BY <2>1, <2>2
  <1>8. ASSUME NEW s \in Sessions, Put(s) \/ Delete(s) \/ Swap(s) \/ CallFails(s)
        PROVE  LoadedInv'
    <2>1. call' = [call EXCEPT ![s] = Idle]
      BY <1>8 DEF Put, Delete, Swap, CallFails
    <2> QED
      BY <1>1, <2>1, Shapes
  <1>9. ASSUME NEW s \in Sessions, CasHead(s) PROVE LoadedInv'
    <2>1. PICK expected \in 0..(MaxGeneration - 1) :
            call' = [call EXCEPT ![s] =
                        [op |-> "cas", at |-> IF expected = 0 THEN "swap" ELSE "get",
                         etag |-> pointer.etag, expected |-> expected]]
      BY <1>9 DEF CasHead
    <2>2. [op |-> "cas", at |-> IF expected = 0 THEN "swap" ELSE "get",
           etag |-> pointer.etag, expected |-> expected] \in CasCall
      BY DEF CasCall, Base, Typing
    <2> QED
      BY <1>1, <2>1, <2>2, Shapes
  <1>10. ASSUME NEW s \in Sessions, CasGet(s) PROVE LoadedInv'
    <2>1. call[s] \in CasCall
      BY <1>10 DEF CasGet, LeaseCall, Base, Typing
    <2>2. [call[s] EXCEPT !.at = "swap"] \in CasCall
      BY <2>1 DEF CasCall
    <2> QED
      BY <1>1, <1>10, <2>2, Shapes DEF CasGet
  <1>11. CASE Tick \/ UNCHANGED vars
    <2>1. UNCHANGED <<call, object>>
      BY <1>11 DEF Tick, vars, leaseVars
    <2> QED
      BY <2>1 DEF LoadedInv, Loaded, Unchanged
  <1> QED
    BY <1>2, <1>3, <1>4, <1>5, <1>6, <1>7, <1>8, <1>9, <1>10, <1>11 DEF Next

-----------------------------------------------------------------------------
(* One writer *)

\* Every session has a holder id of its own.
OwnHolderIds == \A s, t \in Sessions : HolderOf[s] = HolderOf[t] => s = t

\* All sessions ask for the same lease time.
SameTtl == \A a, b \in TtlsMs : ttl_seconds(a) = ttl_seconds(b)

\* The clock that a call has read is not before the one in the object's lease.
Fresh(s) ==
    /\ call[s] \in LeaseCall
    /\ Unchanged(s)
    /\ \/ call[s].op = "acquire" /\ call[s].at \in {"load", "put"}
       \/ call[s].op = "refresh" /\ call[s].at = "put"
    => \A ttl \in TtlsMs : object.lease.until <= call[s].clock + ttl_seconds(ttl)

FreshInv == \A s \in Sessions : Fresh(s)

\* A writer's lease is the object's, and the object does not end before it.
WriterInv ==
    \A s \in Sessions : Writes(s) =>
        /\ object # Absent
        /\ object.lease.holder = HolderOf[s]
        /\ held[s].until <= object.lease.until

\* Clocks only move on: no call writes a lease that ends before the one it
\* replaces.
LEMMA FreshStep ==
    ASSUME SameTtl, Base, FreshInv, [Next]_vars PROVE FreshInv'
  <1>1. ASSUME NEW t \in Sessions, call'[t] = call[t] PROVE Fresh(t)'
    <2>1. CASE object' = object
      BY <1>1, <2>1 DEF FreshInv, Fresh, Unchanged
    <2>2. CASE object' = Absent
      BY <2>2 DEF Fresh, Unchanged
    <2>3. CASE /\ object'.etag = writes + 1
               /\ call[t] \in LeaseCall => call[t].etag < writes + 1
      <3>1. call'[t] \in LeaseCall => object'.etag # call'[t].etag
        BY <1>1, <2>3 DEF LeaseCall, Base, Typing
      <3> QED
        BY <3>1 DEF Fresh, Unchanged
    <2> QED
      BY <2>1, <2>2, <2>3, ObjectSteps
  <1>2. ASSUME NEW s \in Sessions, NEW c, call' = [call EXCEPT ![s] = c],
               c \in LeaseCall => Fresh(s)'
        PROVE  FreshInv'
    <2>1. \A t \in Sessions \ {s} : call'[t] = call[t]
      BY <1>2 DEF Base, Typing
    <2>2. call'[s] = c
      BY <1>2 DEF Base, Typing
    <2> QED
      BY <1>1, <1>2, <2>1, <2>2 DEF FreshInv, Fresh
  <1>3. ASSUME NEW s \in Sessions,
               AcquireHead(s) \/ RefreshHead(s) \/ ReleaseHead(s)
        PROVE  FreshInv'
    <2>1. PICK c : /\ call' = [call EXCEPT ![s] = c]
                   /\ \/ c = Idle
                      \/ c.op = "acquire" /\ c.at = "clock"
                      \/ c.op \in {"refresh", "release"} /\ c.at = "load"
      <3>1. CASE AcquireHead(s)
        <4>1. PICK ttl : call' = [call EXCEPT ![s] = Called("acquire", "clock", Absent, ttl)]
          BY <3>1 DEF AcquireHead
        <4> DEFINE c == Called("acquire", "clock", Absent, ttl)
        <4>2. c.op = "acquire" /\ c.at = "clock"
          BY DEF Called
        <4> HIDE DEF c
        <4>3. call' = [call EXCEPT ![s] = c]
          BY <4>1 DEF c
        <4> QED
          BY <4>2, <4>3
      <3>2. CASE RefreshHead(s)
        <4>1. PICK ttl : call' = [call EXCEPT ![s] = Called("refresh", "load", held[s], ttl)]
          BY <3>2 DEF RefreshHead
        <4> DEFINE c == Called("refresh", "load", held[s], ttl)
        <4>2. c.op = "refresh" /\ c.at = "load"
          BY DEF Called
        <4> HIDE DEF c
        <4>3. call' = [call EXCEPT ![s] = c]
          BY <4>1 DEF c
        <4> QED
          BY <4>2, <4>3
      <3>3. CASE ReleaseHead(s)
        <4> DEFINE c == Called("release", "load", held[s], 0)
        <4>1. c.op = "release" /\ c.at = "load"
          BY DEF Called
        <4>2. \/ call' = [call EXCEPT ![s] = Idle]
              \/ call' = [call EXCEPT ![s] = c]
          BY <3>3 DEF ReleaseHead
        <4> HIDE DEF c
        <4> QED
          BY <4>1, <4>2
      <3> QED
        BY <1>3, <3>1, <3>2, <3>3
    <2>2. call'[s] = c
      BY <2>1 DEF Base, Typing
    <2>3. Fresh(s)'
      BY <2>1, <2>2, Shapes DEF Fresh
    <2> QED
      BY <1>2, <2>1, <2>3
  <1>4. ASSUME NEW s \in Sessions, ReadClock(s) PROVE FreshInv'
    <2> DEFINE c == [call[s] EXCEPT !.clock = now,
                       !.at = IF call[s].op = "acquire" /\ call[s].etag # 0
                              THEN "load" ELSE "put"]
    <2>1. call' = [call EXCEPT ![s] = c] /\ object' = object
      BY <1>4 DEF ReadClock, leaseVars
    <2>2. call[s] \in LeaseCall
      BY <1>4 DEF ReadClock, Base, Typing, CasCall
    <2>3. c.clock = now /\ call'[s] = c
      BY <2>1, <2>2 DEF LeaseCall, Base, Typing
    <2>4. object # Absent =>
            \A ttl \in TtlsMs : object.lease.until <= now + ttl_seconds(ttl)
      BY DEF Base, Written, SameTtl
    <2> HIDE DEF c
    <2>5. Fresh(s)'
      BY <2>1, <2>3, <2>4 DEF Fresh, Unchanged
    <2> QED
      BY <1>2, <2>1, <2>5
  <1>5. ASSUME NEW s \in Sessions, AcquireLoad(s) \/ OwnLoad(s) PROVE FreshInv'
    <2>1. call[s] \in LeaseCall /\ object' = object
      BY <1>5 DEF AcquireLoad, OwnLoad, Base, Typing, CasCall, leaseVars
    <2>2. CASE AcquireLoad(s) /\ MayTakeOver(s)
      <3> DEFINE c == [call[s] EXCEPT !.at = "put", !.lease = object.lease]
      <3>1. call' = [call EXCEPT ![s] = c]
        BY <2>2 DEF AcquireLoad
      <3>2. /\ c.clock = call[s].clock /\ c.etag = call[s].etag /\ call'[s] = c
            /\ call[s].op = "acquire" /\ call[s].at = "load"
        BY <2>1, <2>2, <3>1 DEF AcquireLoad, LeaseCall, Base, Typing
      <3> HIDE DEF c
      <3>3. Fresh(s)'
        BY <2>1, <3>2 DEF FreshInv, Fresh, Unchanged
      <3> QED
        BY <1>2, <3>1, <3>3
    <2>3. CASE OwnLoad(s) /\ IsOwn(s)
      <3> DEFINE c == [call[s] EXCEPT !.at = IF call[s].op = "refresh"
                                             THEN "clock" ELSE "delete"]
      <3>1. call' = [call EXCEPT ![s] = c]
        BY <2>3 DEF OwnLoad
      <3>2. c.op # "acquire" /\ c.at # "put" /\ call'[s] = c
        BY <2>1, <2>3, <3>1 DEF OwnLoad, LeaseCall, Base, Typing
      <3> HIDE DEF c
      <3>3. Fresh(s)'
        BY <3>2 DEF Fresh
      <3> QED
        BY <1>2, <3>1, <3>3
    <2>4. CASE call' = [call EXCEPT ![s] = Idle]
      BY <1>2, <2>4, Shapes
    <2> QED
      BY <1>5, <2>2, <2>3, <2>4 DEF AcquireLoad, OwnLoad
  <1>6. ASSUME NEW s \in Sessions, Put(s) \/ Delete(s) \/ Swap(s) \/ CallFails(s)
        PROVE  FreshInv'
    <2>1. call' = [call EXCEPT ![s] = Idle]
      BY <1>6 DEF Put, Delete, Swap, CallFails
    <2> QED
      BY <1>2, <2>1, Shapes
  <1>7. ASSUME NEW s \in Sessions, CasHead(s) PROVE FreshInv'
    <2>1. PICK expected \in 0..(MaxGeneration - 1) :
            call' = [call EXCEPT ![s] =
                        [op |-> "cas", at |-> IF expected = 0 THEN "swap" ELSE "get",
                         etag |-> pointer.etag, expected |-> expected]]
      BY <1>7 DEF CasHead
    <2>2. [op |-> "cas", at |-> IF expected = 0 THEN "swap" ELSE "get",
           etag |-> pointer.etag, expected |-> expected] \in CasCall
      BY DEF CasCall, Base, Typing
    <2> QED
      BY <1>2, <2>1, <2>2, Shapes
  <1>8. ASSUME NEW s \in Sessions, CasGet(s) PROVE FreshInv'
    <2>1. call[s] \in CasCall
      BY <1>8 DEF CasGet, LeaseCall, Base, Typing
    <2>2. [call[s] EXCEPT !.at = "swap"] \in CasCall
      BY <2>1 DEF CasCall
    <2> QED
      BY <1>2, <1>8, <2>2, Shapes DEF CasGet
  <1>9. CASE Tick \/ UNCHANGED vars
    <2>1. UNCHANGED call
      BY <1>9 DEF Tick, vars
    <2> QED
      BY <1>1, <2>1 DEF FreshInv
  <1> QED
    BY <1>3, <1>4, <1>5, <1>6, <1>7, <1>8, <1>9 DEF Next

\* A session that may write still owns the object after every step.
LEMMA WriterStep ==
    ASSUME OwnHolderIds, Base, LoadedInv, FreshInv, WriterInv, [Next]_vars
    PROVE  WriterInv'
  <1>1. ASSUME NEW s \in Sessions, Put(s) PROVE WriterInv'
    <2>1. /\ call[s] \in LeaseCall /\ call[s].at = "put" /\ writes < MaxWrites
          /\ CallShape(s) /\ Loaded(s) /\ Fresh(s) /\ now' = now
          /\ call[s].op \in {"acquire", "refresh"}
      BY <1>1 DEF Put, CasCall, Base, Typing, LoadedInv, FreshInv, CallShape, LeaseCall
    <2>2. PICK l \in LeaseRecord :
            /\ l = NextLease(s)
            /\ l.until = call[s].clock + ttl_seconds(call[s].ttl)
            /\ call[s].ttl \in TtlsMs
            /\ l.holder = HolderOf[s]
      BY <2>1, NextLeaseFacts
    <2>3. CASE UNCHANGED <<object, held, active>>
      BY <2>1, <2>3 DEF WriterInv, Writes
    <2>4. CASE /\ ConditionHolds(s)
               /\ object' = [lease |-> l, etag |-> writes + 1]
               /\ \/ /\ held' = [held EXCEPT ![s] = l]
                     /\ active' = [active EXCEPT ![s] = TRUE]
                  \/ UNCHANGED <<held, active>>
      <3>1. object' # Absent /\ object'.lease = l
        BY <2>4, Shapes, LeaseAssumption DEF LeaseObject, Base, Typing
      <3>2. ASSUME object # Absent
            PROVE  /\ Unchanged(s) /\ object.lease.until <= l.until
                   /\ \/ object.lease.until <= now
                      \/ object.lease.holder = HolderOf[s]
        <4>1. Unchanged(s)
          BY <2>4, <3>2 DEF ConditionHolds, Unchanged
        <4>2. object.lease.until <= l.until
          BY <2>1, <2>2, <4>1 DEF Fresh
        <4>3. CASE call[s].op = "refresh"
          BY <2>1, <4>1, <4>2, <4>3 DEF Loaded, CallShape, Base
        <4>4. CASE call[s].op = "acquire"
          <5>1. call[s].clock <= now /\ call[s].clock \in Nat /\ now \in Nat
            BY <2>1 DEF CallShape, LeaseCall, Base, Typing
          <5>2. object.lease.until \in Nat
            BY <3>2 DEF Base, Typing, LeaseObject, LeaseRecord
          <5>3. \/ object.lease.until <= call[s].clock
                \/ object.lease.holder = HolderOf[s]
            BY <2>1, <4>1, <4>4 DEF Loaded
          <5> QED
            BY <4>1, <4>2, <5>1, <5>2, <5>3
        <4> QED
          BY <2>1, <4>3, <4>4
      <3>3. ASSUME NEW t \in Sessions, Writes(t)' PROVE t = s
        <4> SUFFICES ASSUME t # s PROVE FALSE
          OBVIOUS
        <4>1. held'[t] = held[t] /\ active'[t] = active[t]
          BY <2>4 DEF Base, Typing
        <4>2. Writes(t)
          BY <2>1, <3>3, <4>1 DEF Writes
        <4>3. /\ object # Absent /\ object.lease.holder = HolderOf[t]
              /\ held[t].until <= object.lease.until
              /\ held[t].until > now
          BY <4>2 DEF WriterInv, Writes
        <4>4. object.lease.holder # HolderOf[s]
          BY <4>3 DEF OwnHolderIds
        <4>5. object.lease.until <= now
          BY <3>2, <4>3, <4>4
        <4>6. held[t].until \in Nat /\ object.lease.until \in Nat /\ now \in Nat
          BY <4>2, <4>3 DEF Writes, Base, Typing, LeaseObject, LeaseRecord
        <4> QED
          BY <4>3, <4>5, <4>6
      <3>4. ASSUME Writes(s)' PROVE held'[s].until <= l.until
        <4>1. CASE held'[s] = l
          BY <2>2, <4>1 DEF LeaseRecord
        <4>2. CASE UNCHANGED <<held, active>>
          <5>1. Writes(s)
            BY <2>1, <3>4, <4>2 DEF Writes
          <5>2. object # Absent /\ held[s].until <= object.lease.until
            BY <5>1 DEF WriterInv
          <5>3. held[s].until \in Nat /\ object.lease.until \in Nat /\ l.until \in Nat
            BY <5>1, <5>2 DEF Writes, Base, Typing, LeaseObject, LeaseRecord
          <5> QED
            BY <3>2, <4>2, <5>2, <5>3
        <4> QED
          BY <2>4, <4>1, <4>2 DEF Base, Typing
      <3> QED
        BY <2>2, <3>1, <3>3, <3>4 DEF WriterInv
    <2> QED
      BY <1>1, <2>2, <2>3, <2>4 DEF Put
  <1>2. ASSUME NEW s \in Sessions, Delete(s) PROVE WriterInv'
    <2>1. /\ call[s] \in LeaseCall /\ call[s].op = "release" /\ call[s].at = "delete"
          /\ CallShape(s) /\ Loaded(s) /\ ~active[s] /\ call[s].etag # 0
      BY <1>2 DEF Delete, CasCall, Base, Typing, LoadedInv, CallShape, LeaseCall
    <2>2. CASE ConditionHolds(s)
      <3>1. object.lease.holder = HolderOf[s]
        BY <2>1, <2>2 DEF ConditionHolds, Unchanged, Loaded, CallShape, Base
      <3>2. \A t \in Sessions : ~Writes(t)
        BY <2>1, <3>1 DEF WriterInv, OwnHolderIds, Writes
      <3>3. ASSUME NEW t \in Sessions PROVE ~Writes(t)'
        <4>1. CASE t = s
          BY <1>2, <2>1, <4>1 DEF Delete, Writes
        <4>2. CASE t # s
          <5>1. held'[t] = held[t] /\ active'[t] = active[t] /\ now' = now
            BY <1>2, <4>2 DEF Delete, Base, Typing
          <5> QED
            BY <3>2, <5>1 DEF Writes
        <4> QED
          BY <4>1, <4>2
      <3> QED
        BY <3>3 DEF WriterInv
    <2>3. CASE ~ConditionHolds(s)
      BY <1>2, <2>3 DEF Delete, WriterInv, Writes
    <2> QED
      BY <2>2, <2>3
  <1>3. ASSUME NEW s \in Sessions, ReleaseHead(s) PROVE WriterInv'
    <2>1. UNCHANGED <<object, held, now>>
      BY <1>3 DEF ReleaseHead
    <2>2. \A t \in Sessions : active'[t] => active[t]
      BY <1>3 DEF ReleaseHead, Base, Typing
    <2> QED
      BY <2>1, <2>2 DEF WriterInv, Writes
  <1>4. CASE Tick
    <2>1. \A t \in Sessions : Writes(t)' => Writes(t)
      BY <1>4 DEF Tick, Writes, Base, Typing, LeaseRecord
    <2> QED
      BY <1>4, <2>1 DEF Tick, WriterInv
  <1>5. CASE UNCHANGED leaseVars
    BY <1>5 DEF leaseVars, WriterInv, Writes
  <1> QED
    BY <1>1, <1>2, <1>3, <1>4, <1>5
    DEF Next, AcquireHead, RefreshHead, ReadClock, AcquireLoad, OwnLoad, CasHead,
        CasGet, Swap, CallFails, vars

\* For any number of sessions with holder ids of their own and one lease time,
\* two are never writers at the same time, however their requests interleave
\* and whatever answers are lost.
THEOREM ExclusiveWriter ==
    ASSUME OwnHolderIds, SameTtl PROVE Spec => []LeaseExclusive
  <1> DEFINE Inv == Base /\ LoadedInv /\ FreshInv /\ WriterInv
  <1>1. Init => Inv
    <2> SUFFICES ASSUME Init PROVE Inv
      OBVIOUS
    <2>1. Base
      BY BaseInit
    <2>2. \A s \in Sessions : call[s] \notin LeaseCall /\ ~active[s]
      BY Shapes DEF Init
    <2> QED
      BY <2>1, <2>2 DEF LoadedInv, Loaded, FreshInv, Fresh, WriterInv, Writes
  <1>2. Inv /\ [Next]_vars => Inv'
    BY BaseStep, LoadedStep, FreshStep, WriterStep
  <1>3. Inv => LeaseExclusive
    BY DEF WriterInv, LeaseExclusive
  <1> QED
    BY <1>1, <1>2, <1>3, PTL DEF Spec

-----------------------------------------------------------------------------
(* Fencing tokens *)

\* l was acquired before m and has the smaller token, or both are of the same
\* acquisition.
NotAfter(l, m) ==
    \/ l.grant < m.grant /\ l.token < m.token
    \/ l.grant = m.grant /\ l.token = m.token

\* Until a lease is deleted the object's is the newest of all.
FencingInv ==
    ~released =>
        /\ object = Absent => writes = 0
        /\ \A s \in Sessions : held[s] # Absent => NotAfter(held[s], object.lease)
        /\ FencingTokensProgress

\* Every step keeps tokens in the order of the acquisitions.
LEMMA FencingStep ==
    ASSUME Base, LoadedInv, FencingInv, [Next]_vars PROVE FencingInv'
  <1>1. ASSUME NEW s \in Sessions, Put(s) PROVE FencingInv'
    <2>1. /\ call[s] \in LeaseCall /\ call[s].at = "put" /\ writes < MaxWrites
          /\ CallShape(s) /\ Loaded(s) /\ call[s].op \in {"acquire", "refresh"}
          /\ released' = released
      BY <1>1 DEF Put, CasCall, Base, Typing, LoadedInv, CallShape, LeaseCall
    <2>2. PICK l \in LeaseRecord : l = NextLease(s)
      BY <2>1, NextLeaseFacts
    <2>3. CASE UNCHANGED <<object, writes, held>>
      BY <2>1, <2>3 DEF FencingInv, FencingTokensProgress
    <2>4. CASE /\ ConditionHolds(s)
               /\ object' = [lease |-> l, etag |-> writes + 1]
               /\ held' = [held EXCEPT ![s] = l] \/ held' = held
      <3> SUFFICES ASSUME ~released PROVE FencingInv'
        BY <2>1 DEF FencingInv
      <3>1. object' # Absent /\ object'.lease = l /\ writes \in Nat
        BY <2>4, Shapes DEF LeaseObject, Base, Typing
      <3>2. \A t \in Sessions : held[t] # Absent =>
              /\ held[t].grant \in 1..writes /\ held[t].token \in Nat
              /\ held[t].grant \in Nat
        BY DEF Base, Typing, Written, LeaseRecord
      <3>3. \A t \in Sessions : held[t] # Absent => object # Absent
        BY <3>1, <3>2 DEF FencingInv
      <3>4. object # Absent =>
              /\ Unchanged(s) /\ object.lease.token \in Nat /\ object.lease.grant \in Nat
        BY <2>4
        DEF ConditionHolds, Unchanged, Base, Typing, LeaseObject, LeaseRecord
      <3>5. ASSUME NEW t \in Sessions, held[t] # Absent PROVE NotAfter(held[t], l)
        <4>1. NotAfter(held[t], object.lease) /\ object # Absent
          BY <3>3, <3>5 DEF FencingInv
        <4>2. CASE call[s].op = "refresh"
          <5>1. /\ call[s].lease = held[s] /\ held[s] # Absent
                /\ object.lease.token = held[s].token
            BY <2>1, <3>4, <4>1, <4>2 DEF CallShape, Loaded
          <5>2. NotAfter(held[s], object.lease)
            BY <5>1 DEF FencingInv
          <5>3. object.lease.grant = held[s].grant
            BY <3>2, <3>4, <4>1, <5>1, <5>2 DEF NotAfter
          <5>4. l.grant = held[s].grant /\ l.token = held[s].token
            BY <2>2, <4>2, <5>1 DEF NextLease, Base, Typing, LeaseRecord
          <5> QED
            BY <4>1, <5>1, <5>3, <5>4 DEF NotAfter
        <4>3. CASE call[s].op = "acquire"
          <5>1. call[s].lease = object.lease /\ call[s].etag # 0
            BY <2>1, <3>4, <4>1, <4>3 DEF Loaded, Unchanged, Base
          <5>2. l.grant = writes + 1 /\ l.token = object.lease.token + 1
            BY <2>2, <4>3, <5>1 DEF NextLease, Lease
          <5>3. held[t].token <= object.lease.token
            BY <3>2, <3>4, <3>5, <4>1 DEF NotAfter
          <5> QED
            BY <3>1, <3>2, <3>4, <3>5, <4>1, <5>2, <5>3 DEF NotAfter
        <4> QED
          BY <2>1, <4>2, <4>3
      <3>6. \A t \in Sessions : held'[t] # Absent =>
              held'[t] = l \/ (held'[t] = held[t] /\ held[t] # Absent)
        BY <2>4 DEF Base, Typing
      <3>7. \A t \in Sessions : held'[t] # Absent => NotAfter(held'[t], l)
        BY <3>5, <3>6 DEF NotAfter
      <3>8. l.grant \in Nat /\ l.token \in Nat
        BY <2>2 DEF LeaseRecord
      <3>9. FencingTokensProgress'
        <4> SUFFICES ASSUME NEW t \in Sessions, NEW u \in Sessions,
                            held'[t] # Absent, held'[u] # Absent,
                            held'[t].grant < held'[u].grant
                     PROVE  held'[t].token < held'[u].token
          BY DEF FencingTokensProgress
        <4>1. CASE held'[u] = l
          BY <3>7, <4>1, <3>8 DEF NotAfter
        <4>2. CASE held'[u] # l /\ held'[t] = l
          <5>1. NotAfter(held[u], l) /\ held'[u] = held[u] /\ held[u] # Absent
            BY <3>5, <3>6, <4>2
          <5> QED
            BY <3>2, <3>8, <4>2, <5>1 DEF NotAfter
        <4>3. CASE held'[u] # l /\ held'[t] # l
          BY <3>6, <4>3 DEF FencingInv, FencingTokensProgress
        <4> QED
          BY <4>1, <4>2, <4>3
      <3> QED
        BY <3>1, <3>7, <3>9 DEF FencingInv
    <2> QED
      BY <1>1, <2>2, <2>3, <2>4 DEF Put
  <1>2. ASSUME NEW s \in Sessions, Delete(s) PROVE FencingInv'
    BY <1>2 DEF Delete, FencingInv, FencingTokensProgress
  <1>3. ASSUME UNCHANGED <<object, writes, held, released>> PROVE FencingInv'
    BY <1>3 DEF FencingInv, FencingTokensProgress
  <1> QED
    BY <1>1, <1>2, <1>3
    DEF Next, AcquireHead, RefreshHead, ReleaseHead, ReadClock, AcquireLoad,
        OwnLoad, CasHead, CasGet, Swap, CallFails, Tick, vars, leaseVars

\* For any sessions, holder ids and ttls: until the first release, a record
\* acquired later has the larger token.
THEOREM TokensFence == Spec => []FencingTokensProgress
  <1> DEFINE Inv == Base /\ LoadedInv /\ FencingInv
  <1>1. Init => Inv
    <2> SUFFICES ASSUME Init PROVE Inv
      OBVIOUS
    <2>1. Base
      BY BaseInit
    <2>2. \A s \in Sessions : call[s] \notin LeaseCall /\ held[s] = Absent
      BY Shapes DEF Init
    <2> QED
      BY <2>1, <2>2
      DEF Init, LoadedInv, Loaded, FencingInv, FencingTokensProgress
  <1>2. Inv /\ [Next]_vars => Inv'
    BY BaseStep, LoadedStep, FencingStep
  <1>3. Inv => FencingTokensProgress
    BY DEF FencingInv, FencingTokensProgress
  <1> QED
    BY <1>1, <1>2, <1>3, PTL DEF Spec

-----------------------------------------------------------------------------
(* The manifest pointer *)

\* A swap whose etag still fits replaces the generation its caller expects.
PointerInv ==
    /\ pointer.etag = 0 => pointer.gen = 0
    /\ \A s \in Sessions : call[s] \in CasCall =>
         /\ call[s].etag <= pointer.etag
         /\ call[s].at = "swap" /\ call[s].etag = pointer.etag =>
              call[s].expected = pointer.gen

\* Every step preserves it.
LEMMA PointerStep ==
    ASSUME Base, PointerInv, [Next]_vars PROVE PointerInv'
  <1>1. ASSUME NEW s \in Sessions, CasHead(s) PROVE PointerInv'
    <2>1. PICK expected \in 0..(MaxGeneration - 1) :
            /\ expected = 0 => pointer.etag = 0
            /\ call' = [call EXCEPT ![s] =
                        [op |-> "cas", at |-> IF expected = 0 THEN "swap" ELSE "get",
                         etag |-> pointer.etag, expected |-> expected]]
      BY <1>1 DEF CasHead
    <2>2. \A t \in Sessions \ {s} : call'[t] = call[t]
      BY <2>1 DEF Base, Typing
    <2>3. /\ call'[s].etag = pointer.etag /\ call'[s].expected = expected
          /\ call'[s].at = "swap" => expected = 0
      BY <2>1 DEF Base, Typing
    <2>4. pointer' = pointer /\ pointer.etag \in Nat
      BY <1>1 DEF CasHead, Base, Typing
    <2> QED
      BY <2>1, <2>2, <2>3, <2>4 DEF PointerInv
  <1>2. ASSUME NEW s \in Sessions, CasGet(s) PROVE PointerInv'
    <2>1. call[s] \in CasCall /\ pointer' = pointer
      BY <1>2 DEF CasGet, LeaseCall, Base, Typing
    <2>2. \A t \in Sessions \ {s} : call'[t] = call[t]
      BY <1>2 DEF CasGet, Base, Typing
    <2>3. CASE pointer.gen = call[s].expected /\ call[s].etag # 0
      <3>1. call'[s].etag = call[s].etag /\ call'[s].expected = call[s].expected
        BY <1>2, <2>1, <2>3 DEF CasGet, CasCall, Base, Typing
      <3> QED
        BY <2>1, <2>2, <2>3, <3>1 DEF PointerInv
    <2>4. CASE call'[s] = Idle
      BY <2>1, <2>2, <2>4, Shapes DEF PointerInv
    <2> QED
      BY <1>2, <2>3, <2>4 DEF CasGet, Base, Typing
  <1>3. ASSUME NEW s \in Sessions, Swap(s) PROVE PointerInv'
    <2>1. call[s] \in CasCall /\ call[s].at = "swap"
      BY <1>3 DEF Swap, LeaseCall, Base, Typing
    <2>2. \A t \in Sessions : call'[t] \in CasCall => call'[t] = call[t]
      BY <1>3, Shapes DEF Swap, Base, Typing
    <2>3. CASE SwapConditionHolds(s)
      <3>1. pointer'.etag = pointer.etag + 1 /\ pointer.etag \in Nat
        BY <1>3, <2>3 DEF Swap, Base, Typing
      <3>2. \A t \in Sessions : call[t] \in CasCall => call[t].etag \in Nat
        BY DEF CasCall
      <3> QED
        BY <2>2, <3>1, <3>2 DEF PointerInv
    <2>4. CASE ~SwapConditionHolds(s)
      BY <1>3, <2>2, <2>4 DEF Swap, PointerInv
    <2> QED
      BY <2>3, <2>4
  <1>4. ASSUME pointer' = pointer,
               \A t \in Sessions : call'[t] \in CasCall => call'[t] = call[t]
        PROVE  PointerInv'
    BY <1>4 DEF PointerInv
  <1>5. ASSUME NEW s \in Sessions,
               \/ AcquireHead(s) \/ RefreshHead(s) \/ ReleaseHead(s) \/ ReadClock(s)
               \/ AcquireLoad(s) \/ OwnLoad(s) \/ Put(s) \/ Delete(s) \/ CallFails(s)
        PROVE  /\ pointer' = pointer
               /\ \A t \in Sessions : call'[t] \in CasCall => call'[t] = call[t]
    <2>1. pointer' = pointer
      BY <1>5 DEF AcquireHead, RefreshHead, ReleaseHead, ReadClock, AcquireLoad,
                  OwnLoad, Put, Delete, CallFails
    <2>2. \A t \in Sessions \ {s} : call'[t] = call[t]
      BY <1>5 DEF AcquireHead, RefreshHead, ReleaseHead, ReadClock, AcquireLoad,
                  OwnLoad, Put, Delete, CallFails, Base, Typing
    <2>3. call'[s] \notin CasCall
      <3>1. CASE AcquireHead(s) \/ RefreshHead(s) \/ ReleaseHead(s)
        <4>1. \A op, next, lease, ttl : Called(op, next, lease, ttl).op = op
          BY DEF Called
        <4> QED
          BY <3>1, <4>1, Shapes
          DEF AcquireHead, RefreshHead, ReleaseHead, CasCall, Base, Typing
      <3>2. CASE ReadClock(s) \/ AcquireLoad(s) \/ OwnLoad(s)
        <4>1. call[s] \in LeaseCall
          BY <3>2 DEF ReadClock, AcquireLoad, OwnLoad, Base, Typing, CasCall
        <4>2. call'[s] = Idle \/ call'[s].op = call[s].op
          <5>1. CASE ReadClock(s)
            BY <4>1, <5>1 DEF ReadClock, LeaseCall, Base, Typing
          <5>2. CASE AcquireLoad(s)
            BY <4>1, <5>2 DEF AcquireLoad, LeaseCall, Base, Typing
          <5>3. CASE OwnLoad(s)
            BY <4>1, <5>3 DEF OwnLoad, LeaseCall, Base, Typing
          <5> QED
            BY <3>2, <5>1, <5>2, <5>3
        <4> QED
          BY <4>1, <4>2, Shapes DEF CasCall, LeaseCall
      <3>3. CASE Put(s) \/ Delete(s) \/ CallFails(s)
        BY <3>3, Shapes DEF Put, Delete, CallFails, Base, Typing
      <3> QED
        BY <1>5, <3>1, <3>2, <3>3
    <2> QED
      BY <2>1, <2>2, <2>3
  <1>6. CASE Tick \/ UNCHANGED vars
    BY <1>4, <1>6 DEF Tick, vars
  <1> QED
    BY <1>1, <1>2, <1>3, <1>4, <1>5, <1>6 DEF Next

\* For any number of callers: every change of the manifest pointer is from one
\* generation to the next, so that no swap overwrites one it has not seen.
THEOREM PointerNeverSkips == Spec => PointerAdvances
  <1>1. Init => Base /\ PointerInv
    <2> SUFFICES ASSUME Init PROVE Base /\ PointerInv
      OBVIOUS
    <2>1. \A s \in Sessions : call[s] \notin CasCall
      BY Shapes DEF Init
    <2> QED
      BY <2>1, BaseInit DEF Init, PointerInv
  <1>2. Base /\ PointerInv /\ [Next]_vars => (Base /\ PointerInv)'
    BY BaseStep, PointerStep
  <1>3. ASSUME Base, PointerInv, [Next]_vars
        PROVE  [pointer' # pointer => pointer'.gen = pointer.gen + 1]_vars
    <2>1. ASSUME NEW s \in Sessions, Swap(s), pointer' # pointer
          PROVE  pointer'.gen = pointer.gen + 1
      <3>1. call[s] \in CasCall /\ call[s].at = "swap"
        BY <1>3, <2>1 DEF Swap, LeaseCall, Base, Typing
      <3> QED
        BY <1>3, <2>1, <3>1 DEF Swap, SwapConditionHolds, PointerInv
    <2>2. CASE \E s \in Sessions : Swap(s)
      BY <2>1, <2>2
    <2>3. CASE ~\E s \in Sessions : Swap(s)
      BY <1>3, <2>3
      DEF Next, AcquireHead, RefreshHead, ReleaseHead, ReadClock, AcquireLoad,
          OwnLoad, Put, Delete, CasHead, CasGet, CallFails, Tick, vars
    <2> QED
      BY <2>2, <2>3
  <1> QED
    BY <1>1, <1>2, <1>3, PTL DEF Spec, PointerAdvances

=============================================================================
