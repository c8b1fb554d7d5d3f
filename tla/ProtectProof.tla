---------------------------- MODULE ProtectProof ----------------------------
(***************************************************************************)
(* Theorems about Protect, for any decisions, jails, addresses, lifetimes  *)
(* and faults.                                                             *)
(***************************************************************************)
EXTENDS Protect, TLAPS

(* The batch on its way: the one Receive will make of the answer, or the   *)
(* one that waits to be applied.                                           *)
Batch == IF poller = "wait" THEN CrowdSecUpdate ELSE pending

(* Where the poller has got to, in two words. *)
OnItsWay == poller \in {"wait", "apply", "retry"}

-----------------------------------------------------------------------------
(* Types. *)

(* What is left of an active decision is a duration. *)
LEMMA RemainingType ==
    ASSUME TypeOK, NEW d \in Decision, Active(d) PROVE Remaining(d) \in Nat
BY DEF TypeOK, Active, Remaining

(* An answer becomes an update. *)
LEMMA CrowdSecUpdateType == TypeOK => CrowdSecUpdate \in Update
<1> SUFFICES ASSUME TypeOK PROVE CrowdSecUpdate \in Update
  OBVIOUS
<1>1. response.new \in SUBSET [id : Decision, duration : Nat]
      /\ response.deleted \in SUBSET Decision /\ startup \in BOOLEAN /\ now \in Nat
  BY DEF TypeOK, Answer
<1>2. ASSUME NEW n \in response.new
      PROVE  [source |-> "crowdsec", id |-> n.id, address |-> address[n.id],
              expires |-> now + n.duration] \in ThreatBan
  BY <1>1, ProtectAssumption DEF ThreatBan
<1>3. {[source |-> "crowdsec", id |-> n.id, address |-> address[n.id],
        expires |-> now + n.duration] :
          n \in {m \in response.new : m.id \notin Captcha}} \in SUBSET ThreatBan
  BY <1>2
<1> QED BY <1>1, <1>3 DEF CrowdSecUpdate, Update

(* A successful update leaves bans. *)
LEMMA BansType ==
    ASSUME TypeOK, NEW u, u.add \subseteq ThreatBan, ApplyThreatUpdate(u)
    PROVE  bans' \in SUBSET ThreatBan
BY DEF TypeOK, ApplyThreatUpdate, Updated, Kept, Unexpired

(* The ban of a jail is a ban. *)
LEMMA LocalType ==
    ASSUME TypeOK, NEW j \in Jail, NEW a \in Addr
    PROVE  [source |-> j, id |-> NoDecision, address |-> a,
            expires |-> now + banTime[j]] \in ThreatBan
BY ProtectAssumption DEF TypeOK, ThreatBan

(* A request and its answer keep the types. *)
LEMMA TypeStream == TypeOK /\ Stream => TypeOK'
<1> SUFFICES ASSUME TypeOK, Stream PROVE TypeOK'
  OBVIOUS
<1> DEFINE new == {[id |-> d, duration |-> Remaining(d)] : d \in News}
<1>1. PICK again \in SUBSET {d \in Decision : Over(d)} :
        response' = [new |-> new,
                     deleted |-> again \cup
                       {d \in Decision : Over(d) /\ told[d] # "deleted"}]
  BY DEF Stream
<1>2. new \in SUBSET [id : Decision, duration : Nat]
  BY RemainingType DEF News, Considered
<1> HIDE DEF new
<1>3. response' \in Answer
  BY <1>1, <1>2 DEF Answer
<1>4. told' \in [Decision -> {"nothing", "new", "passed", "deleted"}]
  BY DEF Stream, TypeOK
<1> QED BY <1>3, <1>4 DEF TypeOK, Stream

(* Every step keeps the types. *)
LEMMA TypeStep == TypeOK /\ [Next]_vars => TypeOK'
<1> SUFFICES ASSUME TypeOK, [Next]_vars PROVE TypeOK'
  OBVIOUS
<1>1. CASE \E d \in Decision : Decide(d)
  <2>1. PICK d \in Decision : Decide(d)
    BY <1>1
  <2>2. lifetimes[d] \subseteq Nat
    BY ProtectAssumption
  <2> QED BY <2>1, <2>2 DEF Decide, TypeOK, client
<1>2. CASE \E d \in Decision : Revoke(d)
  BY <1>2 DEF Revoke, TypeOK, client
<1>3. CASE Stream
  BY <1>3, TypeStream
<1>4. CASE StreamFails \/ Restart
  <2>1. NoAnswer \in Answer /\ NoUpdate \in Update
    BY DEF NoAnswer, Answer, NoUpdate, Update
  <2> QED BY <1>4, <2>1 DEF StreamFails, Restart, TypeOK, server
<1>5. CASE Receive
  BY <1>5, CrowdSecUpdateType DEF Receive, TypeOK, NoAnswer, Answer, server
<1>6. CASE Apply
  <2>1. pending.add \subseteq ThreatBan /\ NoUpdate \in Update
    BY DEF TypeOK, Update, NoUpdate
  <2> QED BY <1>6, <2>1, BansType DEF Apply, TypeOK, server
<1>7. CASE \E j \in Jail, a \in Addr : BanLocal(j, a)
  <2>1. PICK j \in Jail, a \in Addr : BanLocal(j, a)
    BY <1>7
  <2>2. bans' \in SUBSET ThreatBan
    BY <2>1, LocalType, BansType DEF BanLocal, NoUpdate
  <2> QED BY <2>1, <2>2 DEF BanLocal, TypeOK, server, client
<1>8. CASE Sweep \/ Tick \/ ApplyFails \/ Retry
  BY <1>8 DEF Sweep, Tick, Unexpired, ApplyFails, Retry, TypeOK, server, client
<1>9. CASE UNCHANGED vars
  BY <1>9 DEF vars, server, client, TypeOK
<1> QED BY <1>1, <1>2, <1>3, <1>4, <1>5, <1>6, <1>7, <1>8, <1>9 DEF Next

(* Every reachable state of the service is well typed. *)
THEOREM ProtectTyping == Spec => []TypeOK
<1>1. NoAnswer \in Answer /\ NoUpdate \in Update
  BY DEF NoAnswer, Answer, NoUpdate, Update
<1>2. ASSUME Init PROVE TypeOK
  <2>1. until \in [Decision -> Nat] /\ bans \in SUBSET ThreatBan
    BY <1>2 DEF Init
  <2>2. told \in [Decision -> {"nothing", "new", "passed", "deleted"}]
    BY <1>2 DEF Init
  <2>3. response \in Answer /\ pending \in Update
    BY <1>1, <1>2 DEF Init
  <2>4. now \in Nat \ {0} /\ poller \in {"poll", "wait", "apply", "retry"}
    BY <1>2 DEF Init
  <2>5. startup \in BOOLEAN /\ missed \in BOOLEAN
    BY <1>2 DEF Init
  <2> QED BY <2>1, <2>2, <2>3, <2>4, <2>5 DEF TypeOK
<1> QED BY <1>2, TypeStep, PTL DEF Spec

-----------------------------------------------------------------------------
(* What an update does to the bans. *)

(* A ban the update neither replaces nor deletes stays while it lasts, one *)
(* it adds is there, and there are no others.                              *)
LEMMA UpdateEffect ==
    ASSUME NEW u, ApplyThreatUpdate(u), NEW b
    PROVE  /\ /\ b \in bans /\ b.expires > now
              /\ b.source = "crowdsec" => ~u.snapshot /\ b.id \notin u.deleteIDs
              /\ \A c \in u.add : ~SameBan(c, b)
              => b \in bans'
           /\ /\ b \in u.add /\ b.expires > now
              /\ b.source = "crowdsec" => b.id \notin u.deleteIDs
              => b \in bans'
           /\ b \in bans' =>
                /\ b.source = "crowdsec" => b.id \notin u.deleteIDs
                /\ \/ b \in u.add
                   \/ /\ b \in bans
                      /\ \A c \in u.add : ~SameBan(c, b)
                      /\ b.source = "crowdsec" => ~u.snapshot
<1>1. (b \in Updated(u) /\ b.expires > now => b \in bans')
      /\ (b \in bans' => b \in Updated(u))
  BY DEF ApplyThreatUpdate, Unexpired
<1>2. b \in Kept(u) <=> b \in bans /\ (b.source = "crowdsec" => ~u.snapshot)
  BY DEF Kept
<1>3. b \in Updated(u) <=>
        /\ b.source = "crowdsec" => b.id \notin u.deleteIDs
        /\ \/ b \in u.add
           \/ b \in Kept(u) /\ \A c \in u.add : ~SameBan(c, b)
  BY DEF Updated
<1> QED BY <1>1, <1>2, <1>3

-----------------------------------------------------------------------------
(* Local bans. *)

(* A jail's ban is never longer than its banTime, so a new one extends it. *)
LocalInv ==
    \A b \in bans : b.source # "crowdsec" => b.expires <= now + banTime[b.source]

(* The batches are CrowdSec's alone. *)
SourceInv ==
    \A b \in pending.add : b.source = "crowdsec"

(* What the answer becomes is CrowdSec's alone. *)
LEMMA UpdateSource == \A b \in CrowdSecUpdate.add : b.source = "crowdsec"
BY DEF CrowdSecUpdate

(* Each step keeps the two. *)
LEMMA LocalStep ==
    ASSUME TypeOK, LocalInv, SourceInv, [Next]_vars
    PROVE  LocalInv' /\ SourceInv'
<1>0. now \in Nat /\ \A b \in bans : b \in ThreatBan
  BY DEF TypeOK
<1>1. CASE \E d \in Decision : Decide(d) \/ Revoke(d)
  BY <1>1 DEF Decide, Revoke, client, LocalInv, SourceInv
<1>2. CASE Stream \/ StreamFails \/ Restart
  BY <1>2 DEF Stream, StreamFails, Restart, NoUpdate, LocalInv, SourceInv
<1>3. CASE Receive
  BY <1>3, UpdateSource DEF Receive, LocalInv, SourceInv
<1>4. CASE Apply
  <2>1. ASSUME NEW b \in bans', b.source # "crowdsec" PROVE b \in bans
    BY <1>4, <2>1, UpdateEffect DEF Apply, SourceInv
  <2> QED BY <1>4, <2>1 DEF Apply, NoUpdate, LocalInv, SourceInv
<1>5. CASE \E j \in Jail, a \in Addr : BanLocal(j, a)
  <2>1. PICK j \in Jail, a \in Addr : BanLocal(j, a)
    BY <1>5
  <2> DEFINE u == [NoUpdate EXCEPT !.add = {[source |-> j, id |-> NoDecision,
                                  address |-> a, expires |-> now + banTime[j]]}]
  <2>2. /\ ApplyThreatUpdate(u)
        /\ u.add = {[source |-> j, id |-> NoDecision, address |-> a,
                     expires |-> now + banTime[j]]}
        /\ now' = now /\ pending' = pending
    BY <2>1 DEF BanLocal, NoUpdate, client
  <2> HIDE DEF u
  <2>3. now + banTime[j] \in Nat
    BY <1>0, ProtectAssumption
  <2>4. ASSUME NEW b \in bans' PROVE b \in bans \/ b \in u.add
    BY <2>2, UpdateEffect
  <2> QED BY <2>2, <2>3, <2>4 DEF LocalInv, SourceInv
<1>6. CASE Sweep \/ ApplyFails \/ Retry \/ UNCHANGED vars
  BY <1>6 DEF Sweep, ApplyFails, Retry, vars, client, Unexpired, LocalInv, SourceInv
<1>7. CASE Tick
  <2>1. ASSUME NEW b \in bans, b.source # "crowdsec"
        PROVE  b.expires <= now + 1 + banTime[b.source]
    <3>1. b.source \in Jail /\ b.expires \in Nat
      BY <1>0, <2>1 DEF ThreatBan
    <3> QED BY <1>0, <2>1, <3>1, ProtectAssumption DEF LocalInv
  <2> QED BY <1>7, <2>1 DEF Tick, client, LocalInv, SourceInv
<1> QED BY <1>1, <1>2, <1>3, <1>4, <1>5, <1>6, <1>7 DEF Next

(* Neither a snapshot nor a deletion nor a new ban takes away or shortens  *)
(* a ban of a jail, for any jails, ban times, decisions and faults.        *)
THEOREM JailBansLast == Spec => LocalBansKept
<1>1. Init => LocalInv /\ SourceInv
  BY DEF Init, LocalInv, SourceInv, NoUpdate
<1>2. TypeOK /\ LocalInv /\ SourceInv /\ [Next]_vars =>
        [\A b \in bans : b.source # "crowdsec" /\ b.expires > now =>
            \E c \in bans' : SameBan(b, c) /\ c.expires >= b.expires]_vars
  <2> SUFFICES ASSUME TypeOK, LocalInv, SourceInv, [Next]_vars,
                      NEW b \in bans, b.source # "crowdsec", b.expires > now
               PROVE  \E c \in bans' : SameBan(b, c) /\ c.expires >= b.expires
    OBVIOUS
  <2>1. SameBan(b, b) /\ b.expires >= b.expires
    BY DEF SameBan, TypeOK, ThreatBan
  <2>2. CASE b \in bans'
    BY <2>1, <2>2
  <2>3. CASE Apply
    <3>1. \A c \in pending.add : ~SameBan(c, b)
      BY DEF SourceInv, SameBan
    <3> QED BY <2>2, <2>3, <3>1, UpdateEffect DEF Apply
  <2>4. CASE \E j \in Jail, a \in Addr : BanLocal(j, a)
    <3>1. PICK j \in Jail, a \in Addr : BanLocal(j, a)
      BY <2>4
    <3> DEFINE new == [source |-> j, id |-> NoDecision, address |-> a,
                       expires |-> now + banTime[j]]
               u == [NoUpdate EXCEPT !.add = {new}]
    <3>2. /\ ApplyThreatUpdate(u) /\ u.add = {new}
      BY <3>1 DEF BanLocal, NoUpdate
    <3>3. /\ new.source = j /\ new.address = a
          /\ new.expires = now + banTime[j] /\ new.id = NoDecision
      OBVIOUS
    <3> HIDE DEF new, u
    <3>4. new.expires > now
      <4>1. now \in Nat /\ banTime[j] \in Nat \ {0}
        BY ProtectAssumption DEF TypeOK
      <4> QED BY <3>3, <4>1
    <3>5. new \in bans'
      BY <3>2, <3>3, <3>4, UpdateEffect, ProtectAssumption
    <3>6. CASE SameBan(new, b)
      <4>1. SameBan(b, new) /\ b.source = j
        BY <3>3, <3>6, ProtectAssumption DEF SameBan
      <4>2. new.expires >= b.expires
        BY <3>3, <4>1 DEF LocalInv, TypeOK, ThreatBan
      <4> QED BY <3>5, <4>1, <4>2
    <3>7. CASE ~SameBan(new, b)
      BY <2>2, <3>2, <3>7, UpdateEffect
    <3> QED BY <3>6, <3>7
  <2>5. CASE Sweep
    BY <2>2, <2>5 DEF Sweep, Unexpired
  <2>6. CASE bans' = bans
    BY <2>2, <2>6
  <2> QED BY <2>3, <2>4, <2>5, <2>6 DEF Next, Decide, Revoke, Stream,
             StreamFails, Receive, ApplyFails, Retry, Restart, Tick, vars
<1> QED BY <1>1, <1>2, LocalStep, ProtectTyping, PTL DEF Spec, LocalBansKept

-----------------------------------------------------------------------------
(* The batch on its way. *)

(* A ban that enforces a decision to its end. *)
Enforces(b, d) ==
    /\ b.source = "crowdsec" /\ b.id = d
    /\ b.address = address[d] /\ b.expires >= until[d]

(* The server tells of decisions that were made, and takes back those over.*)
ToldInv ==
    \A d \in Decision : /\ told[d] # "nothing" => until[d] # 0
                        /\ told[d] = "deleted" => ~Active(d)

(* A ban for a decision the server has told of, to its end.                *)
Promised(b) ==
    /\ b.source = "crowdsec" /\ b.id \in Decision
    /\ told[b.id] = "new" /\ b.address = address[b.id]
    /\ Active(b.id) => b.expires >= until[b.id]

(* A batch adds bans for decisions told of, one for each, to their ends,   *)
(* and deletes what was taken back.                                        *)
BatchInv ==
    OnItsWay =>
        /\ Batch.snapshot <=> startup
        /\ \A b \in Batch.add : Promised(b)
        /\ \A b, c \in Batch.add : b.id = c.id => b = c
        /\ \A d \in Batch.deleteIDs : told[d] = "deleted"

(* A decision told of is enforced already or by the batch on its way.      *)
CoverInv ==
    OnItsWay /\ (startup \/ ~missed) =>
        \A d \in Decision \ Captcha :
            told[d] = "new" /\ Active(d) =>
                \/ \E b \in Batch.add : b.id = d
                \/ ~startup /\ \E b \in bans : Enforces(b, d)

(* A decision taken back is in no ban but those the batch will delete.     *)
RestInv ==
    OnItsWay /\ ~startup /\ ~missed =>
        \A b \in bans : b.source = "crowdsec" =>
            told[b.id] = "new" \/ b.id \in Batch.deleteIDs

(* What the poller knows; Reconciled alone is not inductive, as it says    *)
(* nothing while a batch is on its way.                                    *)
PollInv == ToldInv /\ BatchInv /\ CoverInv /\ RestInv /\ Reconciled

(* A step that leaves the poller alone leaves its batch alone. *)
LEMMA BatchStays ==
    ASSUME UNCHANGED <<client, now>>
    PROVE  Batch' = Batch /\ OnItsWay' = OnItsWay
BY DEF Batch, OnItsWay, client, CrowdSecUpdate

(* What the server does between its answers. *)
LEMMA PollServer ==
    ASSUME TypeOK, PollInv, NEW d \in Decision, Decide(d) \/ Revoke(d)
    PROVE  PollInv'
<1>1. /\ UNCHANGED <<client, now>> /\ UNCHANGED <<told, bans, missed>>
      /\ UNCHANGED <<poller, startup>>
  BY DEF Decide, Revoke, client
<1>2. Batch' = Batch /\ OnItsWay' = OnItsWay
  BY <1>1, BatchStays
<1>3. now \in Nat \ {0} /\ until \in [Decision -> Nat]
  BY DEF TypeOK
<1>4. ASSUME NEW e \in Decision, told[e] # "nothing"
      PROVE  /\ until'[e] # 0
             /\ Active(e)' => Active(e) /\ until'[e] = until[e]
  <2>1. until[e] # 0
    BY <1>4 DEF PollInv, ToldInv
  <2>2. CASE Decide(d)
    BY <1>1, <1>3, <2>1, <2>2 DEF Decide, Active
  <2>3. CASE Revoke(d)
    BY <1>1, <1>3, <2>1, <2>3 DEF Revoke, Active
  <2> QED BY <2>2, <2>3
<1>5. ToldInv'
  BY <1>1, <1>4 DEF PollInv, ToldInv
<1>6. BatchInv'
  <2>1. ASSUME OnItsWay, NEW b \in Batch.add PROVE Promised(b)'
    <3>1. Promised(b)
      BY <2>1 DEF PollInv, BatchInv
    <3>2. Active(b.id)' => Active(b.id) /\ until'[b.id] = until[b.id]
      BY <1>4, <3>1 DEF Promised
    <3> QED BY <1>1, <3>1, <3>2 DEF Promised
  <2> QED BY <1>1, <1>2, <2>1 DEF PollInv, BatchInv
<1>7. CoverInv'
  <2>1. ASSUME OnItsWay, startup \/ ~missed, NEW e \in Decision \ Captcha,
               told[e] = "new", Active(e)'
        PROVE  \/ \E b \in Batch.add : b.id = e
               \/ ~startup /\ \E b \in bans : Enforces(b, e)'
    <3>1. \/ \E b \in Batch.add : b.id = e
          \/ ~startup /\ \E b \in bans : Enforces(b, e)
      BY <1>4, <2>1 DEF PollInv, CoverInv
    <3>2. until'[e] = until[e]
      BY <1>4, <2>1
    <3> QED BY <3>1, <3>2 DEF Enforces
  <2> QED BY <1>1, <1>2, <2>1 DEF CoverInv
<1>8. RestInv'
  BY <1>1, <1>2 DEF PollInv, RestInv
<1>9. Reconciled'
  BY <1>1, <1>4 DEF PollInv, Reconciled
<1> QED BY <1>5, <1>6, <1>7, <1>8, <1>9 DEF PollInv

(* Reconciled, in terms of Enforces. *)
LEMMA ReconciledDef ==
    Reconciled <=>
      (poller = "poll" /\ ~startup /\ ~missed =>
         /\ \A d \in Decision \ Captcha :
               told[d] = "new" /\ Active(d) => \E b \in bans : Enforces(b, d)
         /\ \A b \in bans : b.source = "crowdsec" => told[b.id] = "new")
BY DEF Reconciled, Enforces

(* A ban of an active decision that enforces it has not expired. *)
LEMMA EnforcesLasts ==
    ASSUME TypeOK, NEW b \in ThreatBan, NEW d \in Decision, Active(d),
           b.expires >= until[d]
    PROVE  b.expires > now
<1>1. b.expires \in Nat /\ until[d] \in Nat /\ now \in Nat
  BY DEF TypeOK, ThreatBan
<1> QED BY <1>1 DEF Active

(* Changes of the bans that leave CrowdSec's alone, but for expired ones.  *)
LEMMA PollBans ==
    ASSUME TypeOK, PollInv, UNCHANGED <<now, server, client, missed>>,
           \A b \in bans : b.source = "crowdsec" /\ b.expires > now => b \in bans',
           \A b \in bans' : b.source = "crowdsec" => b \in bans
    PROVE  PollInv'
<1>1. /\ UNCHANGED <<now, until, told, poller, startup, missed>>
      /\ Batch' = Batch /\ OnItsWay' = OnItsWay
  BY BatchStays DEF server, client
<1>2. ASSUME NEW d \in Decision, Active(d), \E b \in bans : Enforces(b, d)
      PROVE  \E b \in bans' : Enforces(b, d)
  <2>1. PICK b \in bans : Enforces(b, d)
    BY <1>2
  <2>2. b.source = "crowdsec" /\ b.expires > now
    BY <1>2, <2>1, EnforcesLasts DEF TypeOK, Enforces
  <2> QED BY <2>1, <2>2
<1>3. ToldInv' /\ BatchInv'
  BY <1>1 DEF PollInv, ToldInv, BatchInv, Promised, Active
<1>4. CoverInv'
  BY <1>1, <1>2 DEF PollInv, CoverInv, Active, Enforces
<1>5. RestInv'
  BY <1>1 DEF PollInv, RestInv
<1>6. Reconciled'
  <2>1. ASSUME poller = "poll", ~startup, ~missed
        PROVE  /\ \A d \in Decision \ Captcha :
                     told[d] = "new" /\ Active(d) => \E b \in bans' : Enforces(b, d)
               /\ \A b \in bans' : b.source = "crowdsec" => told[b.id] = "new"
    BY <1>2, <2>1, ReconciledDef DEF PollInv
  <2> QED BY <1>1, <2>1 DEF Reconciled, Enforces, Active
<1> QED BY <1>3, <1>4, <1>5, <1>6 DEF PollInv

(* A jail's ban and a sweep. *)
LEMMA PollOthers ==
    ASSUME TypeOK, PollInv,
           Sweep \/ \E j \in Jail, a \in Addr : BanLocal(j, a)
    PROVE  PollInv'
<1>1. CASE Sweep
  BY <1>1, PollBans DEF Sweep, Unexpired
<1>2. CASE \E j \in Jail, a \in Addr : BanLocal(j, a)
  <2>1. PICK j \in Jail, a \in Addr : BanLocal(j, a)
    BY <1>2
  <2> DEFINE new == [source |-> j, id |-> NoDecision, address |-> a,
                     expires |-> now + banTime[j]]
             u == [NoUpdate EXCEPT !.add = {new}]
  <2>2. /\ ApplyThreatUpdate(u) /\ u.add = {new}
        /\ u.snapshot = FALSE /\ u.deleteIDs = {}
        /\ UNCHANGED <<now, server, client, missed>>
    BY <2>1 DEF BanLocal, NoUpdate
  <2>3. new.source = j /\ j # "crowdsec"
    BY ProtectAssumption
  <2> HIDE DEF new, u
  <2>4. ASSUME NEW b \in bans, b.source = "crowdsec", b.expires > now
        PROVE  b \in bans'
    <3>1. ~SameBan(new, b)
      BY <2>3, <2>4 DEF SameBan
    <3> QED BY <2>2, <2>4, <3>1, UpdateEffect
  <2>5. ASSUME NEW b \in bans', b.source = "crowdsec" PROVE b \in bans
    BY <2>2, <2>3, <2>5, UpdateEffect
  <2> QED BY <2>2, <2>4, <2>5, PollBans
<1> QED BY <1>1, <1>2

(* Nothing is claimed of a poll that will ask for a snapshot.              *)
LEMMA PollSnapshot ==
    ASSUME TypeOK, PollInv, StreamFails \/ Restart \/ (Receive /\ BatchInvalid)
    PROVE  PollInv'
<1>1. UNCHANGED <<now, until, told>> /\ poller' = "poll"
  BY DEF StreamFails, Restart, Receive, server
<1>2. ~OnItsWay'
  BY <1>1 DEF OnItsWay
<1>3. ToldInv'
  BY <1>1 DEF PollInv, ToldInv, Active
<1>4. BatchInv' /\ CoverInv' /\ RestInv'
  BY <1>2 DEF BatchInv, CoverInv, RestInv
<1>5. startup' \/ missed'
  <2>1. CASE StreamFails
    <3>1. startup' = startup /\ (missed' <=> missed \/ ~startup)
      BY <2>1 DEF StreamFails
    <3> QED BY <3>1
  <2>2. CASE Restart
    BY <2>2 DEF Restart
  <2>3. CASE Receive /\ BatchInvalid
    BY <2>3 DEF Receive
  <2> QED BY <2>1, <2>2, <2>3
<1>6. Reconciled'
  BY <1>5 DEF Reconciled
<1> QED BY <1>3, <1>4, <1>6 DEF PollInv

(* The batch is the same before and after it is received. *)
LEMMA PollReceive ==
    ASSUME TypeOK, PollInv, Receive, ~BatchInvalid PROVE PollInv'
<1>1. /\ UNCHANGED <<now, until, told, startup, bans, missed>>
      /\ poller = "wait" /\ poller' = "apply" /\ pending' = CrowdSecUpdate
  BY DEF Receive, server
<1>2. Batch' = Batch /\ OnItsWay' /\ OnItsWay
  BY <1>1 DEF Batch, OnItsWay
<1> QED BY <1>1, <1>2 DEF PollInv, ToldInv, BatchInv, CoverInv, RestInv,
           Reconciled, Promised, Active, Enforces

(* A try that fails, or is made again, leaves the batch on its way. *)
LEMMA PollRetry ==
    ASSUME TypeOK, PollInv, ApplyFails \/ Retry PROVE PollInv'
<1>1. /\ UNCHANGED <<now, until, told, startup, bans, missed>>
      /\ poller \in {"apply", "retry"} /\ poller' \in {"apply", "retry"}
      /\ pending' = pending
  BY DEF ApplyFails, Retry, server
<1>2. Batch' = Batch /\ OnItsWay' /\ OnItsWay
  BY <1>1 DEF Batch, OnItsWay
<1> QED BY <1>1, <1>2 DEF PollInv, ToldInv, BatchInv, CoverInv, RestInv,
           Reconciled, Promised, Active, Enforces

(* Time passes: fewer decisions are active, and what an answer on its way  *)
(* becomes lasts longer.                                                   *)
LEMMA PollTick ==
    ASSUME TypeOK, PollInv, Tick PROVE PollInv'
<1>1. /\ UNCHANGED <<until, told, bans, missed>>
      /\ UNCHANGED <<poller, startup, response, pending>>
      /\ now' = now + 1
  BY DEF Tick, server, client
<1>2. now \in Nat /\ until \in [Decision -> Nat]
  BY DEF TypeOK
<1>3. ASSUME NEW d \in Decision, Active(d)' PROVE Active(d)
  BY <1>1, <1>2, <1>3 DEF Active
<1>4. ToldInv'
  BY <1>1, <1>3 DEF PollInv, ToldInv
<1>5. Reconciled'
  BY <1>1, <1>3 DEF PollInv, Reconciled
<1>6. CASE poller # "wait"
  <2>1. Batch' = Batch /\ OnItsWay' = OnItsWay
    BY <1>1, <1>6 DEF Batch, OnItsWay
  <2>2. ASSUME OnItsWay, NEW b \in Batch.add PROVE Promised(b)'
    BY <1>1, <1>3, <2>2 DEF PollInv, BatchInv, Promised
  <2>3. BatchInv'
    BY <1>1, <2>1, <2>2 DEF PollInv, BatchInv
  <2>4. CoverInv'
    BY <1>1, <1>3, <2>1 DEF PollInv, CoverInv, Enforces
  <2>5. RestInv'
    BY <1>1, <2>1 DEF PollInv, RestInv
  <2> QED BY <1>4, <1>5, <2>3, <2>4, <2>5 DEF PollInv
<1>7. CASE poller = "wait"
  <2> PICK t \in Nat : t = now'
    BY <1>1, <1>2
  <2> DEFINE Made(n, u) == [source |-> "crowdsec", id |-> n.id,
                            address |-> address[n.id], expires |-> u + n.duration]
             bansOf == {m \in response.new : m.id \notin Captcha
                                           /\ m.duration > 0}
  <2>1. /\ t = now + 1
        /\ Batch.add = {Made(n, now) : n \in bansOf}
        /\ Batch'.add = {Made(n, t) : n \in bansOf}
        /\ Batch'.snapshot = Batch.snapshot /\ Batch'.deleteIDs = Batch.deleteIDs
        /\ OnItsWay /\ OnItsWay'
    BY <1>1, <1>7 DEF Batch, CrowdSecUpdate, OnItsWay
  <2>2. ASSUME NEW n \in bansOf PROVE n.id \in Decision /\ n.duration \in Nat
    BY DEF TypeOK, Answer
  <2>3. ASSUME NEW n \in bansOf PROVE Promised(Made(n, t))'
    <3>1. Promised(Made(n, now))
      BY <2>1 DEF PollInv, BatchInv
    <3> QED BY <1>1, <1>2, <1>3, <2>2, <3>1 DEF Promised
  <2>4. ASSUME NEW n \in bansOf, NEW m \in bansOf, n.id = m.id
        PROVE  Made(n, t) = Made(m, t)
    <3>1. Made(n, now) = Made(m, now)
      BY <2>1, <2>4 DEF PollInv, BatchInv
    <3>2. now + n.duration = now + m.duration
      BY <3>1
    <3>3. n.duration = m.duration
      BY <1>2, <2>2, <3>2
    <3> QED BY <2>4, <3>3
  <2>5. \A b, c \in Batch'.add : b.id = c.id => b = c
    BY <2>1, <2>4
  <2>6. BatchInv'
    BY <1>1, <2>1, <2>3, <2>5 DEF PollInv, BatchInv
  <2>7. ASSUME NEW d, \E b \in Batch.add : b.id = d
        PROVE  \E b \in Batch'.add : b.id = d
    <3>1. PICK n \in bansOf : n.id = d
      BY <2>1, <2>7
    <3>2. Made(n, t) \in Batch'.add /\ Made(n, t).id = d
      BY <2>1, <3>1
    <3> QED BY <3>2
  <2>8. CoverInv'
    BY <1>1, <1>3, <2>1, <2>7 DEF PollInv, CoverInv, Enforces
  <2>9. RestInv'
    BY <1>1, <2>1 DEF PollInv, RestInv
  <2> QED BY <1>4, <1>5, <2>6, <2>8, <2>9 DEF PollInv
<1> QED BY <1>6, <1>7

(* The batch is applied: what it covers is enforced, the rest is gone.     *)
LEMMA PollApply ==
    ASSUME TypeOK, PollInv, Apply PROVE PollInv'
<1>1. /\ UNCHANGED <<now, until, told, missed>>
      /\ poller = "apply" /\ poller' = "poll" /\ startup' = FALSE
      /\ ApplyThreatUpdate(pending)
  BY DEF Apply, server
<1>2. /\ OnItsWay /\ ~OnItsWay' /\ Batch = pending
  BY <1>1 DEF OnItsWay, Batch
<1>3. ToldInv' /\ BatchInv' /\ CoverInv' /\ RestInv'
  BY <1>1, <1>2 DEF PollInv, ToldInv, BatchInv, CoverInv, RestInv, Active
<1>4. pending.add \subseteq ThreatBan /\ bans \subseteq ThreatBan
  BY DEF TypeOK, Update
<1>5. ASSUME NEW b \in pending.add
      PROVE  Promised(b) /\ b.id \notin pending.deleteIDs /\ b.expires > now
  <2>1. Promised(b) /\ b.id \notin pending.deleteIDs
    BY <1>2 DEF PollInv, BatchInv, Promised
  <2>2. b.expires > now
    <3>1. ~(b.expires <= now) /\ b.expires \in Nat /\ now \in Nat
      BY <1>1, <1>4 DEF ApplyThreatUpdate, Refused, TypeOK, ThreatBan
    <3> QED BY <3>1
  <2> QED BY <2>1, <2>2
<1>6. ASSUME NEW d \in Decision \ Captcha, ~missed, told[d] = "new", Active(d)
      PROVE  \E b \in bans' : Enforces(b, d)
  <2>1. CASE \E b \in pending.add : b.id = d
    <3>1. PICK b \in pending.add : b.id = d
      BY <2>1
    <3>2. b \in bans'
      BY <1>1, <1>5, UpdateEffect
    <3> QED BY <1>5, <1>6, <3>1, <3>2 DEF Promised, Enforces
  <2>2. CASE ~\E b \in pending.add : b.id = d
    <3>1. PICK b \in bans : ~startup /\ Enforces(b, d)
      BY <1>2, <1>6, <2>2 DEF PollInv, CoverInv
    <3>2. b.source = "crowdsec" /\ b.id = d /\ b.expires > now
      BY <1>4, <1>6, <3>1, EnforcesLasts DEF Enforces
    <3>3. ~pending.snapshot /\ d \notin pending.deleteIDs
      BY <1>2, <1>6, <3>1 DEF PollInv, BatchInv
    <3>4. \A c \in pending.add : ~SameBan(c, b)
      BY <1>5, <2>2, <3>2 DEF SameBan, Promised
    <3>5. b \in bans'
      BY <1>1, <3>2, <3>3, <3>4, UpdateEffect
    <3> QED BY <3>1, <3>5
  <2> QED BY <2>1, <2>2
<1>7. ASSUME NEW b \in bans', ~missed, b.source = "crowdsec"
      PROVE  told[b.id] = "new"
  <2>1. CASE b \in pending.add
    BY <1>5, <2>1 DEF Promised
  <2>2. CASE b \notin pending.add
    <3>1. b \in bans /\ ~pending.snapshot /\ b.id \notin pending.deleteIDs
      BY <1>1, <1>7, <2>2, UpdateEffect
    <3> QED BY <1>2, <1>7, <3>1 DEF PollInv, BatchInv, RestInv
  <2> QED BY <2>1, <2>2
<1>8. Reconciled'
  BY <1>1, <1>6, <1>7 DEF Reconciled, Enforces, Active
<1> QED BY <1>3, <1>8 DEF PollInv

(* A request: its answer has what is not enforced yet, to its end, and     *)
(* what is to be deleted.                                                  *)
LEMMA PollStream ==
    ASSUME TypeOK, PollInv, Stream PROVE PollInv'
<1> DEFINE Made(d) == [source |-> "crowdsec", id |-> d, address |-> address[d],
                       expires |-> now + Remaining(d)]
<1>1. /\ UNCHANGED <<now, until, startup, bans>>
      /\ poller = "poll" /\ poller' = "wait"
      /\ told' = [d \in Decision |-> IF Over(d) THEN "deleted"
                                     ELSE IF d \in News THEN "new"
                                     ELSE IF d \in Considered THEN "passed"
                                     ELSE told[d]]
      /\ missed' <=> missed /\ ~startup
  BY DEF Stream
<1>2. PICK again \in SUBSET {d \in Decision : Over(d)} :
        response' = [new |-> {[id |-> d, duration |-> Remaining(d)] : d \in News},
                     deleted |-> again \cup
                       {d \in Decision : Over(d) /\ told[d] # "deleted"}]
  BY DEF Stream
<1>3. now \in Nat /\ until \in [Decision -> Nat] /\ startup \in BOOLEAN
      /\ told \in [Decision -> {"nothing", "new", "passed", "deleted"}]
  BY DEF TypeOK
<1>N. \A d \in News : d \in Decision /\ Active(d)
  BY DEF News, Considered
<1>T. ASSUME NEW d \in Decision
      PROVE  /\ now + Remaining(d) = until[d]
             /\ Active(d)' <=> Active(d)
             /\ Active(d) => ~Over(d) /\ until[d] # 0 /\ Remaining(d) > 0
             /\ Over(d) => until[d] # 0
  BY <1>1, <1>3 DEF Remaining, Active, Over
<1>4. ASSUME NEW d \in Decision
      PROVE  /\ Over(d) => told'[d] = "deleted"
             /\ d \in News => told'[d] = "new"
             /\ told'[d] = "new" /\ d \notin News => ~startup \/ ~Active(d)
             /\ told'[d] = "new" /\ d \notin News => told[d] = "new"
             /\ told'[d] # "nothing" => told[d] # "nothing" \/ Active(d) \/ Over(d)
             /\ told'[d] = "deleted" => Over(d) \/ told[d] = "deleted"
             /\ Active(d) /\ told[d] = "new" /\ ~startup => told'[d] = "new"
  <2>1. told'[d] = IF Over(d) THEN "deleted"
                   ELSE IF d \in News THEN "new"
                   ELSE IF d \in Considered THEN "passed" ELSE told[d]
    BY <1>1
  <2>2. d \in Considered <=> Active(d) /\ (startup \/ told[d] = "nothing")
    BY DEF Considered
  <2> QED BY <2>1, <2>2, <1>N, <1>T
<1>5. /\ Batch'.snapshot = startup
      /\ Batch'.add = {[source |-> "crowdsec", id |-> n.id,
                        address |-> address[n.id],
                        expires |-> now + n.duration] :
                          n \in {m \in response'.new : m.id \notin Captcha
                                                   /\ m.duration > 0}}
      /\ Batch'.deleteIDs = IF startup THEN {} ELSE response'.deleted
      /\ OnItsWay'
  BY <1>1 DEF Batch, OnItsWay, CrowdSecUpdate
<1>6. Batch'.add = {Made(d) : d \in News \ Captcha}
  <2>1. ASSUME NEW d \in News \ Captcha
        PROVE  \E n \in response'.new : /\ n.id \notin Captcha /\ n.id = d
                                        /\ n.duration = Remaining(d)
                                        /\ n.duration > 0
    <3>1. [id |-> d, duration |-> Remaining(d)] \in response'.new
      BY <1>2
    <3>2. Remaining(d) > 0
      BY <1>N, <1>T
    <3> QED BY <3>1, <3>2
  <2>2. \A n \in response'.new : n.id \in News /\ n.duration = Remaining(n.id)
    BY <1>2
  <2>3. ASSUME NEW d \in News \ Captcha PROVE Made(d) \in Batch'.add
    <3>1. PICK n \in response'.new : /\ n.id \notin Captcha /\ n.id = d
                                    /\ n.duration = Remaining(d)
                                    /\ n.duration > 0
      BY <2>1
    <3> QED BY <1>5, <3>1
  <2>4. ASSUME NEW b \in Batch'.add
        PROVE  b \in {Made(d) : d \in News \ Captcha}
    <3>1. PICK n \in response'.new :
            /\ n.id \notin Captcha
            /\ b = [source |-> "crowdsec", id |-> n.id,
                    address |-> address[n.id], expires |-> now + n.duration]
      BY <1>5
    <3>2. b = Made(n.id) /\ n.id \in News \ Captcha
      BY <2>2, <3>1
    <3> QED BY <3>2
  <2> QED BY <2>3, <2>4
<1>7. ToldInv'
  <2>1. ASSUME NEW d \in Decision
        PROVE  /\ told'[d] # "nothing" => until[d] # 0
               /\ told'[d] = "deleted" => ~Active(d)
    BY <1>4, <1>T DEF PollInv, ToldInv
  <2> QED BY <1>1, <1>T, <2>1 DEF ToldInv
<1>8. ASSUME NEW d \in News
      PROVE  /\ d \in Decision /\ Active(d) /\ told'[d] = "new"
             /\ Made(d).id = d /\ Made(d).expires = until[d]
             /\ Made(d).source = "crowdsec" /\ Made(d).address = address[d]
  BY <1>4, <1>N, <1>T
<1>9. BatchInv'
  <2>1. ASSUME NEW b \in Batch'.add PROVE Promised(b)'
    <3>1. PICK d \in News : b = Made(d)
      BY <1>6, <2>1
    <3>2. b.expires >= until[d]
      BY <1>3, <1>8, <3>1
    <3> HIDE DEF Made
    <3> QED BY <1>1, <1>8, <3>1, <3>2 DEF Promised
  <2>2. ASSUME NEW b \in Batch'.add, NEW c \in Batch'.add, b.id = c.id
        PROVE  b = c
    <3>1. PICK d \in News : b = Made(d)
      BY <1>6, <2>2
    <3>2. PICK e \in News : c = Made(e)
      BY <1>6, <2>2
    <3>3. d = e
      BY <2>2, <3>1, <3>2
    <3> QED BY <3>1, <3>2, <3>3
  <2>3. \A d \in Batch'.deleteIDs : told'[d] = "deleted"
    BY <1>2, <1>4, <1>5
  <2> QED BY <1>1, <1>5, <2>1, <2>2, <2>3 DEF BatchInv
<1>10. CoverInv'
  <2>1. ASSUME startup \/ ~missed, NEW d \in Decision \ Captcha, Active(d),
               told'[d] = "new"
        PROVE  \/ \E b \in Batch'.add : b.id = d
               \/ ~startup /\ \E b \in bans : Enforces(b, d)
    <3>1. CASE d \in News
      <4>1. Made(d) \in Batch'.add
        BY <1>6, <2>1, <3>1
      <4> QED BY <1>8, <3>1, <4>1
    <3>2. CASE d \notin News
      <4>1. ~startup /\ ~missed /\ told[d] = "new"
        BY <1>4, <2>1, <3>2
      <4> QED BY <1>1, <2>1, <4>1, ReconciledDef DEF PollInv
    <3> QED BY <3>1, <3>2
  <2> HIDE DEF Made
  <2> QED BY <1>1, <1>T, <1>5, <2>1 DEF CoverInv, Enforces
<1>11. RestInv'
  <2>1. ASSUME ~startup, ~missed, NEW b \in bans, b.source = "crowdsec"
        PROVE  told'[b.id] = "new" \/ b.id \in Batch'.deleteIDs
    <3>1. told[b.id] = "new"
      BY <1>1, <2>1 DEF PollInv, Reconciled
    <3>2. b.id \in Decision
      BY <2>1, <3>1, ProtectAssumption DEF TypeOK, ThreatBan
    <3>3. until[b.id] # 0
      BY <3>1, <3>2 DEF PollInv, ToldInv
    <3>4. CASE Active(b.id)
      BY <1>4, <2>1, <3>1, <3>2, <3>4
    <3>5. CASE ~Active(b.id)
      BY <1>2, <1>5, <2>1, <3>1, <3>2, <3>3, <3>5 DEF Over
    <3> QED BY <3>4, <3>5
  <2> HIDE DEF Made
  <2> QED BY <1>1, <1>5, <2>1 DEF RestInv
<1>12. Reconciled'
  BY <1>1 DEF Reconciled
<1> QED BY <1>7, <1>9, <1>10, <1>11, <1>12 DEF PollInv

(* Every step keeps what the poller knows. *)
LEMMA PollStep == TypeOK /\ PollInv /\ [Next]_vars => PollInv'
<1> SUFFICES ASSUME TypeOK, PollInv, [Next]_vars PROVE PollInv'
  OBVIOUS
<1>1. CASE \E d \in Decision : Decide(d) \/ Revoke(d)
  BY <1>1, PollServer
<1>2. CASE Receive
  BY <1>2, PollReceive, PollSnapshot
<1>3. CASE UNCHANGED vars
  <2>1. UNCHANGED <<now, server, client, bans, missed>>
    BY <1>3 DEF vars
  <2> QED BY <2>1, PollBans
<1> QED BY <1>1, <1>2, <1>3, PollStream, PollSnapshot, PollApply, PollOthers,
           PollRetry, PollTick DEF Next

(* Whenever no batch is on its way and no answer was lost, the bans of     *)
(* CrowdSec are the decisions it has told of, for any number of decisions, *)
(* their lifetimes and addresses, and however often batches are refused or *)
(* invalid, answers late and the service restarted.                        *)
THEOREM BansAreReconciled == Spec => []Reconciled
<1>1. Init => PollInv
  BY DEF Init, PollInv, ToldInv, BatchInv, CoverInv, RestInv, Reconciled, OnItsWay
<1>2. PollInv => Reconciled
  BY DEF PollInv
<1> QED BY <1>1, <1>2, PollStep, ProtectTyping, PTL DEF Spec

-----------------------------------------------------------------------------
(* Identity. *)

(* Every step that changes the bans keeps their identities apart.          *)
LEMMA UpdateOneBan ==
    ASSUME OneBan, NEW u, ApplyThreatUpdate(u),
           \A b, c \in u.add : SameBan(b, c) => b = c
    PROVE  OneBan'
<1> SUFFICES ASSUME NEW b \in bans', NEW c \in bans', SameBan(b, c)
             PROVE  b = c
  BY DEF OneBan
<1>1. SameBan(c, b)
  BY DEF SameBan
<1>2. CASE b \in u.add /\ c \in u.add
  BY <1>2
<1>3. CASE b \in u.add /\ c \notin u.add
  BY <1>3, UpdateEffect
<1>4. CASE b \notin u.add /\ c \in u.add
  BY <1>1, <1>4, UpdateEffect
<1>5. CASE b \notin u.add /\ c \notin u.add
  BY <1>5, UpdateEffect DEF OneBan
<1> QED BY <1>2, <1>3, <1>4, <1>5

(* No two bans ever have the same identity.                                *)
THEOREM OneBanEach == Spec => []OneBan
<1>1. Init => OneBan
  BY DEF Init, OneBan
<1>2. TypeOK /\ PollInv /\ OneBan /\ [Next]_vars => OneBan'
  <2> SUFFICES ASSUME TypeOK, PollInv, OneBan, [Next]_vars PROVE OneBan'
    OBVIOUS
  <2>1. CASE Apply
    <3>1. OnItsWay /\ Batch = pending
      BY <2>1 DEF Apply, OnItsWay, Batch
    <3>2. ASSUME NEW b \in pending.add, NEW c \in pending.add, SameBan(b, c)
          PROVE  b = c
      BY <3>1, <3>2 DEF PollInv, BatchInv, Promised, SameBan
    <3> QED BY <2>1, <3>2, UpdateOneBan DEF Apply
  <2>2. CASE \E j \in Jail, a \in Addr : BanLocal(j, a)
    <3>1. PICK j \in Jail, a \in Addr : BanLocal(j, a)
      BY <2>2
    <3> DEFINE u == [NoUpdate EXCEPT !.add = {[source |-> j, id |-> NoDecision,
                              address |-> a, expires |-> now + banTime[j]]}]
    <3>2. ApplyThreatUpdate(u) /\ \A b, c \in u.add : b = c
      BY <3>1 DEF BanLocal, NoUpdate
    <3> HIDE DEF u
    <3> QED BY <3>2, UpdateOneBan
  <2>3. CASE bans' \subseteq bans
    BY <2>3 DEF OneBan
  <2> QED BY <2>1, <2>2, <2>3 DEF Next, Decide, Revoke, Stream, StreamFails,
             Receive, ApplyFails, Retry, Restart, Sweep, Unexpired, Tick, vars
<1>3. Init => PollInv
  BY DEF Init, PollInv, ToldInv, BatchInv, CoverInv, RestInv, Reconciled, OnItsWay
<1> QED BY <1>1, <1>2, <1>3, PollStep, ProtectTyping, PTL DEF Spec

=============================================================================
