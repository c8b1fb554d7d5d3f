------------------------------- MODULE Protect -------------------------------
(***************************************************************************)
(* The threat bans of rules.json: pollCrowdSec follows the decision stream *)
(* of a CrowdSec server, the journal reader adds the bans of its jails     *)
(* (Journal says when), and sweeps drop what has expired.  Each update of  *)
(* the bans loads, changes and commits under the flock, so it is one step  *)
(* here (Commands says why).                                               *)
(*                                                                         *)
(* The server is modelled from how the client uses it: per client it       *)
(* remembers what it has told, a startup request gets every active         *)
(* decision, any other request what changed since the last answer, and of  *)
(* several decisions on one target it sends the longest, its default that  *)
(* the client leaves as it is (docs/crowdsec-lapi-research.md:34-35).      *)
(***************************************************************************)
EXTENDS Integers

CONSTANTS
    Decision,       \* decision ids of the server
    Captcha,        \* those of them that are no bans
    Unreadable,     \* bans with a scope or value the client cannot use
    Addr,           \* addresses and ranges
    address,        \* address[d]: the target of decision d
    Jail,           \* the journal's jails
    banTime,        \* banTime[j], in ticks
    lifetimes,      \* lifetimes[d]: how long decision d can be made for
    NoDecision,     \* the DecisionID of a ban of a jail
    Faults,         \* what can go wrong: "response", "lock", "restart"
    MaxTime         \* bound of the clock

ASSUME ProtectAssumption ==
    /\ Captcha \subseteq Decision /\ Unreadable \subseteq Decision
    /\ address \in [Decision -> Addr]
    /\ banTime \in [Jail -> Nat \ {0}]
    /\ "crowdsec" \notin Jail          \* a jail's source is "ssh:" and its name
    /\ lifetimes \in [Decision -> SUBSET (Nat \ {0})]
    /\ NoDecision \notin Decision
    /\ MaxTime \in Nat

VARIABLES
    now,            \* the clock
    until,          \* until[d]: the end of decision d, 0 if never made
    told,           \* told[d]: what the server's last answer took d to be
    poller,         \* the point pollCrowdSec has reached
    startup,        \* its variable of that name
    response,       \* the answer on its way to it
    pending,        \* the batch it has to apply
    bans,           \* Bans in rules.json
    missed          \* history: an answer to a poll was lost since a snapshot

server == <<until, told>>
client == <<poller, startup, response, pending>>
vars == <<now, server, client, bans, missed>>

(* A store.ThreatBan: only CrowdSec's have a DecisionID. *)
ThreatBan ==
    [source : {"crowdsec"}, id : Decision, address : Addr, expires : Nat]
      \cup [source : Jail, id : {NoDecision}, address : Addr, expires : Nat]

Answer == [new : SUBSET [id : Decision, duration : Nat],
           deleted : SUBSET Decision]
Update == [snapshot : BOOLEAN, add : SUBSET ThreatBan,
           deleteIDs : SUBSET Decision]

NoAnswer == [new |-> {}, deleted |-> {}]
NoUpdate == [snapshot |-> FALSE, add |-> {}, deleteIDs |-> {}]

TypeOK ==
    /\ now \in Nat \ {0}
    /\ until \in [Decision -> Nat]
    /\ told \in [Decision -> {"nothing", "new", "passed", "deleted"}]
    /\ poller \in {"poll", "wait", "apply", "retry"}
    /\ startup \in BOOLEAN
    /\ response \in Answer
    /\ pending \in Update
    /\ bans \in SUBSET ThreatBan
    /\ missed \in BOOLEAN

Init ==
    /\ now = 1
    /\ until = [d \in Decision |-> 0]
    /\ told = [d \in Decision |-> "nothing"]
    /\ poller = "poll"
    /\ startup = TRUE
    /\ response = NoAnswer
    /\ pending = NoUpdate
    /\ bans = {}
    /\ missed = FALSE

-----------------------------------------------------------------------------
(* The server. *)

Active(d) == until[d] > now
Over(d) == until[d] # 0 /\ ~Active(d)

Decide(d) ==
    /\ until[d] = 0
    /\ \E life \in lifetimes[d] : until' = [until EXCEPT ![d] = now + life]
    /\ UNCHANGED <<now, told, client, bans, missed>>

(* A decision deleted is one that ends now. *)
Revoke(d) ==
    /\ Active(d)
    /\ until' = [until EXCEPT ![d] = now]
    /\ UNCHANGED <<now, told, client, bans, missed>>

-----------------------------------------------------------------------------
(* Changing the bans: applyThreatUpdate. *)

(* The ban's identity: the decision, or the jail and the address. *)
SameBan(b, c) ==
    IF b.source = "crowdsec" THEN c.source = "crowdsec" /\ c.id = b.id
    ELSE c.source = b.source /\ c.address = b.address

Unexpired(s) == {b \in s : b.expires > now}

(* A wrong snapshot: it replaces every ban.                                *)
KeptNone(update) == IF update.snapshot THEN {} ELSE bans

(* A wrong snapshot: it is only added to the bans.                         *)
KeptAll(update) == bans

(* The bans an update starts from: a snapshot replaces all of CrowdSec's.  *)
Kept(update) ==
    IF update.snapshot THEN {b \in bans : b.source # "crowdsec"} ELSE bans

(* A wrong update: what is the same is not replaced.                       *)
UpdatedAppends(update) ==
    {b \in Kept(update) \cup update.add :
        b.source = "crowdsec" => b.id \notin update.deleteIDs}

(* applyThreatUpdateToState: add, replacing what is the same, then delete. *)
Updated(update) ==
    LET added == {b \in Kept(update) : \A c \in update.add : ~SameBan(c, b)}
                   \cup update.add
    IN  {b \in added : b.source = "crowdsec" => b.id \notin update.deleteIDs}

(* The whole update is refused if one of its bans has expired meanwhile.   *)
Refused(update) == \E b \in update.add : b.expires <= now

(* A successful applyThreatUpdate: a commit, which sweeps, unless nothing  *)
(* changes.                                                                *)
ApplyThreatUpdate(update) ==
    /\ ~Refused(update)
    /\ bans' = IF Updated(update) = bans THEN bans
               ELSE Unexpired(Updated(update))

-----------------------------------------------------------------------------
(* pollCrowdSec. *)

(* A wrong duration: how long ago the decision ends.                       *)
Elapsed(d) == now - until[d]

(* The duration in an answer: what is left of the decision.                *)
Remaining(d) == until[d] - now

(* No active decision on the same target ends later; the value of one the  *)
(* client cannot use is no other's.                                        *)
Longest(d) ==
    \A e \in Decision \ Unreadable :
        d \notin Unreadable /\ address[e] = address[d] => until[e] <= until[d]

(* The decisions of an answer, and those it considers but leaves out for a *)
(* longer one: these are not looked at again until the next snapshot.      *)
Considered == {d \in Decision : Active(d) /\ (startup \/ told[d] = "nothing")}
News == {d \in Considered : Longest(d)}

(* The request reaches the server, which answers.  Past deletions may be   *)
(* repeated.  A request that does not reach it changes nothing.            *)
Stream ==
    /\ poller = "poll"
    /\ poller' = "wait"
    /\ \E again \in SUBSET {d \in Decision : Over(d)} :
          response' =
            [new |-> {[id |-> d, duration |-> Remaining(d)] : d \in News},
             deleted |-> again \cup
                           {d \in Decision : Over(d) /\ told[d] # "deleted"}]
    /\ told' = [d \in Decision |-> IF Over(d) THEN "deleted"
                                   ELSE IF d \in News THEN "new"
                                   ELSE IF d \in Considered THEN "passed"
                                   ELSE told[d]]
    /\ missed' = (missed /\ ~startup)
    /\ UNCHANGED <<now, until, startup, pending, bans>>

(* The answer is lost on its way, or cannot be read or decoded: a warning, *)
(* and the next poll asks as this one did.                                 *)
StreamFails ==
    /\ "response" \in Faults
    /\ poller = "wait"
    /\ poller' = "poll"
    /\ response' = NoAnswer
    /\ missed' = (missed \/ ~startup)
    /\ UNCHANGED <<now, server, startup, pending, bans>>

(* crowdSecUpdate: only bans with time left are added, their expiry        *)
(* reckoned from now; a snapshot needs no deletions.                       *)
CrowdSecUpdate ==
    [snapshot |-> startup,
     add |-> {[source |-> "crowdsec", id |-> n.id, address |-> address[n.id],
               expires |-> now + n.duration] :
                n \in {m \in response.new : m.id \notin Captcha
                                           /\ m.duration > 0}},
     deleteIDs |-> IF startup THEN {} ELSE response.deleted]

BatchInvalid ==
    \E n \in response.new : n.id \in Unreadable \ Captcha

(* A wrong reception: an invalid batch is thrown away and that is that.    *)
ReceiveGoesOn ==
    /\ poller = "wait"
    /\ response' = NoAnswer
    /\ IF BatchInvalid
       THEN /\ poller' = "poll"
            /\ UNCHANGED <<startup, pending>>
       ELSE /\ poller' = "apply"
            /\ pending' = CrowdSecUpdate
            /\ UNCHANGED startup
    /\ UNCHANGED <<now, server, bans, missed>>

(* The answer arrives.  An invalid batch is thrown away, and the next      *)
(* request asks for a snapshot.                                            *)
Receive ==
    /\ poller = "wait"
    /\ response' = NoAnswer
    /\ IF BatchInvalid
       THEN /\ poller' = "poll"
            /\ startup' = TRUE
            /\ UNCHANGED pending
       ELSE /\ poller' = "apply"
            /\ pending' = CrowdSecUpdate
            /\ UNCHANGED startup
    /\ UNCHANGED <<now, server, bans, missed>>

(* The batch is applied. *)
Apply ==
    /\ poller = "apply"
    /\ ApplyThreatUpdate(pending)
    /\ poller' = "poll"
    /\ startup' = FALSE
    /\ pending' = NoUpdate
    /\ UNCHANGED <<now, server, response, missed>>

(* The update is refused, the lock is taken or the commit fails: nothing   *)
(* changes and the batch waits for the ticker and the next try.            *)
ApplyFails ==
    /\ poller = "apply"
    /\ Refused(pending) \/ "lock" \in Faults
    /\ poller' = "retry"
    /\ UNCHANGED <<now, server, startup, response, pending, bans, missed>>

Retry ==
    /\ poller = "retry"
    /\ poller' = "apply"
    /\ UNCHANGED <<now, server, startup, response, pending, bans, missed>>

(* A wrong start: the service goes on with the deltas.                     *)
RestartResumes ==
    /\ "restart" \in Faults
    /\ poller' = "poll"
    /\ startup' = FALSE
    /\ response' = NoAnswer
    /\ pending' = NoUpdate
    /\ UNCHANGED <<now, server, bans, missed>>

(* bfw protect is restarted: rules.json and the server's record stay. *)
Restart ==
    /\ "restart" \in Faults
    /\ poller' = "poll"
    /\ startup' = TRUE
    /\ response' = NoAnswer
    /\ pending' = NoUpdate
    /\ UNCHANGED <<now, server, bans, missed>>

-----------------------------------------------------------------------------
(* The other actors. *)

(* The journal reader's apply callback, for a ban the detector reports.    *)
BanLocal(j, a) ==
    /\ ApplyThreatUpdate(
         [NoUpdate EXCEPT !.add = {[source |-> j, id |-> NoDecision,
                                    address |-> a,
                                    expires |-> now + banTime[j]]}])
    /\ UNCHANGED <<now, server, client, missed>>

(* A commit of any other command, first of all the sweep timer's. *)
Sweep ==
    /\ bans' = Unexpired(bans)
    /\ UNCHANGED <<now, server, client, missed>>

Tick ==
    /\ now < MaxTime
    /\ now' = now + 1
    /\ UNCHANGED <<server, client, bans, missed>>

Next ==
    \/ \E d \in Decision : Decide(d) \/ Revoke(d)
    \/ Stream \/ StreamFails \/ Receive \/ Apply \/ ApplyFails \/ Retry
    \/ Restart
    \/ \E j \in Jail, a \in Addr : BanLocal(j, a)
    \/ Sweep \/ Tick

Spec == Init /\ [][Next]_vars

(* The poller's loop goes on: its ticker fires, some answer arrives in the *)
(* end, and an answer that has arrived is tried at once, so that restarts  *)
(* do not prevent every try.  That some try succeeds is not assumed: the   *)
(* lock may be taken at each of them.                                      *)
FairSpec ==
    /\ Spec
    /\ WF_vars(Stream) /\ SF_vars(Receive)
    /\ SF_vars(Apply \/ ApplyFails) /\ WF_vars(Retry)

-----------------------------------------------------------------------------
(* Properties. *)

(* Two bans never have the same identity, so that deleting or replacing    *)
(* one leaves no other behind (commands_protect.go:263-272).               *)
OneBan == \A b, c \in bans : SameBan(b, c) => b = c

(* Whenever nothing is on its way, the bans of CrowdSec are those decisions*)
(* it has told of: each that is active is enforced to its end, and none it *)
(* has taken back is left.  This holds through restarts, late and invalid  *)
(* batches; an answer that was lost breaks it until the next snapshot      *)
(* (commands_protect.go:107-147).                                          *)
Reconciled ==
    poller = "poll" /\ ~startup /\ ~missed =>
        /\ \A d \in Decision \ Captcha :
              told[d] = "new" /\ Active(d) =>
                 \E b \in bans : /\ b.source = "crowdsec" /\ b.id = d
                                 /\ b.address = address[d]
                                 /\ b.expires >= until[d]
        /\ \A b \in bans : b.source = "crowdsec" => told[b.id] = "new"

(* A ban of a jail stays until it expires or is extended, whatever         *)
(* snapshots and deletions CrowdSec sends (commands_protect.go:237-245).   *)
LocalBansKept ==
    [][\A b \in bans : b.source # "crowdsec" /\ b.expires > now =>
          \E c \in bans' : SameBan(b, c) /\ c.expires >= b.expires]_vars

Enforced(d) == \E b \in bans : b.source = "crowdsec" /\ b.id = d

(* A decision that outlasts the run.                                       *)
Lasting(d) == until[d] > MaxTime

(* A lasting decision is enforced or taken back in the end, once no        *)
(* decision that cannot be read is left, and unless the server passes it   *)
(* over for a longer one on its target, the tries to apply a batch go on   *)
(* failing or an answer is lost (commands_protect.go:107-147).             *)
DecisionsTakeEffect ==
    \A d \in Decision \ Captcha :
        Lasting(d) /\ (\A e \in Unreadable : Over(e))
          ~> \/ Enforced(d)
             \/ ~Lasting(d)
             \/ told[d] = "passed"
             \/ poller = "retry"
             \/ missed

=============================================================================
