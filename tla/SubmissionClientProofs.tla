----------------------- MODULE SubmissionClientProofs -----------------------
(***************************************************************************)
(* The safety of the submission flow for any number of tabs, accounts,     *)
(* projects and slots.                                                     *)
(*                                                                         *)
(* A hash is held by a flow that is committing, by the recovery entry, by  *)
(* a transaction on its way and by a commit; it is made in one place only, *)
(* at the end of an upload, from a salt no other flow has.  Everything     *)
(* else hands it on.  So the salt names the hash, the hash names sender,   *)
(* slot and project, and BountyHub takes each hash once.                   *)
(***************************************************************************)
EXTENDS SubmissionClient, FiniteSetTheorems, TLAPS

Uploading  == {"post", "posted", "switch", "pointer", "write", "refused", "receipt",
               "rejoin", "read", "proof", "restore"}
Committing == {"simulate", "send", "wait", "catch"}
Phases     == Uploading \cup Committing \cup {"idle", "failed", "committed"}

Payloads == [poc : PoCs \cup OtherPoCs, project : Projects \cup {None}]
Uris     == [slot : Slots \cup {None}, payload : Payloads]
Hashes   == [uri : Uris, sender : Accounts, salt : Nat]
Contexts == [project : Projects, auditor : Accounts, salt : Nat, uri : Uris, hash : Hashes]
Flow     == [phase : Phases, project : Projects \cup {None}, poc : PoCs \cup {None},
             wallet : Accounts \cup {None}, salt : Nat, from : Accounts \cup {None},
             slot : Slots \cup {None}, retried : BOOLEAN, sentOn : Chains \cup {None},
             uri : Uris \cup {None}, hash : Hashes \cup {None},
             result : {None, "failed", "stored"}, id : Nat]

Types ==
  /\ wallet \in [chain : Chains, account : Accounts]
  /\ stored \in Contexts \cup {None, Unreadable}
  /\ tab \in [Tabs -> Flow]
  /\ IsFiniteSet(commits) /\ (\A c \in commits : c.id \in Nat)
  /\ submits \in Nat

-----------------------------------------------------------------------------
(* Who holds a hash *)

Stored == {stored} \ {None, Unreadable}

Held == {x.hash : x \in commits \cup pending \cup Stored}
          \cup {tab[t].hash : t \in {u \in Tabs : tab[u].phase \in Committing}}

\* A commit, a transaction or a context, and its hash
Bound(x) ==
  /\ x.hash \in Hashes /\ x.hash.sender = x.auditor /\ x.hash.uri = x.uri
  /\ x.uri.payload.project = x.project

FlowBound(f) ==
  /\ f.phase \in Uploading => f.project \in Projects /\ f.poc \in PoCs /\ f.wallet \in Accounts
  /\ f.phase \in Committing => /\ f.hash \in Hashes /\ f.hash.sender = f.wallet
                               /\ f.hash.uri = f.uri /\ f.uri.payload.project = f.project

Binding ==
  /\ \A x \in commits \cup pending \cup Stored : Bound(x)
  /\ \A t \in Tabs : FlowBound(tab[t])

\* A salt is spent by the flow that starts with it.
SaltsSpent ==
  /\ \A h \in Held : h.salt <= submits
  /\ \A t \in Tabs : tab[t].phase \in Uploading => tab[t].salt <= submits
SaltNamesHash == \A h, g \in Held : h.salt = g.salt => h = g
SaltsApart ==
  \A t \in Tabs : tab[t].phase \in Uploading =>
    /\ \A h \in Held : h.salt # tab[t].salt
    /\ \A u \in Tabs \ {t} : tab[u].phase \in Uploading => tab[u].salt # tab[t].salt
HashOnce == \A c, d \in commits : c.hash = d.hash => c = d

IInv ==
  /\ Types /\ Binding /\ SaltsSpent /\ SaltNamesHash /\ SaltsApart /\ HashOnce
  /\ ReportedIsCommitted

-----------------------------------------------------------------------------
(* What a step does to a flow *)

\* It goes on uploading, goes on committing, or holds nothing any more.
Handed(f, g) ==
  /\ g.phase \in Uploading => /\ f.phase \in Uploading /\ g.project = f.project
                              /\ g.poc = f.poc /\ g.wallet = f.wallet /\ g.salt = f.salt
  /\ g.phase \in Committing => /\ f.phase \in Committing /\ g.project = f.project
                               /\ g.wallet = f.wallet /\ g.uri = f.uri /\ g.hash = f.hash
  /\ g.phase = "committed" =>
       \/ g = f
       \/ /\ f.phase \in Committing /\ g.project = f.project
          /\ g.wallet = f.wallet /\ g.hash = f.hash
          /\ \E c \in commits : c.hash = f.hash /\ c.id = g.id

\* A step that makes no hash: flows go on, the entry is kept or removed.
QuietStep ==
  /\ Types' /\ (\A t \in Tabs : Handed(tab[t], tab'[t]))
  /\ stored' \in {stored, None} /\ UNCHANGED <<commits, pending>> /\ submits <= submits'

\* One tab's flow is replaced.
Moves(t, g) == g \in Flow /\ tab' = [tab EXCEPT ![t] = g]

LEMMA PhaseSets ==
  /\ Uploading \cap Committing = {}
  /\ {"idle", "failed", "committed"} \cap (Uploading \cup Committing) = {}
  /\ {"pointer", "posted", "write", "receipt", "restore", "simulate", "idle", "failed",
      "committed"} \subseteq Phases
BY DEF Uploading, Committing, Phases

LEMMA HandedSame ==
  ASSUME NEW f
  PROVE  Handed(f, f)
BY DEF Handed

LEMMA MovesQuiet ==
  ASSUME IInv, NEW t \in Tabs, NEW g, Moves(t, g), Handed(tab[t], g),
         wallet' \in [chain : Chains, account : Accounts],
         stored' \in {stored, None}, UNCHANGED <<commits, pending, submits>>
  PROVE  QuietStep
<1>1. tab' \in [Tabs -> Flow] /\ tab'[t] = g /\ \A u \in Tabs \ {t} : tab'[u] = tab[u]
  BY DEF Moves, IInv, Types
<1>2. \A u \in Tabs : Handed(tab[u], tab'[u])
  BY <1>1, HandedSame
<1>3. Types'
  BY <1>1 DEF IInv, Types
<1>4. QED
  BY <1>2, <1>3 DEF QuietStep, IInv, Types

\* The envelope of a flow
Own(f) == Payload(f.poc, f.project)

\* The hashes that are held were held before, or one upload has just ended.
HeldFrom ==
  \A h \in Held' : \/ h \in Held
                   \/ \E t \in Tabs : /\ tab[t].phase = "restore" /\ tab[t].result = "stored"
                                      /\ h.uri = Uri(tab[t].slot, Own(tab[t]))

-----------------------------------------------------------------------------
\* Nobody makes a hash and nobody starts: what held keeps holding.
LEMMA HeldShrinks ==
  ASSUME IInv, Types', Binding', ReportedIsCommitted', HashOnce',
         Held' \subseteq Held, submits <= submits',
         \A t \in Tabs : tab'[t].phase \in Uploading =>
           tab[t].phase \in Uploading /\ tab'[t].salt = tab[t].salt
  PROVE  IInv' /\ HeldFrom
<1>1. submits \in Nat /\ submits' \in Nat /\ (\A t \in Tabs : tab[t].salt \in Nat)
  BY DEF IInv, Types, Flow
<1>2. \A h \in Held : h.salt \in Nat
  BY DEF IInv, Binding, Held, Bound, FlowBound, Hashes
<1>3. SaltsSpent'
  BY <1>1, <1>2 DEF IInv, SaltsSpent
<1>4. SaltNamesHash' /\ SaltsApart'
  BY DEF IInv, SaltNamesHash, SaltsApart
<1>5. QED
  BY <1>3, <1>4 DEF IInv, HeldFrom

LEMMA QuietKeeps ==
  ASSUME IInv, QuietStep
  PROVE  IInv' /\ HeldFrom
<1>1. Stored' \subseteq Stored
  BY DEF QuietStep, Stored
<1>2. \A t \in Tabs : Handed(tab[t], tab'[t])
  BY DEF QuietStep
<1>3. Held' \subseteq Held
  BY <1>1, <1>2 DEF Held, QuietStep, Handed
<1>4. Binding'
  <2>1. \A x \in (commits \cup pending \cup Stored)' : Bound(x)'
    BY <1>1 DEF IInv, Binding, QuietStep, Bound
  <2>2. \A t \in Tabs : FlowBound(tab[t])'
    BY <1>2 DEF IInv, Binding, FlowBound, Handed
  <2>3. QED
    BY <2>1, <2>2 DEF Binding
<1>5. ReportedIsCommitted'
  <2> SUFFICES ASSUME NEW t \in Tabs, tab'[t].phase = "committed"
               PROVE  \E c \in commits : /\ c.id = tab'[t].id /\ c.hash = tab'[t].hash
                                         /\ c.auditor = tab'[t].wallet /\ c.project = tab'[t].project
    BY DEF ReportedIsCommitted, QuietStep
  <2>1. CASE tab'[t] = tab[t]
    BY <2>1 DEF IInv, ReportedIsCommitted
  <2>2. CASE tab'[t] # tab[t]
    <3>1. /\ tab[t].phase \in Committing /\ tab'[t].project = tab[t].project
          /\ tab'[t].wallet = tab[t].wallet /\ tab'[t].hash = tab[t].hash
      BY <1>2, <2>2 DEF Handed
    <3>2. PICK c \in commits : c.hash = tab[t].hash /\ c.id = tab'[t].id
      BY <1>2, <2>2 DEF Handed
    <3>3. Bound(c) /\ FlowBound(tab[t])
      BY DEF IInv, Binding
    <3>4. c.auditor = tab[t].wallet /\ c.project = tab[t].project
      BY <3>1, <3>2, <3>3 DEF Bound, FlowBound
    <3>5. QED
      BY <3>1, <3>2, <3>4
  <2>3. QED
    BY <2>1, <2>2
<1>6. HashOnce' /\ Types' /\ submits <= submits'
  BY DEF IInv, HashOnce, QuietStep
<1>7. \A t \in Tabs : tab'[t].phase \in Uploading =>
           tab[t].phase \in Uploading /\ tab'[t].salt = tab[t].salt
  BY <1>2 DEF Handed
<1>8. QED
  BY <1>3, <1>4, <1>5, <1>6, <1>7, HeldShrinks

\* What a replaced flow leaves alone
LEMMA MovesOnly ==
  ASSUME IInv, NEW t \in Tabs, NEW g, Moves(t, g)
  PROVE  /\ tab' \in [Tabs -> Flow] /\ tab'[t] = g
         /\ \A u \in Tabs \ {t} : tab'[u] = tab[u]
BY DEF Moves, IInv, Types

\* A flow nobody reported on yet changes no report.
LEMMA ReportsStay ==
  ASSUME IInv, NEW t \in Tabs, NEW g, Moves(t, g), g.phase # "committed",
         commits \subseteq commits'
  PROVE  ReportedIsCommitted'
BY MovesOnly DEF IInv, ReportedIsCommitted

\* A new upload takes the next salt.
LEMMA StartKeeps ==
  ASSUME IInv, NEW t \in Tabs, NEW g, Moves(t, g),
         g.phase \in Uploading, g.project \in Projects, g.poc \in PoCs, g.wallet \in Accounts,
         g.salt = submits + 1, submits' = submits + 1,
         stored' = None, UNCHANGED <<wallet, commits, pending>>
  PROVE  IInv' /\ HeldFrom
<1>1. /\ tab' \in [Tabs -> Flow] /\ tab'[t] = g
      /\ \A u \in Tabs \ {t} : tab'[u] = tab[u]
  BY MovesOnly
<1>2. g.phase \notin Committing /\ g.phase # "committed"
  BY PhaseSets
<1>3. Types'
  BY <1>1 DEF IInv, Types
<1>4. Stored' = {}
  BY DEF Stored
<1>5. Held' \subseteq Held
  BY <1>1, <1>2, <1>4 DEF Held
<1>6. Binding'
  BY <1>1, <1>2, <1>4 DEF IInv, Binding, Bound, FlowBound
<1>7. ReportedIsCommitted'
  BY <1>2, ReportsStay
<1>8. submits \in Nat /\ (\A u \in Tabs : tab[u].salt \in Nat) /\ (\A h \in Held : h.salt \in Nat)
  BY DEF IInv, Types, Flow, Binding, Held, Bound, FlowBound, Hashes
<1>9. SaltsSpent'
  BY <1>1, <1>5, <1>8 DEF IInv, SaltsSpent
<1>10. SaltsApart'
  <2>1. /\ \A h \in Held : h.salt # submits + 1
        /\ \A u \in Tabs : tab[u].phase \in Uploading => tab[u].salt # submits + 1
    BY <1>8 DEF IInv, SaltsSpent
  <2>2. QED
    BY <1>1, <1>5, <2>1 DEF IInv, SaltsApart
<1>11. SaltNamesHash' /\ HashOnce'
  BY <1>5 DEF IInv, SaltNamesHash, HashOnce
<1>12. QED
  BY <1>3, <1>6, <1>7, <1>9, <1>10, <1>11, <1>5 DEF HeldFrom, IInv

\* A retry takes the hash of the entry.
LEMMA ResumeKeeps ==
  ASSUME IInv, NEW t \in Tabs, NEW g, Moves(t, g), stored \in Stored,
         g.phase \in Committing, g.project = stored.project, g.wallet = stored.auditor,
         g.uri = stored.uri, g.hash = stored.hash, submits' = submits + 1,
         UNCHANGED <<wallet, stored, commits, pending>>
  PROVE  IInv' /\ HeldFrom
<1>1. /\ tab' \in [Tabs -> Flow] /\ tab'[t] = g
      /\ \A u \in Tabs \ {t} : tab'[u] = tab[u]
  BY MovesOnly
<1>2. g.phase \notin Uploading /\ g.phase # "committed"
  BY PhaseSets
<1>3. Types' /\ submits <= submits'
  BY <1>1 DEF IInv, Types
<1>4. Stored' = Stored
  BY DEF Stored
<1>5. Held' \subseteq Held
  BY <1>1, <1>4 DEF Held
<1>6. Bound(stored)
  BY DEF IInv, Binding
<1>7. Binding'
  BY <1>1, <1>2, <1>4, <1>6 DEF IInv, Binding, Bound, FlowBound
<1>8. ReportedIsCommitted' /\ HashOnce'
  BY <1>2, ReportsStay DEF IInv, HashOnce
<1>9. QED
  BY <1>1, <1>2, <1>3, <1>5, <1>7, <1>8, HeldShrinks

\* The only step that makes a hash: from the salt of its upload.
LEMMA PrepareKeeps ==
  ASSUME IInv, NEW t \in Tabs, NEW g, Moves(t, g), tab[t].phase \in Uploading,
         g.phase \in Committing, g.project = tab[t].project, g.wallet = tab[t].wallet,
         g.salt = tab[t].salt, g.uri \in Uris, g.uri.payload.project = g.project,
         g.hash = Hash(g.uri, g.wallet, g.salt),
         stored' = Context(g), wallet' \in [chain : Chains, account : Accounts],
         UNCHANGED <<commits, pending, submits>>
  PROVE  IInv' /\ Held' \subseteq Held \cup {g.hash}
<1> DEFINE hash == Hash(g.uri, g.wallet, g.salt)
<1>1. /\ tab' \in [Tabs -> Flow] /\ tab'[t] = g
      /\ \A u \in Tabs \ {t} : tab'[u] = tab[u]
  BY MovesOnly
<1>2. g.phase \notin Uploading /\ g.phase # "committed"
  BY PhaseSets
<1>3. g.project \in Projects /\ g.wallet \in Accounts /\ g.salt \in Nat
  BY DEF IInv, Binding, FlowBound, Types, Flow
<1>4. /\ hash \in Hashes /\ hash.sender = g.wallet /\ hash.uri = g.uri /\ hash.salt = g.salt
      /\ g.hash = hash
  BY <1>3 DEF Hash, Hashes
<1> HIDE DEF hash
<1>5. stored' \in Contexts /\ stored'.hash = hash /\ Bound(stored)'
  BY <1>3, <1>4 DEF Context, Contexts, Bound
<1>6. Stored' \subseteq {stored'}
  BY DEF Stored
<1>7. Held' \subseteq Held \cup {hash}
  BY <1>1, <1>4, <1>5, <1>6 DEF Held
<1>8. Types'
  BY <1>1, <1>5 DEF IInv, Types
<1>9. Binding'
  <2>1. \A x \in (commits \cup pending \cup Stored)' : Bound(x)'
    BY <1>5, <1>6 DEF IInv, Binding, Bound
  <2>2. \A u \in Tabs : FlowBound(tab[u])'
    BY <1>1, <1>2, <1>4 DEF IInv, Binding, FlowBound
  <2>3. QED
    BY <2>1, <2>2 DEF Binding
<1>10. ReportedIsCommitted' /\ HashOnce'
  BY <1>2, ReportsStay DEF IInv, HashOnce
<1>11. /\ \A h \in Held : h.salt # g.salt
       /\ \A u \in Tabs \ {t} : tab[u].phase \in Uploading => tab[u].salt # g.salt
  BY DEF IInv, SaltsApart
<1>12. SaltNamesHash'
  BY <1>4, <1>7, <1>11 DEF IInv, SaltNamesHash
<1>13. SaltsApart'
  BY <1>1, <1>2, <1>4, <1>7, <1>11 DEF IInv, SaltsApart
<1>14. SaltsSpent'
  BY <1>1, <1>2, <1>4, <1>7 DEF IInv, SaltsSpent
<1>15. QED
  BY <1>4, <1>7, <1>8, <1>9, <1>10, <1>12, <1>13, <1>14 DEF IInv

\* A transaction carries the hash of its flow.
LEMMA SendKeeps ==
  ASSUME IInv, NEW t \in Tabs, NEW g, Moves(t, g), Handed(tab[t], g), g.phase \in Committing,
         NEW tx, tx.hash = g.hash, tx.auditor = g.wallet, tx.project = g.project,
         tx.uri = g.uri, pending' = pending \cup {tx},
         UNCHANGED <<wallet, stored, commits, submits>>
  PROVE  IInv' /\ HeldFrom
<1>1. /\ tab' \in [Tabs -> Flow] /\ tab'[t] = g
      /\ \A u \in Tabs \ {t} : tab'[u] = tab[u]
  BY MovesOnly
<1>2. g.phase \notin Uploading /\ g.phase # "committed"
  BY PhaseSets
<1>3. Types' /\ submits <= submits'
  BY <1>1 DEF IInv, Types
<1>4. Stored' = Stored
  BY DEF Stored
<1>5. tab[t].phase \in Committing /\ tx.hash = tab[t].hash
  BY DEF Handed
<1>6. Held' \subseteq Held
  <2>1. \A u \in Tabs : tab'[u].phase \in Committing =>
          tab[u].phase \in Committing /\ tab'[u].hash = tab[u].hash
    BY <1>1 DEF Handed
  <2>2. tx.hash \in Held
    BY <1>5 DEF Held
  <2>3. \A x \in commits \cup pending \cup Stored : x.hash \in Held
    BY DEF Held
  <2>4. \A u \in Tabs : tab[u].phase \in Committing => tab[u].hash \in Held
    BY DEF Held
  <2>5. QED
    BY <1>4, <2>1, <2>2, <2>3, <2>4 DEF Held
<1>7. FlowBound(g)
  BY <1>2 DEF IInv, Binding, FlowBound, Handed
<1>8. Bound(tx)
  BY <1>7 DEF Bound, FlowBound
<1>9. Binding'
  BY <1>1, <1>4, <1>7, <1>8 DEF IInv, Binding, Bound, FlowBound
<1>10. ReportedIsCommitted' /\ HashOnce'
  BY <1>2, ReportsStay DEF IInv, HashOnce
<1>11. QED
  BY <1>1, <1>2, <1>3, <1>6, <1>9, <1>10, HeldShrinks

\* BountyHub takes a hash once.
LEMMA MineKeeps ==
  ASSUME IInv, NEW tx \in pending, MineCommit(tx)
  PROVE  IInv' /\ HeldFrom
<1> DEFINE new == [id |-> FirstId + Cardinality(commits), hash |-> tx.hash,
                   auditor |-> tx.auditor, project |-> tx.project, uri |-> tx.uri, from |-> tx.from]
<1>1. /\ pending' = pending \ {tx}
      /\ \/ commits' = commits
         \/ commits' = commits \cup {new} /\ \A c \in commits : c.hash # tx.hash
  BY DEF MineCommit, Used
<1>2. UNCHANGED <<wallet, stored, tab, submits>>
  BY DEF MineCommit
<1>3. /\ new.hash = tx.hash /\ new.auditor = tx.auditor /\ new.project = tx.project
      /\ new.uri = tx.uri /\ new.id \in Nat
  BY FS_CardinalityType, ClientAssumption DEF IInv, Types
<1> HIDE DEF new
<1>4. IsFiniteSet(commits')
  BY <1>1, FS_AddElement DEF IInv, Types
<1>5. Types' /\ submits <= submits'
  BY <1>1, <1>2, <1>3, <1>4 DEF IInv, Types
<1>6. Stored' = Stored
  BY <1>2 DEF Stored
<1>7. Held' \subseteq Held
  BY <1>1, <1>2, <1>3, <1>6 DEF Held
<1>8. Bound(tx)
  BY DEF IInv, Binding
<1>9. Bound(new)
  BY <1>3, <1>8 DEF Bound
<1>10. Binding'
  <2>1. \A x \in (commits \cup pending \cup Stored)' : Bound(x)
    BY <1>1, <1>6, <1>9 DEF IInv, Binding
  <2>2. QED
    BY <1>2, <2>1 DEF IInv, Binding, Bound, FlowBound
<1>11. HashOnce'
  BY <1>1, <1>3 DEF IInv, HashOnce
<1>12. ReportedIsCommitted'
  BY <1>1, <1>2 DEF IInv, ReportedIsCommitted
<1>13. QED
  BY <1>2, <1>5, <1>7, <1>10, <1>11, <1>12, HeldShrinks

-----------------------------------------------------------------------------
(* The actions *)

\* A flow goes to another phase of its half.
LEMMA GotoMoves ==
  ASSUME IInv, NEW t \in Tabs, NEW p, Goto(t, p),
         \/ tab[t].phase \in Uploading /\ p \in Uploading
         \/ tab[t].phase \in Committing /\ p \in Committing
  PROVE  \E g : Moves(t, g) /\ Handed(tab[t], g) /\ g = [tab[t] EXCEPT !.phase = p]
<1> DEFINE g == [tab[t] EXCEPT !.phase = p]
<1>1. tab[t] \in Flow /\ tab' = [tab EXCEPT ![t] = g]
  BY DEF IInv, Types, Goto
<1>2. p \in Phases
  BY DEF Phases
<1>3. /\ g \in Flow /\ g.phase = p /\ g.project = tab[t].project /\ g.poc = tab[t].poc
      /\ g.wallet = tab[t].wallet /\ g.salt = tab[t].salt /\ g.uri = tab[t].uri
      /\ g.hash = tab[t].hash
  BY <1>1, <1>2 DEF Flow
<1> HIDE DEF g
<1>4. Handed(tab[t], g)
  BY <1>3, PhaseSets DEF Handed
<1>5. Moves(t, g)
  BY <1>1, <1>3 DEF Moves
<1>6. QED
  BY <1>4, <1>5 DEF g

LEMMA UploadEndsMoves ==
  ASSUME IInv, NEW t \in Tabs, NEW result \in {"failed", "stored"}, UploadEnds(t, result),
         tab[t].phase \in Uploading
  PROVE  \E g : Moves(t, g) /\ Handed(tab[t], g)
<1> DEFINE g == [tab[t] EXCEPT !.phase = "restore", !.result = result]
<1>1. tab[t] \in Flow /\ tab' = [tab EXCEPT ![t] = g]
  BY DEF IInv, Types, UploadEnds
<1>2. /\ g \in Flow /\ g.phase = "restore" /\ g.project = tab[t].project
      /\ g.poc = tab[t].poc /\ g.wallet = tab[t].wallet /\ g.salt = tab[t].salt
  BY <1>1, PhaseSets DEF Flow
<1> HIDE DEF g
<1>3. Handed(tab[t], g)
  BY <1>2 DEF Handed, Committing
<1>4. QED
  BY <1>1, <1>2, <1>3 DEF Moves

LEMMA RestingFlow ==
  /\ Resting \in Flow /\ [Resting EXCEPT !.phase = "failed"] \in Flow
  /\ [Resting EXCEPT !.phase = "failed"].phase = "failed" /\ Resting.phase = "idle"
BY DEF Resting, Flow, Phases

LEMMA StartedFlow ==
  ASSUME NEW project \in Projects, NEW poc \in PoCs, NEW account \in Accounts
  PROVE  LET fresh == Started(project, poc, account)
         IN  /\ fresh \in Flow /\ fresh.project = project /\ fresh.poc = poc
             /\ fresh.wallet = account
BY RestingFlow DEF Started, Flow

\* A flow that is given up holds nothing.
LEMMA GivenUpMoves ==
  ASSUME IInv, NEW t \in Tabs, Failed(t) \/ tab' = [tab EXCEPT ![t] = Resting]
  PROVE  \E g : Moves(t, g) /\ Handed(tab[t], g)
<1> DEFINE failed == [Resting EXCEPT !.phase = "failed"]
<1>1. failed \in Flow /\ failed.phase = "failed"
  BY RestingFlow
<1>2. Failed(t) => tab' = [tab EXCEPT ![t] = failed]
  BY DEF Failed
<1> HIDE DEF failed
<1>3. Handed(tab[t], failed) /\ Handed(tab[t], Resting)
  BY <1>1, RestingFlow DEF Handed, Uploading, Committing
<1>4. QED
  BY <1>1, <1>2, <1>3, RestingFlow DEF Moves

LEMMA WalletSwitched ==
  ASSUME IInv, NEW chain \in Chains \cup {wallet.chain}, wallet' = [wallet EXCEPT !.chain = chain]
  PROVE  wallet' \in [chain : Chains, account : Accounts]
BY DEF IInv, Types

\* The steps of an upload, but the last
LEMMA UploadKeeps ==
  ASSUME IInv, NEW t \in Tabs,
         \/ JoinSapphire(t, "switch", "pointer") \/ JoinSapphire(t, "posted", "receipt")
         \/ JoinSapphire(t, "rejoin", "read")
         \/ \E s \in Slots : Post(t, s) \/ PickPointer(t, s)
         \/ SendWrite(t) \/ WriteNotAuthorized(t) \/ RetryWrite(t) \/ WriteReceipt(t)
         \/ Readback(t) \/ Prove(t) \/ UploadFails(t)
  PROVE  QuietStep
<1> DEFINE rest == UNCHANGED <<stored, commits, pending, submits>>
           walletOk == wallet' \in [chain : Chains, account : Accounts]
           moved == \E g : Moves(t, g) /\ Handed(tab[t], g)
<1>1. tab[t] \in Flow /\ wallet \in [chain : Chains, account : Accounts]
  BY DEF IInv, Types
<1>2. ASSUME NEW from \in Uploading, NEW to \in Uploading, JoinSapphire(t, from, to)
      PROVE  rest /\ walletOk /\ moved
  <2>1. moved
    BY <1>2, GotoMoves DEF JoinSapphire
  <2>2. walletOk
    BY <1>2, WalletSwitched DEF JoinSapphire, Chains
  <2>3. QED
    BY <1>2, <2>1, <2>2 DEF JoinSapphire, hubVars
<1>3. ASSUME NEW s \in Slots, Post(t, s)  PROVE rest /\ walletOk /\ moved
  <2>1. PICK named \in {s, None} :
          tab' = [tab EXCEPT ![t].phase = "posted", ![t].sentOn = "sapphire", ![t].slot = named]
    BY <1>3 DEF Post
  <2> DEFINE g == [tab[t] EXCEPT !.phase = "posted", !.sentOn = "sapphire", !.slot = named]
  <2>2. /\ g \in Flow /\ g.phase = "posted" /\ g.project = tab[t].project
        /\ g.poc = tab[t].poc /\ g.wallet = tab[t].wallet /\ g.salt = tab[t].salt
    <3>1. "sapphire" \in Chains /\ named \in Slots \cup {None}
      BY DEF Chains
    <3>2. QED
      BY <1>1, <3>1, PhaseSets DEF Flow
  <2>3. tab' = [tab EXCEPT ![t] = g]
    BY <2>1
  <2> HIDE DEF g
  <2>4. Handed(tab[t], g) /\ Moves(t, g)
    BY <1>3, <2>2, <2>3 DEF Handed, Moves, Post, Uploading, Committing
  <2>5. QED
    BY <1>1, <1>3, <2>4 DEF Post, hubVars
<1>4. ASSUME NEW s \in Slots, PickPointer(t, s)  PROVE rest /\ walletOk /\ moved
  <2>1. PICK from \in IF tab[t].retried THEN {tab[t].from} ELSE ProviderAddress(t) :
          tab' = [tab EXCEPT ![t].phase = "write", ![t].from = from, ![t].slot = s]
    BY <1>4 DEF PickPointer
  <2> DEFINE g == [tab[t] EXCEPT !.phase = "write", !.from = from, !.slot = s]
  <2>2. from \in Accounts \cup {None}
    BY <1>1, <2>1 DEF ProviderAddress, Flow
  <2>3. /\ g \in Flow /\ g.phase = "write" /\ g.project = tab[t].project
        /\ g.poc = tab[t].poc /\ g.wallet = tab[t].wallet /\ g.salt = tab[t].salt
    BY <1>1, <2>2, PhaseSets DEF Flow
  <2>4. tab' = [tab EXCEPT ![t] = g]
    BY <2>1
  <2> HIDE DEF g
  <2>5. Handed(tab[t], g) /\ Moves(t, g)
    BY <1>4, <2>3, <2>4 DEF Handed, Moves, PickPointer, Uploading, Committing
  <2>6. QED
    BY <1>1, <1>4, <2>5 DEF PickPointer, hubVars
<1>5. CASE SendWrite(t)
  <2> DEFINE g == [tab[t] EXCEPT !.phase = "receipt", !.sentOn = wallet.chain]
  <2>1. /\ g \in Flow /\ g.phase = "receipt" /\ g.project = tab[t].project
        /\ g.poc = tab[t].poc /\ g.wallet = tab[t].wallet /\ g.salt = tab[t].salt
    BY <1>1, PhaseSets DEF Flow
  <2>2. tab' = [tab EXCEPT ![t] = g]
    BY <1>5 DEF SendWrite
  <2> HIDE DEF g
  <2>3. Handed(tab[t], g) /\ Moves(t, g)
    BY <1>5, <2>1, <2>2 DEF Handed, Moves, SendWrite, Uploading, Committing
  <2>4. rest /\ walletOk /\ moved
    BY <1>1, <1>5, <2>3 DEF SendWrite, hubVars
  <2>5. QED
    BY <2>4, MovesQuiet
<1>6. CASE RetryWrite(t)
  <2> DEFINE g == [tab[t] EXCEPT !.phase = "pointer", !.retried = TRUE]
  <2>1. /\ g \in Flow /\ g.phase = "pointer" /\ g.project = tab[t].project
        /\ g.poc = tab[t].poc /\ g.wallet = tab[t].wallet /\ g.salt = tab[t].salt
    BY <1>1, PhaseSets DEF Flow
  <2>2. tab[t].phase \in Uploading
    BY <1>6 DEF RetryWrite, Uploading
  <2>3. tab' = [tab EXCEPT ![t] = g] \/ UploadEnds(t, "failed")
    BY <1>6 DEF RetryWrite
  <2> HIDE DEF g
  <2>4. Handed(tab[t], g)
    BY <2>1, <2>2 DEF Handed, Uploading, Committing
  <2>5. moved
    BY <2>1, <2>2, <2>3, <2>4, UploadEndsMoves DEF Moves
  <2>6. rest /\ walletOk
    BY <1>1, <1>6 DEF RetryWrite, hubVars
  <2>7. QED
    BY <2>5, <2>6, MovesQuiet
<1>7. CASE WriteNotAuthorized(t) \/ WriteReceipt(t) \/ Readback(t) \/ Prove(t) \/ UploadFails(t)
  <2>1. tab[t].phase \in Uploading
    BY <1>7 DEF WriteNotAuthorized, WriteReceipt, Readback, Prove, UploadFails, Uploading
  <2>2. \/ Goto(t, "refused") \/ Goto(t, "rejoin") \/ Goto(t, "proof")
        \/ UploadEnds(t, "failed") \/ UploadEnds(t, "stored")
    BY <1>7 DEF WriteNotAuthorized, WriteReceipt, Readback, Prove, UploadFails
  <2>3. {"refused", "rejoin", "proof"} \subseteq Uploading
    BY DEF Uploading
  <2>4. moved
    BY <2>1, <2>2, <2>3, GotoMoves, UploadEndsMoves
  <2>5. rest /\ walletOk
    BY <1>1, <1>7 DEF WriteNotAuthorized, WriteReceipt, Readback, Prove, UploadFails, hubVars
  <2>6. QED
    BY <2>4, <2>5, MovesQuiet
<1>8. {"switch", "pointer", "posted", "receipt", "rejoin", "read"} \subseteq Uploading
  BY DEF Uploading
<1>9. QED
  BY <1>2, <1>3, <1>4, <1>5, <1>6, <1>7, <1>8, MovesQuiet

\* What an upload has prepared
LEMMA PreparedFlow ==
  ASSUME IInv, NEW t \in Tabs, tab[t].phase \in Uploading
  PROVE  LET g == Prepared(t)
         IN  /\ g \in Flow /\ g.phase = "simulate" /\ g.project = tab[t].project
             /\ g.wallet = tab[t].wallet /\ g.salt = tab[t].salt
             /\ g.uri = Uri(tab[t].slot, Payload(tab[t].poc, tab[t].project)) /\ g.uri \in Uris
             /\ g.uri.payload.project = g.project /\ g.hash = Hash(g.uri, g.wallet, g.salt)
<1> DEFINE uri  == Uri(tab[t].slot, Payload(tab[t].poc, tab[t].project))
           hash == Hash(uri, tab[t].wallet, tab[t].salt)
           first == Started(tab[t].project, tab[t].poc, tab[t].wallet)
<1>1. tab[t] \in Flow /\ tab[t].project \in Projects /\ tab[t].poc \in PoCs /\ tab[t].wallet \in Accounts
  BY DEF IInv, Types, Binding, FlowBound
<1>2. tab[t].slot \in Slots \cup {None} /\ tab[t].salt \in Nat
  BY <1>1 DEF Flow
<1>3. uri \in Uris /\ uri.payload.project = tab[t].project
  BY <1>1, <1>2 DEF Uri, Uris, Payload, Payloads
<1>4. hash \in Hashes
  BY <1>1, <1>2, <1>3 DEF Hash, Hashes
<1>5. /\ first \in Flow /\ first.project = tab[t].project /\ first.wallet = tab[t].wallet
  BY <1>1, StartedFlow
<1>6. Prepared(t) = [first EXCEPT !.phase = "simulate", !.salt = tab[t].salt, !.uri = uri, !.hash = hash]
  BY DEF Prepared, UploadUri
<1> HIDE DEF first, uri, hash
<1>7. /\ Prepared(t) \in Flow /\ Prepared(t).phase = "simulate"
      /\ Prepared(t).project = tab[t].project /\ Prepared(t).wallet = tab[t].wallet
      /\ Prepared(t).salt = tab[t].salt /\ Prepared(t).uri = uri /\ Prepared(t).hash = hash
  <2>1. Prepared(t) \in Flow /\ Prepared(t).salt = tab[t].salt
    <3>1. "simulate" \in Phases
      BY PhaseSets
    <3>2. QED
      BY ONLY <1>2, <1>3, <1>4, <1>5, <1>6, <3>1 DEF Flow
  <2>2. /\ Prepared(t).phase = "simulate" /\ Prepared(t).project = first.project
        /\ Prepared(t).wallet = first.wallet /\ Prepared(t).uri = uri /\ Prepared(t).hash = hash
    BY ONLY <1>5, <1>6 DEF Flow
  <2>3. QED
    BY ONLY <1>5, <2>1, <2>2
<1>8. QED
  BY <1>3, <1>7 DEF uri, hash

LEMMA RestoreChainKeeps ==
  ASSUME IInv, NEW t \in Tabs, RestoreChain(t)
  PROVE  IInv' /\ HeldFrom
<1>1. tab[t].phase \in Uploading /\ UNCHANGED <<commits, pending, submits>>
  BY DEF RestoreChain, Uploading, hubVars
<1>2. wallet' \in [chain : Chains, account : Accounts]
  BY WalletSwitched DEF RestoreChain, Chains
<1>3. CASE tab[t].result = "stored"
  <2> DEFINE g == Prepared(t)
  <2>1. tab' = [tab EXCEPT ![t] = g] /\ stored' = Context(g)
    BY <1>3 DEF RestoreChain, Persist
  <2>2. /\ g \in Flow /\ g.phase = "simulate" /\ g.project = tab[t].project
        /\ g.wallet = tab[t].wallet /\ g.salt = tab[t].salt
        /\ g.uri = Uri(tab[t].slot, Payload(tab[t].poc, tab[t].project)) /\ g.uri \in Uris
        /\ g.uri.payload.project = g.project /\ g.hash = Hash(g.uri, g.wallet, g.salt)
    BY <1>1, PreparedFlow
  <2> HIDE DEF g
  <2>3. Moves(t, g) /\ g.phase \in Committing
    BY <2>1, <2>2 DEF Moves, Committing
  <2>4. IInv' /\ Held' \subseteq Held \cup {g.hash}
    BY <1>1, <1>2, <2>1, <2>2, <2>3, PrepareKeeps
  <2>5. g.hash.uri = Uri(tab[t].slot, Own(tab[t])) /\ tab[t].phase = "restore"
    BY <2>2 DEF Hash, Own, RestoreChain
  <2>6. QED
    BY <1>3, <2>4, <2>5 DEF HeldFrom
<1>4. CASE tab[t].result # "stored"
  <2>1. Failed(t) /\ stored' = stored
    BY <1>4 DEF RestoreChain
  <2>2. QED
    BY <1>1, <1>2, <2>1, GivenUpMoves, MovesQuiet, QuietKeeps
<1>5. QED
  BY <1>3, <1>4

\* A commit the flow has found on chain is its own.
LEMMA CommittedMoves ==
  ASSUME IInv, NEW t \in Tabs, NEW c \in commits, Committed(t, c), c.hash = tab[t].hash,
         tab[t].phase \in Committing
  PROVE  \E g : Moves(t, g) /\ Handed(tab[t], g)
<1> DEFINE g == [tab[t] EXCEPT !.phase = "committed", !.id = c.id]
<1>1. tab[t] \in Flow /\ c.id \in Nat
  BY DEF IInv, Types
<1>2. /\ g \in Flow /\ g.phase = "committed" /\ g.project = tab[t].project
      /\ g.wallet = tab[t].wallet /\ g.hash = tab[t].hash /\ g.id = c.id
  BY <1>1, PhaseSets DEF Flow
<1>3. tab' = [tab EXCEPT ![t] = g]
  BY DEF Committed
<1> HIDE DEF g
<1>4. Handed(tab[t], g)
  BY <1>2, PhaseSets DEF Handed
<1>5. QED
  BY <1>2, <1>3, <1>4 DEF Moves

LEMMA CommitKeeps ==
  ASSUME IInv, NEW t \in Tabs, Commit(t)
  PROVE  IInv' /\ HeldFrom
<1> DEFINE quiet == UNCHANGED <<wallet, commits, pending, submits>> /\ stored' \in {stored, None}
           moved == \E g : Moves(t, g) /\ Handed(tab[t], g)
<1>1. tab[t].phase \in Committing /\ {"send", "catch", "wait"} \subseteq Committing
  BY DEF Commit, Simulate, SendCommit, CommitReceipt, CommitTimesOut, Catch, Committing
<1>2. wallet \in [chain : Chains, account : Accounts]
  BY DEF IInv, Types
<1>3. CASE Simulate(t) \/ CommitTimesOut(t)
  <2>1. quiet
    BY <1>3 DEF Simulate, CommitTimesOut, hubVars
  <2>2. moved
    BY <1>1, <1>3, GotoMoves DEF Simulate, CommitTimesOut
  <2>3. QED
    BY <1>2, <2>1, <2>2, MovesQuiet, QuietKeeps
<1>4. CASE SendCommit(t)
  <2>1. CASE Goto(t, "catch") /\ UNCHANGED pending
    <3>1. quiet
      BY <1>4, <2>1 DEF SendCommit
    <3>2. moved
      BY <1>1, <2>1, GotoMoves
    <3>3. QED
      BY <1>2, <3>1, <3>2, MovesQuiet, QuietKeeps
  <2>2. CASE ~(Goto(t, "catch") /\ UNCHANGED pending)
    <3> DEFINE tx == [hash |-> tab[t].hash, auditor |-> tab[t].wallet,
                      project |-> tab[t].project, uri |-> tab[t].uri, from |-> t]
    <3>1. /\ pending' = pending \cup {tx} /\ Goto(t, "wait")
          /\ UNCHANGED <<wallet, stored, commits, submits>>
      BY <1>4, <2>2 DEF SendCommit
    <3>2. PICK g : Moves(t, g) /\ Handed(tab[t], g) /\ g = [tab[t] EXCEPT !.phase = "wait"]
      BY <1>1, <3>1, GotoMoves
    <3>3. g.phase = "wait" /\ g.phase \in Committing
      BY <1>1, <3>2 DEF IInv, Types, Flow
    <3>4. g.hash = tab[t].hash /\ g.wallet = tab[t].wallet /\ g.project = tab[t].project /\ g.uri = tab[t].uri
      BY <3>2, <3>3 DEF Handed
    <3>5. tx.hash = g.hash /\ tx.auditor = g.wallet /\ tx.project = g.project /\ tx.uri = g.uri
      BY <3>4
    <3> HIDE DEF tx
    <3>6. QED
      BY <3>1, <3>2, <3>3, <3>5, SendKeeps
  <2>3. QED
    BY <2>1, <2>2
<1>5. CASE CommitReceipt(t) \/ Catch(t)
  <2>1. quiet
    BY <1>5 DEF CommitReceipt, Catch, hubVars, Committed
  <2>2. \/ \E c \in commits : Committed(t, c) /\ c.hash = tab[t].hash
        \/ Failed(t)
    BY <1>5 DEF CommitReceipt, Catch, Recovered
  <2>3. moved
    BY <1>1, <2>2, CommittedMoves, GivenUpMoves
  <2>4. QED
    BY <1>2, <2>1, <2>3, MovesQuiet, QuietKeeps
<1>6. QED
  BY <1>3, <1>4, <1>5 DEF Commit

LEMMA SubmitKeeps ==
  ASSUME IInv, NEW t \in Tabs, NEW project \in Projects, NEW poc \in PoCs, Submit(t, project, poc)
  PROVE  IInv' /\ HeldFrom
<1> DEFINE fresh == Started(project, poc, wallet.account)
<1>1. wallet.account \in Accounts /\ submits \in Nat /\ stored \in Contexts \cup {None, Unreadable}
  BY DEF IInv, Types
<1>2. /\ fresh \in Flow /\ fresh.project = project /\ fresh.poc = poc
      /\ fresh.wallet = wallet.account
  BY <1>1, StartedFlow
<1>3. UNCHANGED <<wallet, commits, pending>> /\ submits' = submits + 1
  BY DEF Submit
<1>4. CASE Usable(project, wallet.account)
  <2> DEFINE g == [fresh EXCEPT !.phase = "simulate", !.salt = stored.salt,
                                !.uri = stored.uri, !.hash = stored.hash]
  <2>1. tab' = [tab EXCEPT ![t] = g] /\ stored' = stored
    BY <1>4 DEF Submit
  <2>2. stored \in Stored /\ stored.project = project /\ stored.auditor = wallet.account
    BY <1>4 DEF Usable, Parsed, Stored
  <2>3. stored \in Contexts
    BY <1>1, <2>2 DEF Stored
  <2>4. stored.salt \in Nat /\ stored.uri \in Uris /\ stored.hash \in Hashes
    BY <2>3 DEF Contexts
  <2> HIDE DEF fresh
  <2>5. /\ g \in Flow /\ g.phase = "simulate" /\ g.project = project /\ g.wallet = wallet.account
        /\ g.uri = stored.uri /\ g.hash = stored.hash
    BY <1>2, <2>4, PhaseSets DEF Flow
  <2> HIDE DEF g
  <2>6. Moves(t, g) /\ g.phase \in Committing
    BY <2>1, <2>5 DEF Moves, Committing
  <2>7. QED
    BY <1>3, <2>1, <2>2, <2>5, <2>6, ResumeKeeps
<1>5. CASE ~Usable(project, wallet.account)
  <2>1. PICK phase \in FirstPhases :
          /\ tab' = [tab EXCEPT ![t] = [fresh EXCEPT !.phase = phase, !.salt = submits + 1]]
          /\ stored' = None
    BY <1>5 DEF Submit
  <2> DEFINE next == submits + 1
             g == [fresh EXCEPT !.phase = phase, !.salt = next]
  <2>2. phase \in Uploading
    BY DEF FirstPhases, Uploading
  <2>3. phase \in Phases /\ next \in Nat
    BY <1>1, <2>2 DEF Phases
  <2> HIDE DEF fresh, next
  <2>4. /\ g \in Flow /\ g.phase = phase /\ g.project = project /\ g.poc = poc
        /\ g.wallet = wallet.account /\ g.salt = next
    BY <1>2, <2>3 DEF Flow
  <2>5. tab' = [tab EXCEPT ![t] = g]
    BY <2>1 DEF next
  <2> HIDE DEF g
  <2>6. Moves(t, g)
    BY <2>4, <2>5 DEF Moves
  <2>7. g.salt = submits + 1
    BY <2>4 DEF next
  <2>8. QED
    BY <1>1, <1>3, <2>1, <2>2, <2>4, <2>6, <2>7, StartKeeps
<1>6. QED
  BY <1>4, <1>5

\* Nothing happens to flows, transactions and commits.
LEMMA AsideKeeps ==
  ASSUME IInv, UNCHANGED <<tab, commits, pending, submits>>, stored' \in {stored, None},
         wallet' \in [chain : Chains, account : Accounts]
  PROVE  IInv' /\ HeldFrom
<1>1. Types' /\ submits <= submits'
  BY DEF IInv, Types
<1>2. QED
  BY <1>1, HandedSame, QuietKeeps DEF QuietStep

LEMMA InitHolds == Init => IInv
<1> SUFFICES ASSUME Init  PROVE IInv
  OBVIOUS
<1>1. Types
  BY FS_EmptySet, RestingFlow DEF Init, Types, Chains
<1>2. \A t \in Tabs : tab[t].phase = "idle"
  BY RestingFlow DEF Init
<1>3. Held = {} /\ Stored = {}
  BY <1>2, PhaseSets DEF Init, Held, Stored
<1>4. QED
  BY <1>1, <1>2, <1>3, PhaseSets DEF IInv, Binding, FlowBound, SaltsSpent, SaltNamesHash,
     SaltsApart, HashOnce, ReportedIsCommitted, Init

LEMMA NextKeeps == IInv /\ [Next]_vars => IInv' /\ HeldFrom
<1> SUFFICES ASSUME IInv, [Next]_vars  PROVE IInv' /\ HeldFrom
  OBVIOUS
<1>1. wallet \in [chain : Chains, account : Accounts]
  BY DEF IInv, Types
<1>2. ASSUME NEW t \in Tabs, Upload(t)  PROVE IInv' /\ HeldFrom
  BY <1>2, UploadKeeps, QuietKeeps, RestoreChainKeeps DEF Upload
<1>3. ASSUME NEW t \in Tabs, Reset(t) \/ Reload(t)  PROVE IInv' /\ HeldFrom
  <2>1. stored' \in {stored, None} /\ UNCHANGED <<wallet, commits, pending, submits>>
    BY <1>3 DEF Reset, Reload, hubVars
  <2>2. tab' = [tab EXCEPT ![t] = Resting]
    BY <1>3 DEF Reset, Reload
  <2>3. QED
    BY <1>1, <2>1, <2>2, GivenUpMoves, MovesQuiet, QuietKeeps
<1>4. CASE \/ Expire
           \/ \E chain \in Chains, a \in Accounts : SwitchWallet(chain, a)
           \/ \E s \in Slots, poc \in OtherPoCs : WriteElsewhere(Stranger, s, Payload(poc, None))
           \/ \E s \in Slots, p \in Accounts : GrantReadAccess(Stranger, s, p)
           \/ UNCHANGED vars
  <2>1. UNCHANGED <<tab, commits, pending, submits>> /\ stored' \in {stored, None}
    BY <1>4 DEF Expire, SwitchWallet, WriteElsewhere, GrantReadAccess, vars, hubVars
  <2>2. wallet' = wallet \/ \E chain \in Chains, a \in Accounts : wallet' = [chain |-> chain, account |-> a]
    BY <1>4 DEF Expire, SwitchWallet, WriteElsewhere, GrantReadAccess, vars
  <2>3. QED
    BY <1>1, <2>1, <2>2, AsideKeeps
<1>5. QED
  BY <1>2, <1>3, <1>4, CommitKeeps, SubmitKeeps, MineKeeps DEF Next

\* The invariant of the flow: whoever holds a hash, the salt names it, it names its sender
\* and project, and a report of success names a commit.
THEOREM Invariance == Spec => []IInv
<1>1. QED
  BY InitHolds, NextKeeps, PTL DEF Spec

\* Whatever contexts, tabs and accounts were mixed up: a commit binds its sender and project.
THEOREM CommitBindsSenderAlways == Spec => []CommitBindsSender
<1>1. IInv => CommitBindsSender
  BY DEF IInv, Binding, Bound, CommitBindsSender
<1>2. QED
  BY <1>1, Invariance, PTL

\* However often a context is retried, and wherever: it is committed once.
THEOREM ContextCommittedOnceAlways == Spec => []ContextCommittedOnce
<1>1. IInv => ContextCommittedOnce
  <2> SUFFICES ASSUME IInv, NEW c \in commits, NEW d \in commits, c.hash.salt = d.hash.salt
               PROVE  c = d
    BY DEF ContextCommittedOnce
  <2>1. c.hash \in Held /\ d.hash \in Held
    BY DEF Held
  <2>2. c.hash = d.hash
    BY <2>1 DEF IInv, SaltNamesHash
  <2>3. QED
    BY <2>2 DEF IInv, HashOnce
<1>2. QED
  BY <1>1, Invariance, PTL

\* A flow that reports success has a commit of its own on chain.
THEOREM ReportedIsCommittedAlways == Spec => []ReportedIsCommitted
<1>1. IInv => ReportedIsCommitted
  BY DEF IInv
<1>2. QED
  BY <1>1, Invariance, PTL

-----------------------------------------------------------------------------
(***************************************************************************)
(* What is in the slots of OasisPoCStore: that what is committed to is     *)
(* stored, and who may read it.                                            *)
(*                                                                         *)
(* A slot an account or the service has written is not written again: a    *)
(* flow writes a slot its author had not, the store refuses any other but  *)
(* a free one, and no two flows are about to write the same.  So what an   *)
(* upload has seen written is there when its hash is made, and stays.      *)
(***************************************************************************)

Records == [writer : Writers \cup {None}, payload : Payloads \cup {None}, version : Nat]

StoreSound ==
  /\ slot \in [Slots -> Records]
  /\ \A s \in Slots : slot[s].writer = Stranger => slot[s].payload.poc \in OtherPoCs

\* Written by an account or the service, and what; or else taken on trust
Kept(store, trust, s, payload) ==
  \/ s \in Slots /\ store[s].writer \in Accounts \cup {Service} /\ store[s].payload = payload
  \/ Uri(s, payload) \in trust

\* The upload has written, as far as it can tell.
Written(f) ==
  \/ /\ f.phase \in {"posted", "receipt", "rejoin", "read", "proof"}
     /\ f.sentOn = "sapphire" /\ f.slot # None
  \/ f.phase = "restore" /\ f.result = "stored"

FlowSlots(store, trust, f) ==
  /\ Written(f) => Kept(store, trust, f.slot, Own(f))
  /\ f.phase = "proof" => f.slot # None
  /\ f.phase \in {"write", "refused"} \/ (f.phase \in Uploading /\ f.retried) => f.from \in Accounts
  /\ f.phase = "write" => f.slot \in Slots /\ store[f.slot].writer # f.from

\* No two flows are about to write the same slot.
WritesApart ==
  \A t, u \in Tabs : tab[t].phase = "write" /\ tab[u].phase = "write" /\ t # u
                       => tab[t].slot # tab[u].slot

HashesKept == \A h \in Held : Kept(slot, onTrust, h.uri.slot, h.uri.payload)

SlotsSound ==
  /\ StoreSound /\ HashesKept /\ WritesApart
  /\ \A t \in Tabs : FlowSlots(slot, onTrust, tab[t])

-----------------------------------------------------------------------------
(* What a step may do to the slots *)

\* Everything kept stays; an account writes only the slots in s.
SlotsStay(s) ==
  /\ StoreSound' /\ onTrust \subseteq onTrust'
  /\ \A r, payload : Kept(slot, onTrust, r, payload) => Kept(slot', onTrust', r, payload)
  /\ \A r \in Slots : slot'[r] = slot[r] \/ slot'[r].writer \notin Accounts \/ r \in s

LEMMA SameSlots ==
  ASSUME StoreSound, UNCHANGED slot, onTrust \subseteq onTrust'
  PROVE  SlotsStay({})
BY DEF StoreSound, SlotsStay, Kept

\* A write by the author of the slot, or to a free one
LEMMA WriteStays ==
  ASSUME StoreSound, NEW w \in Writers, NEW s \in Slots, NEW payload \in Payloads,
         Write(w, s, payload), slot[s].writer = None \/ (slot[s].writer = w /\ w = Stranger),
         w = Stranger => payload.poc \in OtherPoCs, UNCHANGED onTrust
  PROVE  /\ SlotsStay(IF w \in Accounts THEN {s} ELSE {})
         /\ slot'[s].writer = w /\ slot'[s].payload = payload
<1> DEFINE new == [writer |-> w, payload |-> payload, version |-> slot[s].version + 1]
<1>1. slot \in [Slots -> Records] /\ slot[s].version \in Nat
  BY DEF StoreSound, Records
<1>2. slot' = [slot EXCEPT ![s] = new]
  BY DEF Write, NextVersion
<1>3. new \in Records /\ new.writer = w /\ new.payload = payload
  BY <1>1 DEF Records
<1> HIDE DEF new
<1>4. /\ slot' \in [Slots -> Records] /\ slot'[s] = new
      /\ \A r \in Slots \ {s} : slot'[r] = slot[r]
  BY <1>1, <1>2, <1>3
<1>5. StoreSound'
  BY <1>3, <1>4 DEF StoreSound
<1>6. slot[s].writer \notin Accounts \cup {Service}
  BY ClientAssumption
<1>7. \A r, p : Kept(slot, onTrust, r, p) => Kept(slot', onTrust', r, p)
  BY <1>4, <1>6 DEF Kept
<1>8. \A r \in Slots : slot'[r] = slot[r] \/ slot'[r].writer \notin Accounts
                         \/ r \in (IF w \in Accounts THEN {s} ELSE {})
  BY <1>3, <1>4
<1>9. QED
  BY <1>3, <1>4, <1>5, <1>7, <1>8 DEF SlotsStay

\* A hash held after a step was held before, or is that of an upload that was stored.
LEMMA HashesStay ==
  ASSUME SlotsSound, HeldFrom, NEW s, SlotsStay(s)
  PROVE  HashesKept'
<1> SUFFICES ASSUME NEW h \in Held'  PROVE Kept(slot', onTrust', h.uri.slot, h.uri.payload)
  BY DEF HashesKept
<1>1. CASE h \in Held
  <2>1. Kept(slot, onTrust, h.uri.slot, h.uri.payload)
    BY <1>1 DEF SlotsSound, HashesKept
  <2>2. QED
    BY <2>1 DEF SlotsStay
<1>2. CASE h \notin Held
  <2>1. PICK t \in Tabs : /\ tab[t].phase = "restore" /\ tab[t].result = "stored"
                          /\ h.uri = Uri(tab[t].slot, Own(tab[t]))
    BY <1>2 DEF HeldFrom
  <2>2. Kept(slot, onTrust, tab[t].slot, Own(tab[t]))
    BY <2>1 DEF SlotsSound, FlowSlots, Written
  <2>3. Kept(slot, onTrust, h.uri.slot, h.uri.payload)
    BY <2>1, <2>2 DEF Uri
  <2>4. QED
    BY <2>3 DEF SlotsStay
<1>3. QED
  BY <1>1, <1>2

\* A flow that stays as it is, while the slot it is about to write is left to it
LEMMA FlowStays ==
  ASSUME NEW f, FlowSlots(slot, onTrust, f), NEW s, SlotsStay(s), f.phase = "write" => f.slot \notin s
  PROVE  FlowSlots(slot', onTrust', f)
<1>1. Written(f) => Kept(slot', onTrust', f.slot, Own(f))
  BY DEF FlowSlots, SlotsStay
<1>2. f.phase = "write" => slot'[f.slot].writer # f.from
  BY DEF FlowSlots, SlotsStay
<1>3. QED
  BY <1>1, <1>2 DEF FlowSlots, Written

\* One flow goes on.
LEMMA FlowStep ==
  ASSUME IInv, SlotsSound, HeldFrom, NEW t \in Tabs, NEW g, tab' = [tab EXCEPT ![t] = g],
         NEW s, SlotsStay(s), s = {} \/ (tab[t].phase = "write" /\ s = {tab[t].slot}),
         FlowSlots(slot', onTrust', g), g.phase = "write" => \A u \in Tabs \ {t} : tab[u].slot # g.slot
  PROVE  SlotsSound'
<1>1. tab'[t] = g /\ \A u \in Tabs \ {t} : tab'[u] = tab[u]
  BY DEF IInv, Types
<1>2. \A u \in Tabs \ {t} : tab[u].phase = "write" => tab[u].slot \notin s
  BY DEF SlotsSound, WritesApart
<1>3. \A u \in Tabs : FlowSlots(slot, onTrust, tab[u])
  BY DEF SlotsSound
<1>4. \A u \in Tabs \ {t} : FlowSlots(slot', onTrust', tab[u])
  BY <1>2, <1>3, FlowStays
<1>5. \A u \in Tabs : FlowSlots(slot', onTrust', tab'[u])
  BY <1>1, <1>4 DEF FlowSlots, Written, Kept
<1>6. WritesApart'
  BY <1>1 DEF SlotsSound, WritesApart
<1>7. QED
  BY <1>5, <1>6, HashesStay DEF SlotsSound, SlotsStay

\* No flow goes on.
LEMMA AsideStep ==
  ASSUME SlotsSound, HeldFrom, UNCHANGED tab, SlotsStay({})
  PROVE  SlotsSound'
<1>1. \A u \in Tabs : FlowSlots(slot', onTrust', tab[u])
  BY FlowStays DEF SlotsSound
<1>2. \A u \in Tabs : FlowSlots(slot', onTrust', tab'[u])
  BY <1>1 DEF FlowSlots, Written, Kept
<1>3. QED
  BY <1>2, HashesStay DEF SlotsSound, SlotsStay, WritesApart

\* One flow goes on without a write.
LEMMA FlowMoves ==
  ASSUME IInv, SlotsSound, HeldFrom, UNCHANGED slot, onTrust \subseteq onTrust', NEW t \in Tabs,
         NEW g, tab' = [tab EXCEPT ![t] = g], FlowSlots(slot, onTrust', g), g.phase # "write"
  PROVE  SlotsSound'
<1>1. SlotsStay({})
  BY SameSlots DEF SlotsSound
<1>2. FlowSlots(slot', onTrust', g)
  BY <1>1, FlowStays
<1>3. QED
  BY <1>1, <1>2, FlowStep

-----------------------------------------------------------------------------
(* The steps of an upload *)

\* A step within an upload that changes the phase only
LEMMA GotoSlots ==
  ASSUME IInv, SlotsSound, HeldFrom, UNCHANGED <<slot, onTrust>>, NEW t \in Tabs, NEW phase,
         Goto(t, phase), tab[t].phase \in Uploading,
         \/ phase \in {"pointer", "refused"} \cup Committing
         \/ /\ phase \in {"receipt", "rejoin", "read", "proof"}
            /\ tab[t].phase \in {"posted", "receipt", "rejoin", "read"},
         phase = "proof" => tab[t].slot # None,
         phase = "refused" => tab[t].phase = "write"
  PROVE  SlotsSound'
<1> DEFINE g == [tab[t] EXCEPT !.phase = phase]
<1>1. tab[t] \in Flow /\ FlowSlots(slot, onTrust, tab[t])
  BY DEF IInv, Types, SlotsSound
<1>2. /\ g.phase = phase /\ g.from = tab[t].from /\ g.slot = tab[t].slot /\ g.sentOn = tab[t].sentOn
      /\ g.retried = tab[t].retried /\ g.poc = tab[t].poc /\ g.project = tab[t].project
  BY <1>1 DEF Flow
<1>3. tab' = [tab EXCEPT ![t] = g]
  BY DEF Goto
<1> HIDE DEF g
<1>4. phase # "write" /\ phase # "restore"
  BY DEF Committing
<1>5. Own(g) = Own(tab[t]) /\ (Written(g) => Written(tab[t]))
  BY <1>2, <1>4 DEF Own, Written, Committing
<1>6. phase = "refused" \/ (phase \in Uploading /\ g.retried) => tab[t].from \in Accounts
  BY <1>1, <1>2 DEF FlowSlots
<1>7. FlowSlots(slot, onTrust, g)
  BY <1>1, <1>2, <1>4, <1>5, <1>6 DEF FlowSlots
<1>8. QED
  BY <1>2, <1>3, <1>4, <1>7, FlowMoves

\* An upload ends: stored only if the envelope is in the slot.
LEMMA EndsSlots ==
  ASSUME IInv, SlotsSound, HeldFrom, UNCHANGED slot, onTrust \subseteq onTrust', NEW t \in Tabs,
         NEW result,
         UploadEnds(t, result), tab[t].phase \in Uploading, tab[t].phase # "write" \/ result # "stored",
         result = "stored" => Kept(slot, onTrust', tab[t].slot, Own(tab[t]))
  PROVE  SlotsSound'
<1> DEFINE g == [[tab[t] EXCEPT !.phase = "restore"] EXCEPT !.result = result]
<1>1. tab[t] \in Flow /\ FlowSlots(slot, onTrust, tab[t])
  BY DEF IInv, Types, SlotsSound
<1>2. /\ g.phase = "restore" /\ g.from = tab[t].from /\ g.slot = tab[t].slot /\ g.result = result
      /\ g.retried = tab[t].retried /\ g.poc = tab[t].poc /\ g.project = tab[t].project
  BY <1>1 DEF Flow
<1>3. tab' = [tab EXCEPT ![t] = g]
  BY DEF UploadEnds, IInv, Types
<1> HIDE DEF g
<1>4. Own(g) = Own(tab[t]) /\ (Written(g) => result = "stored")
  BY <1>2 DEF Own, Written
<1>5. FlowSlots(slot, onTrust', g)
  BY <1>1, <1>2, <1>4 DEF FlowSlots
<1>6. QED
  BY <1>2, <1>3, <1>5, FlowMoves

\* A flow that is not uploading writes nothing.
LEMMA OtherSlots ==
  ASSUME IInv, SlotsSound, HeldFrom, UNCHANGED <<slot, onTrust>>, NEW t \in Tabs, NEW g,
         tab' = [tab EXCEPT ![t] = g], g.phase \notin Uploading
  PROVE  SlotsSound'
<1>1. FlowSlots(slot, onTrust, g)
  BY DEF FlowSlots, Written, Uploading
<1>2. QED
  BY <1>1, FlowMoves DEF Uploading

LEMMA JoinSlots ==
  ASSUME IInv, SlotsSound, HeldFrom, NEW t \in Tabs,
         \/ JoinSapphire(t, "switch", "pointer") \/ JoinSapphire(t, "posted", "receipt")
         \/ JoinSapphire(t, "rejoin", "read")
  PROVE  SlotsSound'
<1>1. slot' = slot /\ onTrust' = onTrust
  BY DEF JoinSapphire, storeVars
<1>2. tab[t].phase \in {"switch", "posted", "rejoin"} /\ tab[t].phase \in Uploading
  BY DEF JoinSapphire, Uploading
<1>3. \/ Goto(t, "pointer")
      \/ Goto(t, "receipt") /\ tab[t].phase = "posted"
      \/ Goto(t, "read") /\ tab[t].phase = "rejoin"
  BY DEF JoinSapphire
<1>4. QED
  BY <1>1, <1>2, <1>3, GotoSlots

\* What a flow writes is an envelope of its own.
LEMMA OwnPayload ==
  ASSUME IInv, NEW t \in Tabs, tab[t].phase \in Uploading
  PROVE  Own(tab[t]) \in Payloads /\ Own(tab[t]).poc \in PoCs
BY DEF IInv, Binding, FlowBound, Own, Payload, Payloads

LEMMA PostSlots ==
  ASSUME IInv, SlotsSound, HeldFrom, NEW t \in Tabs, NEW s \in Slots, Post(t, s)
  PROVE  SlotsSound'
<1>1. PICK named \in {s, None} :
        tab' = [tab EXCEPT ![t].phase = "posted", ![t].sentOn = "sapphire", ![t].slot = named]
  BY DEF Post
<1> DEFINE g == [tab[t] EXCEPT !.phase = "posted", !.sentOn = "sapphire", !.slot = named]
<1>2. tab[t] \in Flow /\ FlowSlots(slot, onTrust, tab[t]) /\ tab[t].phase \in Uploading
  BY DEF IInv, Types, SlotsSound, Post, Uploading
<1>3. /\ g.phase = "posted" /\ g.slot = named /\ g.from = tab[t].from
      /\ g.retried = tab[t].retried /\ g.poc = tab[t].poc /\ g.project = tab[t].project
  BY <1>2 DEF Flow
<1>4. tab' = [tab EXCEPT ![t] = g]
  BY <1>1 DEF IInv, Types
<1> HIDE DEF g
<1>5. Own(g) = Own(tab[t]) /\ Own(tab[t]) \in Payloads
  BY <1>2, <1>3, OwnPayload DEF Own
<1>6. Write(Service, s, Own(tab[t])) /\ slot[s].writer = None
  BY DEF Post, Own
<1>7. Service \in Writers /\ Service \notin Accounts /\ Service # Stranger
  BY ClientAssumption DEF Writers
<1>8. SlotsStay({}) /\ slot'[s].writer = Service /\ slot'[s].payload = Own(tab[t])
  <2>1. UNCHANGED onTrust
    BY DEF Post
  <2>2. QED
    BY <1>5, <1>6, <1>7, <2>1, WriteStays DEF SlotsSound
<1>9. named # None => Kept(slot', onTrust', named, Own(g))
  <2> SUFFICES ASSUME named # None  PROVE Kept(slot', onTrust', s, Own(g))
    BY DEF Kept, Own
  <2>1. QED
    BY <1>5, <1>8 DEF Kept, Own
<1>10. FlowSlots(slot', onTrust', g)
  BY <1>2, <1>3, <1>9 DEF FlowSlots, Written, Kept, Own
<1>11. QED
  BY <1>3, <1>4, <1>8, <1>10, FlowStep

LEMMA PickPointerSlots ==
  ASSUME IInv, SlotsSound, HeldFrom, NEW t \in Tabs, NEW s \in Slots, PickPointer(t, s)
  PROVE  SlotsSound'
<1>1. PICK from \in (IF tab[t].retried THEN {tab[t].from} ELSE ProviderAddress(t)) :
        /\ slot[s].writer # from
        /\ tab' = [tab EXCEPT ![t].phase = "write", ![t].from = from, ![t].slot = s]
  BY DEF PickPointer
<1> DEFINE g == [tab[t] EXCEPT !.phase = "write", !.from = from, !.slot = s]
<1>2. tab[t] \in Flow /\ FlowSlots(slot, onTrust, tab[t]) /\ tab[t].phase \in Uploading
  BY DEF IInv, Types, SlotsSound, PickPointer, Uploading
<1>3. g.phase = "write" /\ g.slot = s /\ g.from = from
  BY <1>2 DEF Flow
<1>4. tab' = [tab EXCEPT ![t] = g]
  BY <1>1 DEF IInv, Types
<1> HIDE DEF g
<1>5. from \in Accounts
  BY <1>1, <1>2 DEF ProviderAddress, IInv, Types, Binding, FlowBound, FlowSlots
<1>6. FlowSlots(slot, onTrust, g)
  BY <1>1, <1>3, <1>5 DEF FlowSlots, Written
<1>7. SlotsStay({})
  BY SameSlots DEF SlotsSound, PickPointer, storeVars
<1>8. FlowSlots(slot', onTrust', g)
  BY <1>6, <1>7, FlowStays
<1>9. \A u \in Tabs \ {t} : tab[u].slot # g.slot
  BY <1>3 DEF PickPointer
<1>10. QED
  BY <1>4, <1>7, <1>8, <1>9, FlowStep

LEMMA SendWriteSlots ==
  ASSUME IInv, SlotsSound, HeldFrom, NEW t \in Tabs, SendWrite(t)
  PROVE  SlotsSound'
<1> DEFINE g == [tab[t] EXCEPT !.phase = "receipt", !.sentOn = wallet.chain]
<1>1. tab[t] \in Flow /\ FlowSlots(slot, onTrust, tab[t]) /\ tab[t].phase \in Uploading /\ tab[t].phase = "write"
  BY DEF IInv, Types, SlotsSound, SendWrite, Uploading
<1>2. /\ g.phase = "receipt" /\ g.slot = tab[t].slot /\ g.from = tab[t].from /\ g.sentOn = wallet.chain
      /\ g.poc = tab[t].poc /\ g.project = tab[t].project
  BY <1>1 DEF Flow
<1>3. tab' = [tab EXCEPT ![t] = g]
  BY DEF SendWrite, IInv, Types
<1> HIDE DEF g
<1>4. /\ tab[t].from \in Accounts /\ tab[t].slot \in Slots
      /\ slot[tab[t].slot].writer # tab[t].from
  BY <1>1 DEF FlowSlots
<1>5. Own(g) = Own(tab[t])
  BY <1>2 DEF Own
<1>6. CASE wallet.chain = "sapphire"
  <2>1. Write(tab[t].from, tab[t].slot, Own(tab[t])) /\ MayWrite(tab[t].from, tab[t].slot)
    BY <1>6 DEF SendWrite, Own
  <2>2. slot[tab[t].slot].writer = None
    BY <1>4, <2>1 DEF MayWrite
  <2>3. tab[t].from \in Writers /\ tab[t].from # Stranger
    BY <1>4, ClientAssumption DEF Writers
  <2>4. Own(tab[t]) \in Payloads
    BY <1>1, OwnPayload
  <2>5. SlotsStay({tab[t].slot}) /\ slot'[tab[t].slot].writer = tab[t].from
        /\ slot'[tab[t].slot].payload = Own(tab[t])
    BY <1>4, <2>1, <2>2, <2>3, <2>4, WriteStays DEF SlotsSound, SendWrite
  <2>6. FlowSlots(slot', onTrust', g)
    BY <1>2, <1>4, <1>5, <2>5 DEF FlowSlots, Written, Kept, Own
  <2>7. QED
    BY <1>1, <1>2, <1>3, <2>5, <2>6, FlowStep
<1>7. CASE wallet.chain # "sapphire"
  <2>1. slot' = slot /\ onTrust' = onTrust
    BY <1>7 DEF SendWrite
  <2>2. FlowSlots(slot, onTrust, g)
    BY <1>2, <1>4, <1>7 DEF FlowSlots, Written
  <2>3. QED
    BY <1>2, <1>3, <2>1, <2>2, FlowMoves
<1>8. QED
  BY <1>6, <1>7

\* A refusal, a receipt, the readback, the proof, a failure
LEMMA AnswerSlots ==
  ASSUME Encrypted, IInv, SlotsSound, HeldFrom, NEW t \in Tabs,
         \/ WriteNotAuthorized(t) \/ RetryWrite(t) \/ WriteReceipt(t)
         \/ Readback(t) \/ Prove(t) \/ UploadFails(t)
  PROVE  SlotsSound'
<1>1. slot' = slot /\ onTrust \subseteq onTrust'
  BY DEF WriteNotAuthorized, RetryWrite, WriteReceipt, Readback, Prove, UploadFails, storeVars
<1>0. \/ WriteNotAuthorized(t) \/ RetryWrite(t) \/ WriteReceipt(t) \/ Readback(t)
      => onTrust' = onTrust
  BY DEF WriteNotAuthorized, RetryWrite, WriteReceipt, Readback, storeVars
<1>2. tab[t] \in Flow /\ FlowSlots(slot, onTrust, tab[t]) /\ StoreSound
  BY DEF IInv, Types, SlotsSound
<1>3. tab[t].phase \in Uploading
  BY DEF WriteNotAuthorized, RetryWrite, WriteReceipt, Readback, Prove, UploadFails, Uploading
<1>4. CASE UploadEnds(t, "failed")
  BY <1>1, <1>3, <1>4, EndsSlots
<1>5. CASE WriteNotAuthorized(t)
  <2>1. UploadEnds(t, "failed") \/ Goto(t, "refused")
    BY <1>5 DEF WriteNotAuthorized
  <2>2. tab[t].phase = "write"
    BY <1>5 DEF WriteNotAuthorized
  <2>3. QED
    BY <1>0, <1>1, <1>5, <1>3, <1>4, <2>1, <2>2, GotoSlots
<1>6. CASE RetryWrite(t) /\ ~UploadEnds(t, "failed")
  <2> DEFINE g == [tab[t] EXCEPT !.phase = "pointer", !.retried = TRUE]
  <2>1. tab' = [tab EXCEPT ![t] = g] /\ tab[t].phase = "refused"
    BY <1>6 DEF RetryWrite, IInv, Types
  <2>2. g.phase = "pointer" /\ g.from = tab[t].from
    BY <1>2 DEF Flow
  <2> HIDE DEF g
  <2>3. FlowSlots(slot, onTrust, g)
    BY <1>2, <2>1, <2>2 DEF FlowSlots, Written
  <2>4. QED
    BY <1>0, <1>1, <1>6, <2>1, <2>2, <2>3, FlowMoves
<1>7. CASE WriteReceipt(t)
  <2>1. Goto(t, "rejoin") /\ tab[t].phase = "receipt"
    BY <1>7 DEF WriteReceipt
  <2>2. QED
    BY <1>0, <1>1, <1>7, <1>3, <2>1, GotoSlots
<1>8. CASE Readback(t)
  <2>1. tab[t].phase = "read" /\ tab[t].slot # None /\ tab[t].slot \in Slots
    BY <1>2, <1>8 DEF Readback, Parses, Flow
  <2>2. CASE Goto(t, "proof")
    BY <1>0, <1>1, <1>8, <1>3, <2>1, <2>2, GotoSlots
  <2>3. CASE \E payload \in ReadPayload(t) : Matches(t, payload) /\ UploadEnds(t, "stored")
    <3>1. /\ slot[tab[t].slot].writer # None /\ slot[tab[t].slot].payload = Own(tab[t])
          /\ UploadEnds(t, "stored")
      BY <2>3 DEF ReadPayload, Matches, Own
    <3>2. slot[tab[t].slot].writer \in Writers
      BY <1>2, <2>1, <3>1 DEF StoreSound, Records
    <3>3. slot[tab[t].slot].writer # Stranger
      BY <1>2, <1>3, <2>1, <3>1, OwnPayload, ClientAssumption DEF StoreSound
    <3>4. Kept(slot, onTrust, tab[t].slot, Own(tab[t]))
      BY <2>1, <3>1, <3>2, <3>3 DEF Kept, Writers
    <3>5. QED
      BY <1>0, <1>1, <1>8, <1>3, <2>1, <3>1, <3>4, EndsSlots
  <2>4. QED
    BY <1>8, <2>2, <2>3 DEF Readback
<1>9. CASE Prove(t) /\ ~UploadEnds(t, "failed")
  <2>1. /\ tab[t].phase = "proof" /\ UploadEnds(t, "stored")
        /\ tab[t].sentOn = "sapphire" \/ UploadUri(t) \in onTrust'
    BY <1>9 DEF Prove, TransactionProves, ReceiptProves
  <2>2. Kept(slot, onTrust', tab[t].slot, Own(tab[t]))
    <3>1. CASE tab[t].sentOn = "sapphire"
      BY <1>1, <1>2, <2>1, <3>1 DEF FlowSlots, Written, Kept
    <3>2. CASE UploadUri(t) \in onTrust'
      BY <3>2 DEF UploadUri, Own, Kept
    <3>3. QED
      BY <2>1, <3>1, <3>2
  <2>3. QED
    BY <1>1, <1>3, <2>1, <2>2, EndsSlots
<1>10. QED
  BY <1>4, <1>5, <1>6, <1>7, <1>8, <1>9 DEF UploadFails

-----------------------------------------------------------------------------
(* All steps *)

\* A flow that starts or resumes has not chosen an author.
LEMMA SubmitSlots ==
  ASSUME IInv, SlotsSound, HeldFrom, NEW t \in Tabs, NEW project \in Projects, NEW poc \in PoCs,
         Submit(t, project, poc)
  PROVE  SlotsSound'
<1> DEFINE fresh == Started(project, poc, wallet.account)
<1>1. slot' = slot /\ onTrust' = onTrust /\ wallet.account \in Accounts
  BY DEF Submit, IInv, Types
<1>2. fresh \in Flow /\ fresh.retried = FALSE
  BY <1>1, StartedFlow DEF Started, Resting
<1> HIDE DEF fresh
<1>3. CASE Usable(project, wallet.account)
  <2> DEFINE g == [fresh EXCEPT !.phase = "simulate", !.salt = stored.salt,
                                !.uri = stored.uri, !.hash = stored.hash]
  <2>1. tab' = [tab EXCEPT ![t] = g]
    BY <1>3 DEF Submit, fresh
  <2>2. g.phase = "simulate"
    BY <1>2 DEF Flow
  <2> HIDE DEF g
  <2>3. QED
    BY <1>1, <2>1, <2>2, OtherSlots DEF Uploading
<1>4. CASE ~Usable(project, wallet.account)
  <2>1. PICK phase \in FirstPhases :
          tab' = [tab EXCEPT ![t] = [fresh EXCEPT !.phase = phase, !.salt = submits + 1]]
    BY <1>4 DEF Submit, fresh
  <2> DEFINE g == [fresh EXCEPT !.phase = phase, !.salt = submits + 1]
  <2>2. g.phase \in {"post", "switch"} /\ g.retried = FALSE
    BY <1>2 DEF Flow, FirstPhases
  <2>3. tab' = [tab EXCEPT ![t] = g]
    BY <2>1
  <2> HIDE DEF g
  <2>4. FlowSlots(slot, onTrust, g)
    BY <2>2 DEF FlowSlots, Written
  <2>5. QED
    BY <1>1, <2>2, <2>3, <2>4, FlowMoves
<1>5. QED
  BY <1>3, <1>4

\* The commit, and what ends a flow
LEMMA CommitSlots ==
  ASSUME IInv, SlotsSound, HeldFrom, NEW t \in Tabs,
         RestoreChain(t) \/ Commit(t) \/ Reset(t) \/ Reload(t)
  PROVE  SlotsSound'
<1>1. slot' = slot /\ onTrust' = onTrust /\ tab[t] \in Flow
  BY DEF RestoreChain, Commit, Simulate, SendCommit, CommitReceipt, CommitTimesOut, Catch, Reset,
         Reload, storeVars, IInv, Types
<1>2. CASE RestoreChain(t) /\ tab[t].result = "stored"
  <2>1. Prepared(t).phase = "simulate" /\ tab' = [tab EXCEPT ![t] = Prepared(t)]
    BY <1>2, PreparedFlow DEF RestoreChain, Uploading
  <2>2. QED
    BY <1>1, <2>1, OtherSlots DEF Uploading
<1>3. CASE Failed(t) \/ Reset(t) \/ Reload(t)
  <2>1. \/ tab' = [tab EXCEPT ![t] = Resting]
        \/ tab' = [tab EXCEPT ![t] = [Resting EXCEPT !.phase = "failed"]]
    BY <1>3 DEF Failed, Reset, Reload
  <2>2. QED
    BY <1>1, <2>1, RestingFlow, OtherSlots DEF Uploading
<1>4. CASE Goto(t, "send") \/ Goto(t, "catch") \/ Goto(t, "wait")
  <2>1. PICK phase \in {"send", "catch", "wait"} : tab' = [tab EXCEPT ![t] = [tab[t] EXCEPT !.phase = phase]]
    BY <1>4 DEF Goto, IInv, Types
  <2> DEFINE g == [tab[t] EXCEPT !.phase = phase]
  <2>2. g.phase = phase
    BY <1>1 DEF Flow
  <2>3. tab' = [tab EXCEPT ![t] = g]
    BY <2>1
  <2> HIDE DEF g
  <2>4. QED
    BY <1>1, <2>2, <2>3, OtherSlots DEF Uploading
<1>5. CASE \E c \in commits : Committed(t, c)
  <2>1. PICK c \in commits : tab' = [tab EXCEPT ![t] = [tab[t] EXCEPT !.phase = "committed", !.id = c.id]]
    BY <1>5 DEF Committed, IInv, Types
  <2> DEFINE g == [tab[t] EXCEPT !.phase = "committed", !.id = c.id]
  <2>2. g.phase = "committed"
    BY <1>1 DEF Flow
  <2>3. tab' = [tab EXCEPT ![t] = g]
    BY <2>1
  <2> HIDE DEF g
  <2>4. QED
    BY <1>1, <2>2, <2>3, OtherSlots DEF Uploading
<1>6. QED
  BY <1>2, <1>3, <1>4, <1>5
     DEF RestoreChain, Commit, Simulate, SendCommit, CommitReceipt, CommitTimesOut, Catch, Recovered

\* Others write what no flow writes, to free slots and their own.
LEMMA ElsewhereSlots ==
  ASSUME SlotsSound, HeldFrom, NEW s \in Slots, NEW poc \in OtherPoCs,
         WriteElsewhere(Stranger, s, Payload(poc, None))
  PROVE  SlotsSound'
<1>1. /\ Payload(poc, None) \in Payloads /\ Payload(poc, None).poc \in OtherPoCs
      /\ Stranger \in Writers /\ Stranger \notin Accounts
  BY ClientAssumption DEF Payload, Payloads, Writers
<1>2. /\ Write(Stranger, s, Payload(poc, None)) /\ UNCHANGED <<tab, onTrust>>
      /\ slot[s].writer = None \/ slot[s].writer = Stranger
  BY DEF WriteElsewhere, MayWrite
<1>3. SlotsStay({})
  BY <1>1, <1>2, WriteStays DEF SlotsSound
<1>4. QED
  BY <1>2, <1>3, AsideStep

LEMMA NextSlots ==
  ASSUME Encrypted, IInv, SlotsSound, HeldFrom, [Next]_vars
  PROVE  SlotsSound'
<1>1. ASSUME NEW t \in Tabs, Upload(t)  PROVE SlotsSound'
  BY <1>1, JoinSlots, PostSlots, PickPointerSlots, SendWriteSlots, AnswerSlots, CommitSlots DEF Upload
<1>2. CASE \/ \E tx \in pending : MineCommit(tx)
           \/ Expire
           \/ \E chain \in Chains, a \in Accounts : SwitchWallet(chain, a)
           \/ \E s \in Slots, p \in Accounts : GrantReadAccess(Stranger, s, p)
           \/ UNCHANGED vars
  <2>1. UNCHANGED <<tab, slot, onTrust>>
    BY <1>2 DEF MineCommit, Expire, SwitchWallet, GrantReadAccess, vars, storeVars
  <2>2. QED
    BY <2>1, SameSlots, AsideStep DEF SlotsSound
<1>3. QED
  BY <1>1, <1>2, SubmitSlots, CommitSlots, ElsewhereSlots DEF Next

LEMMA InitSlots == Init => SlotsSound
<1> SUFFICES ASSUME Init  PROVE SlotsSound
  OBVIOUS
<1>1. \A t \in Tabs : tab[t].phase = "idle"
  BY RestingFlow DEF Init
<1>2. \A t \in Tabs : FlowSlots(slot, onTrust, tab[t])
  BY <1>1 DEF FlowSlots, Written, Uploading
<1>3. StoreSound
  BY ClientAssumption DEF Init, StoreSound, Empty, Records
<1>4. Held = {}
  BY <1>1, PhaseSets DEF Init, Held, Stored
<1>5. QED
  BY <1>1, <1>2, <1>3, <1>4 DEF SlotsSound, WritesApart, HashesKept

\* With sealed calldata, what is committed to is in its slot, whatever happens to the wallet's
\* chain during the upload, and although the store may refuse to read it back: unless its
\* receipt came without logs, which the code takes for proof (the run ClientBareReceipt).
THEOREM CommittedIsStoredAlways ==
  ASSUME Encrypted  PROVE Spec => []CommittedIsStored
<1>1. Init => IInv /\ SlotsSound
  BY InitHolds, InitSlots
<1>2. IInv /\ SlotsSound /\ [Next]_vars => (IInv /\ SlotsSound)'
  BY NextKeeps, NextSlots
<1>3. IInv /\ SlotsSound => CommittedIsStored
  <2> SUFFICES ASSUME IInv, SlotsSound, NEW c \in commits
               PROVE  c.uri \in onTrust \/ slot[c.uri.slot].payload = c.uri.payload
    BY DEF CommittedIsStored
  <2>1. c.hash \in Held /\ c.hash.uri = c.uri
    BY DEF IInv, Binding, Bound, Held
  <2>2. Uri(c.uri.slot, c.uri.payload) = c.uri
    BY DEF IInv, Binding, Bound, Hashes, Uris, Uri
  <2>3. Kept(slot, onTrust, c.uri.slot, c.uri.payload)
    BY <2>1 DEF SlotsSound, HashesKept
  <2>4. QED
    BY <2>2, <2>3 DEF Kept
<1>4. QED
  BY <1>1, <1>2, <1>3, PTL DEF Spec

-----------------------------------------------------------------------------
(* Who may read *)

\* The version of a slot goes up with each write; who may read the last one wrote it or was
\* let read what it holds.
ReadersSound ==
  /\ \A s \in Slots : s \in DOMAIN slot /\ slot[s].version \in Nat
  /\ \A s \in Slots, v \in Nat, p \in Writers : <<s, v, p>> \in canRead =>
       /\ v <= slot[s].version
       /\ v = slot[s].version /\ p # slot[s].writer => <<s, slot[s].payload, p>> \in granted

LEMMA WriteReaders ==
  ASSUME ReadersSound, NEW w, NEW s \in Slots, NEW payload, Write(w, s, payload), granted' = granted
  PROVE  ReadersSound'
<1> DEFINE new == [writer |-> w, payload |-> payload, version |-> slot[s].version + 1]
<1>1. slot' = [slot EXCEPT ![s] = new] /\ canRead' = canRead \cup {<<s, new.version, w>>}
  BY DEF Write, NextVersion
<1>2. new.writer = w /\ new.version = slot[s].version + 1
  OBVIOUS
<1> HIDE DEF new
<1>3. slot'[s] = new /\ (\A r \in Slots \ {s} : slot'[r] = slot[r]) /\ DOMAIN slot' = DOMAIN slot
  BY <1>1 DEF ReadersSound
<1>4. \A r \in Slots : r \in DOMAIN slot' /\ slot'[r].version \in Nat
  BY <1>2, <1>3 DEF ReadersSound
<1>5. ASSUME NEW r \in Slots, NEW v \in Nat, NEW p \in Writers, <<r, v, p>> \in canRead'
      PROVE  /\ v <= slot'[r].version
             /\ v = slot'[r].version /\ p # slot'[r].writer => <<r, slot'[r].payload, p>> \in granted'
  <2>1. CASE <<r, v, p>> \in canRead
    <3>1. /\ v <= slot[r].version /\ slot[r].version \in Nat
          /\ v = slot[r].version /\ p # slot[r].writer => <<r, slot[r].payload, p>> \in granted
      BY <2>1 DEF ReadersSound
    <3>2. CASE r = s
      <4>1. slot'[r].version = slot[r].version + 1
        BY <1>2, <1>3, <3>2
      <4>2. QED
        BY <3>1, <4>1
    <3>3. CASE r # s
      BY <1>3, <3>1, <3>3
    <3>4. QED
      BY <3>2, <3>3
  <2>2. CASE <<r, v, p>> = <<s, new.version, w>>
    <3>1. r = s /\ v = new.version /\ p = w
      BY <2>2
    <3>2. QED
      BY <1>2, <1>3, <3>1
  <2>3. QED
    BY <1>1, <1>5, <2>1, <2>2
<1>6. QED
  BY <1>4, <1>5 DEF ReadersSound

LEMMA GrantReaders ==
  ASSUME ReadersSound, NEW w, NEW s \in Slots, NEW principal, GrantReadAccess(w, s, principal)
  PROVE  ReadersSound'
BY DEF ReadersSound, GrantReadAccess

\* A flow about to write has chosen a slot.
Aimed == \A t \in Tabs : tab[t].phase = "write" => tab[t].slot \in Slots

LEMMA NextAimed == IInv /\ Aimed /\ [Next]_vars => Aimed'
<1> SUFFICES ASSUME IInv, Aimed, [Next]_vars  PROVE Aimed'
  OBVIOUS
<1>1. tab \in [Tabs -> Flow] /\ \A t \in Tabs : tab[t] \in Flow
  BY DEF IInv, Types
<1>2. ASSUME NEW t \in Tabs, NEW g, tab' = [tab EXCEPT ![t] = g], g.phase = "write" => g.slot \in Slots
      PROVE  Aimed'
  BY <1>1, <1>2 DEF Aimed
<1>3. ASSUME NEW t \in Tabs, NEW phase, Goto(t, phase), phase # "write"  PROVE Aimed'
  BY <1>1, <1>3 DEF Aimed, Goto, Flow
<1>4. ASSUME NEW t \in Tabs, NEW result, UploadEnds(t, result)  PROVE Aimed'
  <2> DEFINE g == [[tab[t] EXCEPT !.phase = "restore"] EXCEPT !.result = result]
  <2>1. tab' = [tab EXCEPT ![t] = g]
    BY <1>1, <1>4 DEF UploadEnds
  <2>2. g.phase = "restore"
    BY <1>1 DEF Flow
  <2> HIDE DEF g
  <2>3. QED
    BY <1>2, <2>1, <2>2
<1>5. ASSUME NEW t \in Tabs, Failed(t) \/ tab' = [tab EXCEPT ![t] = Resting]  PROVE Aimed'
  BY <1>2, <1>5, RestingFlow DEF Failed
<1>6. ASSUME NEW t \in Tabs, NEW c, Committed(t, c)  PROVE Aimed'
  BY <1>1, <1>6 DEF Aimed, Committed, Flow
<1>7. ASSUME NEW t \in Tabs, NEW s \in Slots, Post(t, s) \/ PickPointer(t, s)  PROVE Aimed'
  <2>1. CASE Post(t, s)
    BY <1>1, <2>1 DEF Aimed, Post, Flow
  <2>2. CASE PickPointer(t, s)
    <3>1. PICK from : tab' = [tab EXCEPT ![t] = [tab[t] EXCEPT !.phase = "write", !.from = from, !.slot = s]]
      BY <1>1, <2>2 DEF PickPointer
    <3> DEFINE g == [tab[t] EXCEPT !.phase = "write", !.from = from, !.slot = s]
    <3>2. g.slot = s
      BY <1>1 DEF Flow
    <3>3. tab' = [tab EXCEPT ![t] = g]
      BY <3>1
    <3> HIDE DEF g
    <3>4. QED
      BY <1>2, <3>2, <3>3
  <2>3. QED
    BY <1>7, <2>1, <2>2
<1>8. ASSUME NEW t \in Tabs, SendWrite(t)  PROVE Aimed'
  BY <1>1, <1>8 DEF Aimed, SendWrite, Flow
<1>9. ASSUME NEW t \in Tabs, RetryWrite(t)  PROVE Aimed'
  BY <1>1, <1>4, <1>9 DEF Aimed, RetryWrite, Flow
<1>10. ASSUME NEW t \in Tabs, RestoreChain(t)  PROVE Aimed'
  <2>1. Prepared(t).phase = "simulate"
    BY <1>10, PreparedFlow DEF RestoreChain, Uploading
  <2>2. QED
    BY <1>2, <1>5, <1>10, <2>1 DEF RestoreChain
<1>11. ASSUME NEW t \in Tabs, Upload(t)  PROVE Aimed'
  BY <1>3, <1>4, <1>7, <1>8, <1>9, <1>10, <1>11 DEF Upload, JoinSapphire, WriteNotAuthorized,
     WriteReceipt, Readback, Prove, UploadFails
<1>12. ASSUME NEW t \in Tabs, Commit(t) \/ Reset(t) \/ Reload(t)  PROVE Aimed'
  BY <1>3, <1>5, <1>6, <1>12 DEF Commit, Simulate, SendCommit, CommitReceipt, CommitTimesOut, Catch,
     Reset, Reload
<1>13. ASSUME NEW t \in Tabs, NEW project \in Projects, NEW poc \in PoCs, Submit(t, project, poc)
       PROVE  Aimed'
  <2> DEFINE fresh == Started(project, poc, wallet.account)
  <2>1. fresh \in Flow
    BY StartedFlow DEF IInv, Types
  <2>2. PICK g : tab' = [tab EXCEPT ![t] = g] /\ g.phase # "write"
    <3>1. CASE Usable(project, wallet.account)
      <4> DEFINE g == [fresh EXCEPT !.phase = "simulate", !.salt = stored.salt,
                                    !.uri = stored.uri, !.hash = stored.hash]
      <4>1. tab' = [tab EXCEPT ![t] = g]
        BY <1>13, <3>1 DEF Submit
      <4> HIDE DEF fresh
      <4>2. g.phase = "simulate"
        BY <2>1 DEF Flow
      <4> HIDE DEF g
      <4>3. QED
        BY <4>1, <4>2
    <3>2. CASE ~Usable(project, wallet.account)
      <4>1. PICK phase \in FirstPhases :
              tab' = [tab EXCEPT ![t] = [fresh EXCEPT !.phase = phase, !.salt = submits + 1]]
        BY <1>13, <3>2 DEF Submit
      <4> DEFINE g == [fresh EXCEPT !.phase = phase, !.salt = submits + 1]
      <4> HIDE DEF fresh
      <4>2. g.phase \in {"post", "switch"}
        BY <2>1 DEF Flow, FirstPhases
      <4>3. tab' = [tab EXCEPT ![t] = g]
        BY <4>1
      <4> HIDE DEF g
      <4>4. QED
        BY <4>2, <4>3
    <3>3. QED
      BY <3>1, <3>2
  <2>3. QED
    BY <1>2, <2>2
<1>14. CASE UNCHANGED tab
  BY <1>14 DEF Aimed
<1>15. QED
  BY <1>11, <1>12, <1>13, <1>14
     DEF Next, MineCommit, Expire, SwitchWallet, WriteElsewhere, GrantReadAccess, vars

LEMMA NextReaders == Aimed /\ ReadersSound /\ [Next]_vars => ReadersSound'
<1> SUFFICES ASSUME Aimed, ReadersSound, [Next]_vars  PROVE ReadersSound'
  OBVIOUS
<1>1. CASE UNCHANGED <<slot, canRead, granted>>
  BY <1>1 DEF ReadersSound
<1>2. ASSUME NEW t \in Tabs, Upload(t)  PROVE ReadersSound'
  <2>1. CASE \E s \in Slots : Post(t, s)
    BY <2>1, WriteReaders DEF Post
  <2>2. CASE SendWrite(t) /\ ~UNCHANGED <<slot, canRead>>
    <3>1. Write(tab[t].from, tab[t].slot, Payload(tab[t].poc, tab[t].project)) /\ granted' = granted
      BY <2>2 DEF SendWrite
    <3>2. tab[t].slot \in Slots
      BY <2>2 DEF SendWrite, Aimed
    <3>3. QED
      BY <3>1, <3>2, WriteReaders
  <2>3. QED
    BY <1>1, <1>2, <2>1, <2>2 DEF Upload, JoinSapphire, PickPointer, SendWrite, WriteNotAuthorized,
       RetryWrite, WriteReceipt, Readback, Prove, UploadFails, RestoreChain, storeVars
<1>3. ASSUME NEW t \in Tabs, Commit(t) \/ Reset(t) \/ Reload(t)  PROVE ReadersSound'
  BY <1>1, <1>3 DEF Commit, Simulate, SendCommit, CommitReceipt, CommitTimesOut, Catch, Reset,
     Reload, storeVars
<1>4. ASSUME NEW s \in Slots, NEW poc, WriteElsewhere(Stranger, s, Payload(poc, None))
      PROVE  ReadersSound'
  BY <1>4, WriteReaders DEF WriteElsewhere
<1>5. QED
  BY <1>1, <1>2, <1>3, <1>4, GrantReaders
     DEF Next, Submit, MineCommit, Expire, SwitchWallet, vars, storeVars

\* A grant of one version does not open the next: who may read a slot wrote what is in it, or
\* was let read this very payload.
THEOREM ReadersOfThisPayloadAlways == Spec => []ReadersOfThisPayload
<1>1. Init => IInv /\ Aimed /\ ReadersSound
  <2> SUFFICES ASSUME Init  PROVE Aimed /\ ReadersSound
    BY InitHolds
  <2>1. Aimed
    BY RestingFlow DEF Init, Aimed
  <2>2. ReadersSound
    BY DEF Init, ReadersSound, Empty
  <2>3. QED
    BY <2>1, <2>2
<1>2. IInv /\ Aimed /\ ReadersSound /\ [Next]_vars => (IInv /\ Aimed /\ ReadersSound)'
  BY NextKeeps, NextAimed, NextReaders
<1>3. ReadersSound => ReadersOfThisPayload
  BY DEF ReadersSound, ReadersOfThisPayload, Readable
<1>4. QED
  BY <1>1, <1>2, <1>3, PTL DEF Spec

=============================================================================
