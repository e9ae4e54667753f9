------------------------------ MODULE GateSync ------------------------------
(***************************************************************************)
(* The sync the required check reasons with, and the one that runs.        *)
(* MetadataGate takes one sync for one step with an outcome (SyncOutcome); *)
(* CandidateSync plans, generates and writes file by file.  Here both are  *)
(* put side by side: what can be seen of a table from outside is recorded  *)
(* when a command begins, and compared with what the command reports.      *)
(***************************************************************************)
EXTENDS CandidateSync

ASSUME BodiesAssumption == Bodies # {}

VARIABLE before  \* the reviewed tables as the running or last command found them

\* A candidate that is missing or unreadable was made from nothing and says nothing.
Nothing == <<>>

Outside == INSTANCE SyncOutcome
             WITH Contents <- (Contents \X Inputs) \union {Nothing},
                  Inputs <- [content : Contents \X Inputs, approved : BOOLEAN],
                  Texts <- (Bodies \X Identities) \union {Nothing}

\* What the configured generator can answer.
Answers == Bodies \X {identity}

InputOf(t) == [content |-> <<reviews[t].content, inputs>>,
               approved |-> reviews[t].state = "approved"]

\* A candidate and its Markdown.
OutputOf(c, file) ==
    [content |-> IF Readable(c) THEN <<c.fingerprint.content, c.fingerprint.inputs>> ELSE Nothing,
     promoted |-> c.state = "promoted",
     intact |-> Readable(c) /\ Intact(c),
     rendered |-> Readable(c) /\ file = Render(c),
     text |-> IF Readable(c) THEN <<c.body, c.fingerprint.identity>> ELSE Nothing]

View(t) == [input |-> InputOf(t), source |-> "old",
            output |-> OutputOf(candidates[t], markdown[t])]

Views == [t \in Reviewed |-> View(t)]

-----------------------------------------------------------------------------

SeenInit == Init /\ before = Views

Begins == \E selection \in SUBSET Tables, validateOnly \in BOOLEAN :
              Plan(selection, validateOnly)

SeenNext == Next /\ before' = IF Begins THEN Views ELSE before

seen == <<vars, before>>

SeenSpec == SeenInit /\ [][SeenNext]_seen

FairSeenSpec == SeenSpec /\ Fairness

-----------------------------------------------------------------------------
(* Properties.                                                             *)

\* What a command reports is an outcome the gate expects of the tree it began with: a
\* synced table has its inputs as they were and one of the outputs a sync can produce from
\* them, written over however many steps; a validated one was acceptable.
ReportIsOutcome ==
    /\ outcome = "synced" => \A t \in chosen :
          /\ InputOf(t) = before[t].input
          /\ View(t).output \in Outside!Outcomes(before[t], Answers)
    /\ outcome = "validated" => \A t \in chosen :
          View(t) = before[t] /\ Outside!Accepted(before[t])

\* A command over reviewed tables that pass the preflight is refused before it writes
\* exactly when the gate has no outcome for one of them.
Refused(t, validateOnly) ==
    IF validateOnly THEN ~Outside!Accepted(View(t)) ELSE Outside!Outcomes(View(t), Answers) = {}

RefusalIsNoOutcome ==
    [][\A selection \in SUBSET Reviewed, validateOnly \in BOOLEAN :
          Preflight /\ Plan(selection, validateOnly)
          => (outcome' = "failed" <=> \E t \in Chosen(selection) : Refused(t, validateOnly))]_vars
=============================================================================
