------------------------------ MODULE Readings ------------------------------
(***************************************************************************)
(* What a language model read off the gadgets' code and the user scripts   *)
(* (inference_enrichment.py), beside the gadget lane.  A text is            *)
(* represented by what identifies it: a gadget's code and description, a   *)
(* script's version.  A stored value is represented by the text it was     *)
(* read from.                                                               *)
(***************************************************************************)
EXTENDS Gadgets

CONSTANTS
    Scripts,        \* user scripts the directory calls originals, in the order of their ids
    Versions,       \* texts a script may have
    Fields,         \* FIELD_ORDER
    WindowLimit, Slack      \* INFERENCE_ENRICHMENT_LIMIT, GADGET_WINDOW_SLACK

ASSUME ReadingsAssumption ==
    /\ IsInjective(Scripts) /\ ToSet(Scripts) \cap Keys = {}
    /\ {WindowLimit, Slack} \subseteq Nat \ {0}

Script == ToSet(Scripts)
ToolNames == Keys \cup Script

VARIABLES
    stored,         \* user_script_page: [Script -> the version the census stored]
    readings,       \* tool_inference: [ToolNames -> row or None]
    sweep           \* the candidate being asked about, and those after it
vars == <<gadgetVars, stored, readings, sweep>>

Resting == [asking |-> None, queue |-> <<>>]

Init ==
    /\ GadgetInit
    /\ stored \in [Script -> Versions]
    /\ readings = [n \in ToolNames |-> None]
    /\ sweep = Resting

---------------------------------------------------------------------------
\* The user-script census stores another version, or an earlier one that was restored.
StoreScript(s, version) ==
    /\ ops < Ops /\ ops' = ops + 1
    /\ stored[s] # version /\ stored' = [stored EXCEPT ![s] = version]
    /\ UNCHANGED <<line, blank, message, page, roster, tables, census, troubles, readings, sweep>>

\* gadget_fingerprint: the code and the description together.
TextOf(n) == IF n \in Script THEN <<"script", stored[n]>>
            ELSE <<"gadget", rows[n].body, rows[n].described>>

MissingFields(asked) == IF Fields \ asked = {} THEN Fields ELSE Fields \ asked
Candidate(n, asked) == [name |-> n, print |-> TextOf(n), fields |-> MissingFields(asked)]

\* pending: scripts whose present version has no row, an old error, or an unasked field.
\* (Fault: the row of any version will do.)
JoinedByName(s) == readings[s] # None
Joined(s) == readings[s] # None /\ readings[s].print = TextOf(s)
ScriptTier(s) ==
    IF ~Joined(s) THEN 0
    ELSE IF readings[s].status = "error" THEN (IF readings[s].aged THEN 1 ELSE 9)
    ELSE IF readings[s].asked # Fields THEN 2 ELSE 9
InTiers(names, Tier(_), last) ==
    FlattenSeq([t \in 1 .. last |-> SelectSeq(names, LAMBDA n : Tier(n) = t - 1)])
UpTo(seq, n) == IF Len(seq) > n THEN SubSeq(seq, 1, n) ELSE seq
Pending ==
    LET window == UpTo(InTiers(Scripts, ScriptTier, 3), WindowLimit)
    IN  [i \in DOMAIN window |-> Candidate(window[i], IF Joined(window[i]) THEN readings[window[i]].asked ELSE {})]

\* gadget_pending: the window is ordered without the texts, then those answered are passed over.
GadgetTier(k) ==
    IF readings[k] = None THEN 0
    ELSE IF readings[k].status = "error" THEN 1
    ELSE IF readings[k].asked # Fields THEN 2 ELSE 3
AnsweredReady(k) ==
    readings[k] # None /\ readings[k].print = TextOf(k) /\ readings[k].status = "ready" /\ readings[k].asked = Fields
Answered(k) ==
    readings[k] # None /\ readings[k].print = TextOf(k) /\ readings[k].status # "error" /\ readings[k].asked = Fields
GadgetPending ==
    LET read == {k \in Keys : rows[k].known /\ ~rows[k].gone /\ rows[k].body # {}}
        window == UpTo(InTiers(SetToSortSeq(read, LAMBDA j, k : rows[j].gadget < rows[k].gadget), GadgetTier, 4),
                       WindowLimit * Slack)
        found == UpTo(SelectSeq(window, LAMBDA k : ~Answered(k)), WindowLimit)
    IN  [i \in DOMAIN found |->
            Candidate(found[i], IF readings[found[i]] = None THEN {} ELSE readings[found[i]].asked)]

\* _interleave
Alternate(scripts, gadgets) ==
    LET long == IF Len(scripts) > Len(gadgets) THEN scripts ELSE gadgets
    IN  FlattenSeq([i \in DOMAIN long |-> UpTo(SubSeq(scripts, i, Len(scripts)), 1)
                                          \o UpTo(SubSeq(gadgets, i, Len(gadgets)), 1)])

\* with_source: a script's text and fingerprint are read again, a gadget's came with the window.
WithSource(candidate) ==
    IF candidate.name \in Script
    THEN [name |-> candidate.name, print |-> TextOf(candidate.name), fields |-> candidate.fields]
    ELSE candidate
\* The text a script is asked about is always the one that is stored.
Asked(candidate) == IF candidate.name \in Script THEN TextOf(candidate.name) ELSE candidate.print

\* A wave is one candidate: its source is read before it is asked about.
NextWave(queue) ==
    IF queue = <<>> THEN Resting
    ELSE [asking |-> [candidate |-> WithSource(Head(queue)), text |-> Asked(Head(queue))], queue |-> Tail(queue)]

OpenWindow ==
    /\ sweep = Resting /\ Pending \o GadgetPending # <<>>
    /\ sweep' = NextWave(Alternate(Pending, GadgetPending))
    /\ UNCHANGED <<gadgetVars, stored, readings>>

AnsweredFor(candidate) == candidate.print

\* record: what was accepted is merged over what the row held, and so is what was asked.
Recorded(candidate, text, outcome) ==
    LET row == readings[candidate.name]
        held == IF row = None THEN [f \in Fields |-> None] ELSE row.payload
        payload == [f \in Fields |-> IF f \in outcome.accepted THEN text ELSE held[f]]
        before == IF row = None THEN {} ELSE row.asked
    IN  [print |-> AnsweredFor(candidate), payload |-> payload, aged |-> FALSE,
         asked |-> IF outcome.answered THEN before \cup candidate.fields ELSE before,
         status |-> IF \E f \in Fields : payload[f] # None THEN "ready" ELSE outcome.status]

StoreAnswer(outcome) ==
    /\ sweep.asking # None
    /\ LET c == sweep.asking.candidate
       IN  readings' = [readings EXCEPT ![c.name] = Recorded(c, sweep.asking.text, outcome)]
    /\ sweep' = NextWave(sweep.queue)
    /\ UNCHANGED <<world, tables, census, stored>>

\* _ask: the reply is graded field by field, could not be parsed, or never came.
AskAccepted ==
    /\ sweep.asking # None
    /\ \E accepted \in SUBSET sweep.asking.candidate.fields :
         StoreAnswer([accepted |-> accepted, answered |-> TRUE,
                 status |-> IF accepted = {} THEN "rejected" ELSE "ready"])
    /\ UNCHANGED troubles
AskUnparsed == StoreAnswer([accepted |-> {}, answered |-> FALSE, status |-> "rejected"]) /\ Trouble
AskFailed == StoreAnswer([accepted |-> {}, answered |-> TRUE, status |-> "error"]) /\ Trouble

SweepKilled ==
    /\ sweep # Resting /\ Trouble /\ sweep' = Resting
    /\ UNCHANGED <<world, tables, census, stored, readings>>

\* RETRY_ERROR_AFTER goes by.
RetryDue(s) ==
    /\ readings[s] # None /\ readings[s].status = "error" /\ ~readings[s].aged
    /\ readings' = [readings EXCEPT ![s].aged = TRUE]
    /\ UNCHANGED <<gadgetVars, stored, sweep>>

---------------------------------------------------------------------------
Sweep == OpenWindow \/ AskAccepted

GadgetStep == (Edit \/ Refresh \/ Census \/ CensusTrouble \/ ReadChunk) /\ UNCHANGED <<stored, readings, sweep>>

Next ==
    \/ GadgetStep
    \/ \E s \in Script : RetryDue(s) \/ \E version \in Versions : StoreScript(s, version)
    \/ Sweep \/ AskUnparsed \/ AskFailed \/ SweepKilled

\* The jobs are started again and again and their processes are scheduled.  A census step is
\* always possible and never a stutter, so steps go on for ever and each other conjunct is
\* WF_vars of an action: infinitely often it is taken, or not possible.  The actions are named
\* by what they alone change.
Untroubled == troubles' = troubles
CensusGoesOn == Untroubled /\ <<census, lane>>' # <<census, lane>>
RefreshGoesOn == registry' # registry
ReadGoesOn == census' = census /\ <<rows, turn>>' # <<rows, turn>>
SweepGoesOn == Untroubled /\ sweep' # sweep
RetryGoesOn(s) == sweep' = sweep /\ readings'[s] # readings[s]
RefreshAfoot == roster # {} /\ Refreshed # registry
ReadAfoot == Stale # <<>> /\ <<RowsRead(Stale), TurnAfter(Stale)>> # <<rows, turn>>
SweepAfoot == sweep # Resting \/ Pending \o GadgetPending # <<>>
RetryAfoot(s) == readings[s] # None /\ readings[s].status = "error" /\ ~readings[s].aged
Fairness ==
    /\ []<><<CensusGoesOn>>_vars
    /\ []<><<RefreshGoesOn \/ ~RefreshAfoot>>_vars
    /\ []<><<ReadGoesOn \/ ~ReadAfoot>>_vars
    /\ []<><<SweepGoesOn \/ ~SweepAfoot>>_vars
    /\ \A s \in Script : []<><<RetryGoesOn(s) \/ ~RetryAfoot(s)>>_vars

Spec == Init /\ [][Next]_vars /\ Fairness

---------------------------------------------------------------------------
(* Properties.                                                              *)

TypeOK ==
    /\ \A k \in Keys : rows[k].known => Key[rows[k].gadget] = k
    /\ \A k \in Keys : catalog[k] # None => catalog[k].gadget # 0
    /\ \A n \in ToolNames : readings[n] # None => readings[n].status \in {"ready", "rejected", "error"}
    /\ \A w \in Wikis : lane[w].cadence \in Fastest .. SlowestClosed

\* A gadget its wiki never stopped declaring is never retired, and one that was described
\* all along, alone under its name, is never left undescribed: an unanswered request says
\* nothing.
Alone(g) == \A h \in Gadgets : Key[h] = Key[g] => h = g
SilenceKeeps ==
    \A g \in Steady : LET k == Key[g] IN rows[k].known =>
        ~rows[k].gone /\ (Alone(g) /\ catalog[k] # None /\ catalog[k].described => rows[k].described)

\* The author of a gadget made the revision its creation date names.
CreditTrue ==
    \A k \in Keys : rows[k].author # None =>
        \E f \in Files : Born[f] = rows[k].born /\ Author[f] = rows[k].author

\* What an answer adds to a reading was read from the text that the reading names.
AnswersDated ==
    [][\A n \in ToolNames : readings'[n] # readings[n] =>
          \A f \in Fields :
             LET before == IF readings[n] = None THEN None ELSE readings[n].payload[f]
             IN  readings'[n].payload[f] \in {before, readings'[n].print}]_vars

\* Nothing is put down that nobody said: not by silence, not to a wrong author.
Truthful == TypeOK /\ SilenceKeeps /\ CreditTrue

\* A text that was answered for is not asked about again.
AskedOnce ==
    [][sweep # Resting /\ readings' # readings /\ sweep' # sweep =>
          LET row == readings[sweep.asking.candidate.name]
          IN  ~ /\ row # None /\ row.print = sweep.asking.text
                /\ row.status # "error" /\ row.asked = Fields]_vars

\* An answer stands for the text it was asked about, and is asked for once.
AnswersStand == AnswersDated /\ AskedOnce

\* Every wiki of the registry is covered again and again.
Followed ==
    \A w \in Wikis : []<>(registry[w] = "live" => census.at = "settle" /\ census.wiki = w)

\* All wikis are of one replica section, or again and again a run gets to the end of its
\* selection: a budget always spent on one section leaves the next to itself (_by_section).
OneReplica == \A v, w \in Wikis : Section[v] = Section[w]
NoSectionAlone == OneReplica \/ []<>(census.at = "settle" /\ census.queue = <<>>)

\* Once edits and troubles end, the catalogue says of each gadget what its wiki says, unless
\* the wiki's page is blank; and of several declarations of one spelling, whether the wiki
\* describes the gadget is left open.
DeclaredNow(k) == {g \in Gadgets : Key[g] = k /\ line[g] # None}
Transcribed ==
    <>[](\A k \in Keys : WikiOf(k) \in roster \ blank =>
            IF DeclaredNow(k) = {} THEN catalog[k] = None
            ELSE LET g == CHOOSE g \in DeclaredNow(k) : \A h \in DeclaredNow(k) : g <= h
                     twins == {h \in DeclaredNow(k) : Spelling[h] = Spelling[g]}
                 IN  /\ catalog[k] # None
                     /\ catalog[k].gadget = g /\ catalog[k].files = line[g].files
                     /\ twins = {g} => catalog[k].described = message[Spelling[g]])

\* Once edits and troubles end, the present text of every gadget and script has been asked
\* about, and a row without values does not rest on a failure.  A row that holds values may:
\* then they are an earlier text's.
Present(n) == n \in Script \/ (rows[n].known /\ ~rows[n].gone)
EveryTextAsked ==
    <>[](\A n \in ToolNames : Present(n) =>
                /\ n \in Keys => rows[n].body = {<<f, page[f]>> : f \in rows[n].files}
                /\ readings[n] # None /\ readings[n].print = TextOf(n) /\ readings[n].status # "error")

\* Of every wiki, what is stored ends up and stays what was last said, unless its section is
\* never reached.
FollowsWikis == NoSectionAlone => Followed /\ Transcribed
=============================================================================
