--------------------------- MODULE ManagedContext ---------------------------
(***************************************************************************)
(* The managed context of a loop: after each step its observations are     *)
(* appended, oversized ones offloaded to a file and replaced by a          *)
(* reference, and the whole compacted to the working window: mask the      *)
(* older history, prune it, or replace it by one summary.  What compaction *)
(* leaves is what the next step's observations are appended to, so masks   *)
(* and summaries are themselves masked, pruned and summarized later.       *)
(*                                                                         *)
(* An observation is its number in the order of recording, its cost in     *)
(* tokens and whether it is pinned; number 0 is a summary.                 *)
(***************************************************************************)
EXTENDS Integers, Sequences, FiniteSetsExt

CONSTANTS
    WorkingWindow,   \* config.workingWindowTokens
    Costs,           \* costs of observations that stay inline
    PinnedCosts,     \* costs of pinned ones
    ReferenceCost,   \* cost of the reference to an offloaded output
    IdLength,        \* characters of an observation's id
    BatchSize,       \* bound of the model: observations of one step
    Recordings       \* bound of the model: observations of one loop

MaskTokens == 2
SummaryTokenCap == 48
SummaryIdLength == 18

ASSUME WindowAssumption == WorkingWindow \in Nat
ASSUME CostsAssumption ==
    Costs \subseteq Nat /\ PinnedCosts \subseteq Nat /\ ReferenceCost \in Nat
    /\ IdLength \in Nat /\ BatchSize \in Nat

VARIABLES
    context,   \* observations
    pressure,  \* lastPressure: offloads, stages, tokens before and after
    failed,    \* an offload could not be written: the loop has ended
    recorded   \* history: every observation as it was appended

contextVars == <<context, pressure, failed, recorded>>

NoPressure == [offloads |-> 0, stages |-> <<>>, before |-> 0, after |-> 0]

(* A loop that starts with no observations of an earlier one.              *)
ContextInit == context = <<>> /\ pressure = NoPressure /\ failed = FALSE /\ recorded = <<>>
-----------------------------------------------------------------------------
(* The compaction.                                                         *)

TotalTokens(observations) ==
    LET sum[n \in 0 .. Len(observations)] ==
          IF n = 0 THEN 0 ELSE sum[n - 1] + observations[n].tokens
    IN  sum[Len(observations)]

Only(pinned, observations) ==
    LET kept[n \in 0 .. Len(observations)] ==
          IF n = 0 THEN <<>>
          ELSE IF observations[n].pinned = pinned THEN Append(kept[n - 1], observations[n])
          ELSE kept[n - 1]
    IN  kept[Len(observations)]

Pinned(observations) == Only(TRUE, observations)
Flow(observations) == Only(FALSE, observations)

LastN(s, n) == SubSeq(s, Len(s) - n + 1, Len(s))

(* A mutant: no room is reserved for a summary.                            *)
RecentBudget_NoReserve(observations) ==
    Max({0, WorkingWindow - TotalTokens(Pinned(observations))})

RecentBudget(observations) ==
    Max({0, WorkingWindow - TotalTokens(Pinned(observations)) - SummaryTokenCap})

(* A mutant: the newest is not exempt from the budget.                      *)
Recent_NoExemption(observations) ==
    LET flow == Flow(observations)
        fits == {n \in 1 .. Len(flow) :
                     TotalTokens(LastN(flow, n)) <= RecentBudget(observations)}
    IN  LastN(flow, Max(fits \cup {0}))

(* The verbatim tail: the newest, and all that fit the budget with it.     *)
Recent(observations) ==
    LET flow == Flow(observations)
        fits == {n \in 1 .. Len(flow) :
                     n = 1 \/ TotalTokens(LastN(flow, n)) <= RecentBudget(observations)}
    IN  LastN(flow, Max(fits \cup {0}))

Mask(o) == [o EXCEPT !.tokens = MaskTokens]

(* "summary of n earlier observations: ids", cut at the cap; four          *)
(* characters to a token.                                                  *)
Digits(n) == Cardinality({d \in 0 .. n : 10^d <= n})

Summary(history) ==
    LET summaries == Cardinality({i \in DOMAIN history : history[i].number = 0})
        idChars == SummaryIdLength * summaries + IdLength * (Len(history) - summaries)
        chars == 36 + Digits(Len(history)) + idChars + 2 * (Len(history) - 1)
    IN  [number |-> 0, tokens |-> Min({SummaryTokenCap, (chars + 3) \div 4}), pinned |-> FALSE]

(* A mutant: the oldest stubs are kept.                                    *)
Pruned_KeepsOldest(masked, keep) == SubSeq(masked, 1, keep)

Pruned(masked, keep) == LastN(masked, keep)

Compacted(observations, stages) == [observations |-> observations, stages |-> stages]

Compact(observations) ==
    IF TotalTokens(observations) <= WorkingWindow THEN Compacted(observations, <<>>)
    ELSE LET pinned == Pinned(observations)
             recent == Recent(observations)
             flow == Flow(observations)
             history == SubSeq(flow, 1, Len(flow) - Len(recent))
             masked == [i \in DOMAIN history |-> Mask(history[i])]
             fixed == TotalTokens(pinned) + TotalTokens(recent)
             room == Max({0, WorkingWindow - fixed})
             keep == Min({Len(masked), room \div MaskTokens})
             drop == Len(masked) - keep
         IN  IF fixed + TotalTokens(masked) <= WorkingWindow
             THEN Compacted(pinned \o masked \o recent, <<"mask">>)
             ELSE IF 2 * drop <= Len(masked)
             THEN Compacted(pinned \o Pruned(masked, keep) \o recent, <<"mask", "prune">>)
             ELSE Compacted(pinned \o <<Summary(history)>> \o recent,
                            <<"mask", "prune", "summarize">>)
-----------------------------------------------------------------------------
(* One observation of a step: inline, pinned, or over the threshold and    *)
(* offloaded, which a pinned one may be too.                               *)
Inputs ==
    [tokens : Costs, pinned : {FALSE}, offloaded : {FALSE}]
        \cup [tokens : PinnedCosts, pinned : {TRUE}, offloaded : {FALSE}]
        \cup [tokens : {ReferenceCost}, pinned : BOOLEAN, offloaded : {TRUE}]

Batches == UNION {[1 .. n -> Inputs] : n \in 0 .. BatchSize}

(* record(observations) of createManagedContext.                           *)
RecordBatch(batch) ==
    LET bounded == [i \in DOMAIN batch |->
                       [number |-> Len(recorded) + i, tokens |-> batch[i].tokens,
                        pinned |-> batch[i].pinned]]
        appended == context \o bounded
        offloads == Cardinality({i \in DOMAIN batch : batch[i].offloaded})
        compacted == Compact(appended)
    IN  /\ failed = FALSE /\ Len(recorded) + Len(batch) <= Recordings
        /\ context' = compacted.observations
        /\ pressure' = IF offloads = 0 /\ compacted.stages = <<>> THEN pressure
                       ELSE [offloads |-> offloads, stages |-> compacted.stages,
                             before |-> TotalTokens(appended),
                             after |-> TotalTokens(compacted.observations)]
        /\ recorded' = recorded \o bounded
        /\ UNCHANGED failed

(* An offload fails: nothing of the batch is appended, the loop ends.      *)
OffloadFails(batch) ==
    /\ failed = FALSE /\ \E i \in DOMAIN batch : batch[i].offloaded
    /\ failed' = TRUE
    /\ UNCHANGED <<context, pressure, recorded>>

ContextNext == \E batch \in Batches : RecordBatch(batch) \/ OffloadFails(batch)

ContextSpec == ContextInit /\ [][ContextNext]_contextVars
-----------------------------------------------------------------------------
Newest(observations) == LastN(Flow(observations), Min({1, Len(Flow(observations))}))

(* The window is exceeded by no more than one summary beyond what must     *)
(* stay: however many steps have been compacted, the context never grows   *)
(* over the window, or the pinned observations with the newest one and the *)
(* summary's cap.                                                          *)
ContextBounded ==
    TotalTokens(context) <=
        Max({WorkingWindow,
             TotalTokens(Pinned(context)) + TotalTokens(Newest(context)) + SummaryTokenCap})

(* What must stay stays as it was recorded, through every compaction: the  *)
(* pinned observations, all of them and in order, and the newest other.    *)
PinnedAndNewestKept ==
    /\ Pinned(context) = Pinned(recorded)
    /\ Newest(context) = Newest(recorded)

(* What survives of the rest is the end of the history, once each and in   *)
(* order, behind at most one summary; nothing older outlives something     *)
(* newer that was pruned.                                                  *)
SurvivorsAreNewest ==
    LET numbers == [i \in DOMAIN Flow(context) |-> Flow(context)[i].number]
        all == [i \in DOMAIN Flow(recorded) |-> Flow(recorded)[i].number]
        own == IF numbers # <<>> /\ numbers[1] = 0 THEN Tail(numbers) ELSE numbers
    IN  Len(own) <= Len(all) /\ own = LastN(all, Len(own))

(* The comment on compact: the result is kept within the window except     *)
(* when a single recent observation alone exceeds it.                      *)
KeptWithinWindow ==
    Pinned(context) = <<>> =>
        \/ TotalTokens(context) <= WorkingWindow
        \/ TotalTokens(Newest(context)) > WorkingWindow
=============================================================================
