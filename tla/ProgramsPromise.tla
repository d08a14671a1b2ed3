--------------------------- MODULE ProgramsPromise ---------------------------
(***************************************************************************)
(* What a step's programs promise it, with nothing said of a cache: each   *)
(* gives what it gives in the world the step has made for it, and leaves   *)
(* the trees it can write as it leaves them there, or the attempt is over. *)
(***************************************************************************)
EXTENDS Sequences

CONSTANTS Runs, Programs, Writers, Inputs, Places, Empty, Leaves(_, _), Writes(_, _)

VARIABLES
    going,      \* whether each run is in an attempt
    made,       \* what made what its programs can only read
    staged,     \* what it was given as it read its contexts
    trees,      \* what its programs can write
    last        \* what its last program gave

vars == <<going, made, staged, trees, last>>

World(r) == [made |-> made[r], staged |-> staged[r],
             own |-> trees[r].own, tmp |-> trees[r].tmp]

Init ==
    /\ going = [r \in Runs |-> FALSE]
    /\ made = [r \in Runs |-> <<>>]
    /\ staged = [r \in Runs |-> {}]
    /\ trees = [r \in Runs |-> [own |-> Empty, tmp |-> Empty]]
    /\ last = [r \in Runs |-> Empty]

Begin(r) ==
    /\ ~going[r]
    /\ going' = [going EXCEPT ![r] = TRUE]
    /\ \E place \in Places, given \in SUBSET Inputs :
         made' = [made EXCEPT ![r] = <<[by |-> place, kept |-> given]>>]
    /\ UNCHANGED <<staged, trees, last>>

Give(r) ==
    /\ going[r]
    /\ \E files \in SUBSET Inputs :
         staged' = [staged EXCEPT ![r] = @ \cup files]
    /\ UNCHANGED <<going, made, trees, last>>

Write(r) ==
    /\ going[r]
    /\ \E e \in Writers, files \in SUBSET Inputs :
         /\ made' = [made EXCEPT ![r] = Append(@, [by |-> e, kept |-> files])]
         /\ trees' = [trees EXCEPT ![r] = Writes(e, World(r))]
    /\ UNCHANGED <<going, staged, last>>

Program(r) ==
    /\ going[r]
    /\ \E p \in Programs :
         LET gave == Leaves(p, World(r)) IN
         /\ gave.ok
         /\ trees' = [trees EXCEPT ![r] = [own |-> gave.own, tmp |-> gave.tmp]]
         /\ last' = [last EXCEPT ![r] = gave.out]
    /\ UNCHANGED <<going, made, staged>>

\* The attempt fails, or is over: its world is gone.
End(r) ==
    /\ going[r]
    /\ going' = [going EXCEPT ![r] = FALSE]
    /\ made' = [made EXCEPT ![r] = <<>>]
    /\ staged' = [staged EXCEPT ![r] = {}]
    /\ trees' = [trees EXCEPT ![r] = [own |-> Empty, tmp |-> Empty]]
    /\ last' = [last EXCEPT ![r] = Empty]

Next == \E r \in Runs : Begin(r) \/ Give(r) \/ Write(r) \/ Program(r) \/ End(r)

Spec == Init /\ [][Next]_vars
=============================================================================
