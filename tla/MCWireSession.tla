---------------------------- MODULE MCWireSession ----------------------------
(* Fields of at most three words: the longest message of the relay just fits *)
(* a frame, the relay takes longer headers than an envelope and shorter      *)
(* ciphertexts, and any word may be damaged, lengths and kinds included.     *)
(* Bob has sent his hello and read the answer when the run starts.           *)
EXTENDS WireSession

MCInit ==
    /\ phase = [d \in Devices |-> IF d = Bob THEN "open" ELSE "hello"]
    /\ queue = [d \in Devices |-> <<>>]
    /\ pushed = [d \in Devices |-> IF d = Bob THEN <<Hello(Bob)>> ELSE <<>>]
    /\ wire = queue
    /\ out = queue
    /\ held = {} /\ sealed = {} /\ opened = {}
    /\ taken = [d \in Devices |-> IF d = Bob THEN 1 ELSE 0]
    /\ faults = 0 /\ ended = 0

MCSpec == MCInit /\ [][Next]_vars
==============================================================================
