---------------------------- MODULE MCTlvServer ----------------------------
(* TlvServer with MAX_LENGTH = 4: a request that fills the buffer and      *)
(* looks like a head, one with an unknown (and negative) id and no body,   *)
(* one whose callback throws, one with an id over the limit, and a head    *)
(* with a negative length.                                                 *)
EXTENDS TlvServer

MCFrames ==
  { [id |-> 4, len |-> 4, body |-> <<0, 1, 0, 0>>],
    [id |-> -2, len |-> 0, body |-> <<>>],
    [id |-> 1, len |-> 1, body |-> <<9>>],
    [id |-> 5, len |-> 0, body |-> <<>>],
    [id |-> 1, len |-> -2, body |-> <<9>>] }

MCMalformed == {<<9>>}
=============================================================================
