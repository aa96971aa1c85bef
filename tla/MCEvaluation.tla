---------------------------- MODULE MCEvaluation ----------------------------
(* A small corpus: one incident with a cause, one that is inconclusive.    *)
EXTENDS PairedEvaluation

MCCause == <<"RESOURCE_POOL_SATURATION", "UNDETERMINED">>

Concluded(disposition, cause, cites, retrieval) ==
    [disposition |-> disposition, cause |-> cause, cites |-> cites,
     retrieval |-> retrieval, reason |-> None]

MCReport ==
    {Concluded("DIAGNOSED", "RESOURCE_POOL_SATURATION", "supporting",
               "DISABLED"),
     Concluded("DIAGNOSED", "RESOURCE_POOL_SATURATION", "contrary",
               "FTS5_LEXICAL"),
     Concluded("INSUFFICIENT_EVIDENCE", "UNDETERMINED", None, "DISABLED"),
     Failed("MODEL_OUTPUT_INVALID"),
     Failed("AMBIGUOUS_MODEL_REQUEST")}
=============================================================================
