-------------------------------- MODULE Results --------------------------------
(***************************************************************************)
(* The result values of the Web UI (src/apps/web-ui/src/app/shared/results)*)
(* : what a request has come to so far.                                    *)
(***************************************************************************)
CONSTANTS None   \* undefined

toPending        == [data |-> None, isLoading |-> TRUE,  error |-> None]
toSuccess(data)  == [data |-> data, isLoading |-> FALSE, error |-> None]
toFailure(error) == [data |-> None, isLoading |-> FALSE, error |-> error]

isPending(result)  == result.isLoading
hasSucceed(result) == result.error = None /\ ~result.isLoading
hasFailed(result)  == result.error # None
=============================================================================
