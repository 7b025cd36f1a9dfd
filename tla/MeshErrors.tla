----------------------------- MODULE MeshErrors -----------------------------
(***************************************************************************)
(* The errors the API answers with, the exceptions they stand for, and the *)
(* list of errors that /network/options announces.                         *)
(***************************************************************************)

\* The errors that some handler, hook or the error handler answers with.
ErrorCodes == {"networkNotSupported", "blockNotFound", "blockIdentifierRequired",
               "invalidBlockIdentifier", "transactionNotFound", "invalidTransaction",
               "transactionBroadcastError", "invalidSubAccount", "invalidPublicKey",
               "invalidSignature", "internalError", "notImplemented", "invalidRequest",
               "rpcError"}

\* Mutant: an error that the node's contracts cause is taken for final.
RpcErrorIsFinal(code) ==
    [ok |-> FALSE, code |-> code,
     retriable |-> code \in {"blockNotFound", "transactionNotFound", "internalError",
                             "transactionBroadcastError"}]
Error(code) ==
    [ok |-> FALSE, code |-> code,
     retriable |-> code \in {"blockNotFound", "transactionNotFound", "internalError",
                             "transactionBroadcastError", "rpcError"}]
Errors == [ok : {FALSE}, code : ErrorCodes, retriable : BOOLEAN]

\* The exception a handler throws, as the error handler answers it; schema
\* validation throws one, too.
HandleMeshError(exception) ==
    CASE exception = "StacksRpcBlockNotFoundError" -> Error("blockNotFound")
      [] exception = "StacksRpcInvalidBlockIdentifierError" -> Error("invalidBlockIdentifier")
      [] exception = "StacksRpcTransactionNotFoundError" -> Error("transactionNotFound")
      [] exception = "StacksRpcSmartContractError" -> Error("rpcError")
      [] exception = "validation" -> Error("invalidRequest")
      [] OTHER -> Error("internalError")

Listed(code, retriable) == [ok |-> FALSE, code |-> code, retriable |-> retriable]
\* getAllErrors, of which ten more are answered by nothing.
ListedErrors(retriable) ==
    {Listed(code, retriable) : code \in
        IF retriable THEN {"networkOptions", "networkStatus", "blockNotFound",
                           "transactionNotFound", "transactionBroadcastError", "accountNotFound",
                           "constructionMetadata", "mempoolTransactionNotFound",
                           "internalError", "rpcError"}
        ELSE {"networkNotSupported", "blockIdentifierRequired", "invalidBlockIdentifier",
              "invalidTransaction", "transactionParse", "invalidAccountIdentifier",
              "invalidSubAccount", "invalidPublicKey", "invalidSignature",
              "invalidCurveType", "constructionPayloads", "constructionCombine",
              "notImplemented", "invalidRequest"}}
GetAllErrors == ListedErrors(TRUE) \cup ListedErrors(FALSE)
=============================================================================
