SPECIFICATION ScriptsSpec
CONSTANTS
    DoProcessBlock <- BlockFunctions
    BlockCipher <- BlockCipherMethods
    Objects <- MCObjects
    Jobs <- TruncatedJobs
    Text <- MCText
    Standard <- MCStandard
    CipherJobs = {}
    Message <- MCMessage
INVARIANT DigestIsStandard
CHECK_DEADLOCK FALSE
