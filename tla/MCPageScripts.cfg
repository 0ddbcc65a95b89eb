SPECIFICATION ScriptsSpec
CONSTANTS
    DoProcessBlock <- BlockFunctions
    BlockCipher <- BlockCipherMethods
    Objects <- MCObjects
    Jobs <- MCJobs
    Text <- MCText
    Standard <- MCStandard
    CipherJobs <- MCCipherJobs
    Message <- MCMessage
INVARIANTS
    HashTypeOK
    DigestIsStandard
    DigestIgnoresCuts
    BufferHoldsTheTail
    TextFormsRoundTrip
    CipherTypeOK
    CiphertextIsStandard
    DecryptRestores
    NeverReleasesPadding
    EveryCallReturns
CHECK_DEADLOCK FALSE
