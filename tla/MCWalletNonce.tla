--------------------------- MODULE MCWalletNonce ---------------------------
EXTENDS WalletNonce, TLC

CONSTANTS a, b

\* A bot that caches its nonce and refreshes it while it waits, and one that
\* reads it at the trigger.
RefreshStrategy == a :> "refresh_each_block" @@ b :> "just_before_trigger"

\* A bot that keeps the nonce it was started with, and one that reads it.
PreloadStrategy == a :> "preloaded" @@ b :> "just_before_trigger"

\* The first bot is retried; the second asks once for the lock, is stopped or
\* dies, and is started again.
ThreeAndOne == a :> 3 @@ b :> 1
OneAndTwo == a :> 1 @@ b :> 2
ThreeEach == a :> 3 @@ b :> 3
OneEach == a :> 1 @@ b :> 1
=============================================================================
