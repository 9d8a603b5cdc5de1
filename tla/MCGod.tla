-------------------------------- MODULE MCGod --------------------------------
(* Small instances of God.                                                  *)
EXTENDS God

\* One child for ever, one once.
ForeverAndOnce == <<-1, 1>>
=============================================================================
