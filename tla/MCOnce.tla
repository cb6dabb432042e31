------------------------------- MODULE MCOnce -------------------------------
(***************************************************************************)
(* Once on a small instance.  The flags are the library's: the streams are *)
(* constructed through the global locale, and that is initialized through  *)
(* the classic body (iostream.cpp:201, locale_body.cpp:501, 468).          *)
(***************************************************************************)
EXTENDS Once, TLC

CONSTANTS classic_body, global_locale, streams

MCFlags == {classic_body, global_locale, streams}

MCCallee == (classic_body :> NoFlag) @@ (global_locale :> classic_body)
                                     @@ (streams :> global_locale)

MCDepth == (classic_body :> 0) @@ (global_locale :> 1) @@ (streams :> 2)
=============================================================================
