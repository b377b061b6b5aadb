----------------------------- MODULE MCBrowserUse -----------------------------
(* Two downloads of one worker that fall back to the browser. *)
EXTENDS BrowserUse

CONSTANTS f1, f2

MCFallbacks == {f1, f2}

=============================================================================
