---------------------------- MODULE MC_Startup ----------------------------
(* Every combination of the six startup parameters the sequence branches
   on, every step's error, and the option slices a caller may pass. *)
EXTENDS Startup, TLC

CONSTANTS Mock, CallerHandler

(* No options, a custom server, a custom handler, or both. *)
MCCallerOpts ==
    {<<>>, <<WithHTTPServer(Mock)>>, <<WithHTTPHandler(CallerHandler)>>,
     <<WithHTTPServer(Mock), WithHTTPHandler(CallerHandler)>>}
=============================================================================
