--------------------------- MODULE MCEspFallback ----------------------------
(* Instances of EspFallback: which failures happen is chosen in the .cfg.    *)
EXTENDS EspFallback

\* deploy.rs:520-521 on StartupNsh::NotWritten: "The ESP is full or read-only (the
\* step and error say which): the fallback was skipped and the ESP left as it
\* was."  No script of this deploy is then on the ESP.
NotWrittenSkipsFallback ==
  result = "notWritten" /\ pc = "done" => scripts["root"] # New
=============================================================================
