--------------------------- MODULE MCAppLifecycle ---------------------------
EXTENDS AppLifecycle

\* One thing that is missing at a time.
Missing(e) == {f \in DOMAIN e :
    CASE f = "tlg" -> e.tlg # "runs" [] f = "gpio" -> e.gpio # "chip"
      [] OTHER -> ~e[f]}
OneMissing == {e \in AllEnvironments : Cardinality(Missing(e)) <= 1}
=============================================================================
