------------------------- MODULE MCSidecarInjection -------------------------
(* SidecarInjection with a port of -excludePorts that is no default.        *)
EXTENDS SidecarInjection
MCExcludePorts == <<5432>>
=============================================================================
