----------------------------- MODULE MCUpgrade -----------------------------
\* Two daemon processes, a command, and a tree of an earlier release, or a single binary,
\* that an upgrade gives the daemon's binary.
EXTENDS Upgrade
CONSTANTS p1, p2, c1
=============================================================================
