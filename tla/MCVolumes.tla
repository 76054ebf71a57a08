----------------------------- MODULE MCVolumes -----------------------------
EXTENDS Volumes
CONSTANTS a, b, disk
MCPath == {<<>>, <<a>>, <<b>>, <<a, a>>, <<b, a>>, <<a, a, a>>}
MCMountPoint == {<<a>>}
MCImage == [f \in ImageFile |-> {[at |-> <<a>>, kind |-> "dir", data |-> NoData]}]
=============================================================================
