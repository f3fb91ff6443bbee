-------------------------- MODULE MCRendererObjects --------------------------
(* A small instance of RendererObjects: two surfaces, one that allows no more *)
(* images than it requires and leaves the extent open, as two screens may.    *)
EXTENDS RendererObjects

Screen(min, max, modes, extent) ==
  [minImageCount |-> min, maxImageCount |-> max, presentModes |-> modes,
   formats |-> <<"R8G8B8A8_UNORM", "B8G8R8A8_SRGB">>,
   minImageExtent |-> 1, maxImageExtent |-> 4, currentExtent |-> extent,
   framebuffer |-> 5]
MCSurfaces == {Screen(1, 0, {"FIFO", "MAILBOX"}, 3), Screen(2, 2, {"FIFO"}, Unset)}
==============================================================================
