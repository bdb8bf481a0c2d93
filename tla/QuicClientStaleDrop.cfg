\* A drop reported for an attempt that had been given up.
SPECIFICATION Spec
INVARIANT WaitEndsOnDrop
