SPECIFICATION Spec
CONSTANTS
  Spaces = {0, 1, 2}
  NFRAMES = 9
  PAGE_SIZE = 2
  NPAGES = 4
  UPPER = 1
  RESERVE = 1
  Segments <- OneSegment
  ArgVmas <- ArgPlaces
  Sizes = {1, 3}
  MaxVmas = 3
PROPERTY FreeUnmaps
